---------------------- MODULE MCValidationCoordinator ----------------------
(***************************************************************************)
(* TLC instances of ValidationCoordinator.  Paths are segment sequences:    *)
(* "a" contains "a.b" and is disjoint from "c".                             *)
(***************************************************************************)
EXTENDS ValidationCoordinator

OnePath == {<<"a", "b">>}

FewPaths == {<<"a", "b">>, <<"c">>}

(* A field validator on a.b run on change, and a form-level one on blur.    *)
ChangeAndBlurFields == [email |-> {<<"a", "b">>}, whole |-> {}]
ChangeAndBlurTrigger == [email |-> "onChange", whole |-> "onBlur"]

(* TokenIds, as far as MaxGeneration and MaxDepth let generations go.       *)
BoundedTokenIds == (Validators \cup {NONE}) \X (1..MaxGeneration + MaxDepth)

(* Everything that starts validating stops.                                 *)
RunsEnd == \A t \in BoundedTokenIds : t \in active ~> t \notin active

(* Every promise handed to a caller settles.                                *)
PromisesSettle ==
    \A t \in BoundedTokenIds : t \in DOMAIN tokens /\ IsForeground(t) ~> t \notin DOMAIN tokens
=============================================================================
