----------------------------- MODULE MCKaladaHost -----------------------------
(***************************************************************************)
(* TLC instances of KaladaHost: the concurrency of the actions.             *)
(***************************************************************************)
EXTENDS KaladaHost

Each(send, rest) == [k \in ActionKinds |-> IF k = "send" THEN send ELSE rest]
Declared == {Each("replace", "queue"), Each("queue", "replace")}
=============================================================================
