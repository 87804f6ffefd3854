-------------------------- MODULE MCSubmitHandler --------------------------
(***************************************************************************)
(* TLC instances of SubmitHandler: one field, one field validator or none.  *)
(***************************************************************************)
EXTENDS SubmitHandler

OneField == {<<"a">>}
FieldValidator == [email |-> {<<"a">>}]
OnChange == [email |-> "onChange"]

(* A form without async validators.                                         *)
NoFields == [v \in {} |-> {}]
=============================================================================
