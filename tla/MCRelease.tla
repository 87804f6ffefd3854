------------------------------ MODULE MCRelease -------------------------------
(* Model checking of ReleaseTags and RcPublication.                         *)
EXTENDS ReleaseTags, TLC

CONSTANTS j1, j2
TwoOfOneRun == j1 :> 1 @@ j2 :> 1
OneHost == j1 :> 1 @@ j2 :> 1
FirstAttempts == j1 :> 1 @@ j2 :> 1
=============================================================================
