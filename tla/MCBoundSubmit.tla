--------------------------- MODULE MCBoundSubmit -----------------------------
(* Model checking of BoundSubmit.                                           *)
EXTENDS BoundSubmit
=============================================================================
