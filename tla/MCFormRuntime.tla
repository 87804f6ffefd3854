--------------------------- MODULE MCFormRuntime ----------------------------
(* Model checking of FormRuntime.                                           *)
EXTENDS FormRuntime, TLC

CONSTANTS p1, p2, m1

OnePlugin == <<p1>>
TwoPlugins == <<p1, p2>>
OneMiddleware == <<m1>>
Alike == Permutations(Listeners)
=============================================================================
