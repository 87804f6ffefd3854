-------------------------- MODULE MCActionExecutor ---------------------------
(* Model checking of ActionExecutor: concurrency declarations.              *)
EXTENDS ActionExecutor

(* A custom action under every policy beside one that drops.*)
CustomAndReset == {<<p, "drop">> : p \in {"drop", "replace", "queue"}}
Queue == {<<"queue">>}
=============================================================================
