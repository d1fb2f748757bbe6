----------------------------- MODULE MCLifecycle -----------------------------
(* Model-checking instance of Lifecycle: a few connections, one SIGHUP.    *)
EXTENDS Lifecycle, TLC

MC2 == 1 .. 2
MC3 == 1 .. 3
BothTargets == {"main", "thread"}
====
