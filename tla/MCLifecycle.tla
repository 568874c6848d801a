----------------------------- MODULE MCLifecycle -----------------------------
(* Instances of Lifecycle for TLC.                                          *)
EXTENDS Lifecycle, TLC

Symmetry == Permutations(Pids) \cup Permutations(Callers)
=============================================================================
