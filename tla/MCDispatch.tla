------------------------------ MODULE MCDispatch ------------------------------
(* An instance of Dispatch for TLC.                                         *)
EXTENDS Dispatch

\* The second is urgent and for later, the third is urgent.
Priorities == <<0, 1, 1, 0>>
Times == <<0, 20, 0, 0>>
=============================================================================
