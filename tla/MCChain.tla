------------------------------- MODULE MCChain -------------------------------
(* Instances of Chain for TLC.                                              *)
EXTENDS Chain
=============================================================================
