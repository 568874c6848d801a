------------------------------ MODULE MCDelivery ------------------------------
(* Instances of Delivery for TLC.                                           *)
EXTENDS Delivery, TLC

\* Jobs that all have a chat are interchangeable.
Symmetry == Permutations(Jobs)
=============================================================================
