------------------------------- MODULE MCSystem -------------------------------
(* Instances of System for TLC.                                             *)
EXTENDS System, TLC

\* One repo holds every job.
OneRepo == [j \in Jobs |-> CHOOSE r \in Repos : TRUE]
SessionsOfOneRepo == [s \in Sessions |-> CHOOSE r \in Repos : TRUE]
OneAtATime == [r \in Repos |-> 1]
=============================================================================
