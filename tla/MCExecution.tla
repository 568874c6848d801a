----------------------------- MODULE MCExecution -----------------------------
(* Instances of Execution for TLC.                                          *)
EXTENDS Execution, TLC

\* One repo holds every job.
OneRepo == [j \in Jobs |-> CHOOSE r \in Repos : TRUE]
SessionsOfOneRepo == [s \in Sessions |-> CHOOSE r \in Repos : TRUE]
OneAtATime == [r \in Repos |-> 1]
TwoAtATime == [r \in Repos |-> 2]

\* No more than two kills, timeouts, ends of the daemon and completions that were not
\* waited for in a behaviour, and no more than three attempts.
RareEvents ==
  /\ kills + timeouts + stops + Cardinality(overtaken) <= 2
  /\ Cardinality({a \in Attempts : a[2] <= attempts[a[1]]}) <= 3

\* Jobs are told apart by nothing, nor are session rows.
Symmetry == Permutations(Jobs) \cup Permutations(Sessions)
=============================================================================
