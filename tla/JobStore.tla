------------------------------ MODULE JobStore ------------------------------
(***************************************************************************)
(* The vocabulary of the jobs table (lib/db.py): the states a row may be   *)
(* in, the transitions transition_job accepts, and the states that trigger *)
(* a delivery.  A constant module: every other module of the project reads *)
(* job rows through it.                                                    *)
(***************************************************************************)

JobStates ==
  {"queued", "starting", "running", "succeeded", "failed_retryable",
   "failed_permanent", "rate_limited", "needs_controller", "timed_out", "lost"}

\* Supervisor delivers these; timed_out and lost are intermediate.
DeliveryTerminalStates == {"succeeded", "failed_permanent", "needs_controller"}

\* The states without a transition out.
FinalStates == {"succeeded", "failed_permanent"}

\* A Worker slot is taken (count_running_jobs).
ActiveStates == {"starting", "running"}

\* VALID_TRANSITIONS, as the set of states reachable in one step.
ValidTransitions ==
  [s \in JobStates |->
     CASE s = "queued"   -> {"starting", "failed_permanent"}
       [] s = "starting" -> {"running", "failed_retryable", "failed_permanent",
                             "timed_out", "lost"}
       [] s = "running"  -> {"succeeded", "failed_retryable", "failed_permanent",
                             "rate_limited", "needs_controller", "timed_out", "lost"}
       [] s = "needs_controller" -> {"queued", "failed_permanent", "succeeded"}
       [] s \in {"rate_limited", "failed_retryable", "timed_out", "lost"}
                                 -> {"queued", "failed_permanent"}
       [] s \in FinalStates      -> {}]

\* The test of transition_job; it raises ValueError when this is false.
\* A row that was never inserted ("absent") is not found, which raises too.
CanTransition(from, to) == from \in JobStates /\ to \in ValidTransitions[from]
=============================================================================
