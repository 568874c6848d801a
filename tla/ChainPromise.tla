---------------------------- MODULE ChainPromise ----------------------------
(***************************************************************************)
(* What a chain promises to whoever wrote its file and sees neither the    *)
(* jobs' attempts, nor the threads that dispatch the steps, nor crashes:   *)
(* which steps have been started, which have succeeded, and how often      *)
(* somebody stepped in with chain-resume.                                  *)
(***************************************************************************)
EXTENDS Naturals

CONSTANT Length    \* the number of entries of the chain file

VARIABLES
  started,   \* the steps that have a job
  passed,    \* the steps some job of which succeeded
  hands      \* how often the chain was resumed by hand

promiseVars == <<started, passed, hands>>

PromiseInit == started = {} /\ passed = {} /\ hands = 0

Begin ==
  /\ started = {} /\ started' = {1}
  /\ UNCHANGED <<passed, hands>>

Pass(k) ==
  /\ k \in started
  /\ passed' = passed \cup {k}
  /\ UNCHANGED <<started, hands>>

\* On its own the chain goes one step on, and only from a step that succeeded.
Advance(k) ==
  /\ k \in passed /\ k < Length
  /\ started' = started \cup {k + 1}
  /\ UNCHANGED <<passed, hands>>

\* By hand it goes one step on from any step that was started.
Resume(k) ==
  /\ k \in started /\ k < Length
  /\ started' = started \cup {k + 1}
  /\ hands' = hands + 1
  /\ UNCHANGED passed

PromiseNext == Begin \/ \E k \in 1..Length : Pass(k) \/ Advance(k) \/ Resume(k)

PromiseSpec == PromiseInit /\ [][PromiseNext]_promiseVars
=============================================================================
