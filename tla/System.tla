-------------------------------- MODULE System --------------------------------
(***************************************************************************)
(* The whole daemon: Execution and Delivery over one jobs table.           *)
(*                                                                         *)
(* _tick runs them one after the other in the main thread: commands,       *)
(* recovery, dispatch and watchdog, then Supervisor.tick.  The reader      *)
(* threads, the CLI, the Controller and a crash come between any two of    *)
(* their steps.  Delivery's "terminal" is no longer a choice of the        *)
(* environment but jobs.state, and a job that is put back into the queue   *)
(* loses its delivery columns, whoever is about to write them.             *)
(*                                                                         *)
(* The Supervisor runs in its default mode, without --auto-wake; wake mode *)
(* and the grace period are in Delivery.                                   *)
(***************************************************************************)
EXTENDS JobStore, Naturals, FiniteSets

CONSTANTS
  Jobs, Repos, Sessions, None, RepoOf, SessionRepo, MaxConcurrency, GlobalMax,
  MaxRetries, MaxAttempts, MaxOvertaken, MaxTimeouts, MaxKills, MaxStops,
  HasChat, MaxAsks, MaxCrashes, MaxLost,
  MaxEvents      \* bound: kills, timeouts, stops, attempts overtaken and jobs asked
                 \* about, together

\* What Execution and Delivery assume of their constants.
ASSUME SystemAssumption ==
  /\ IsFiniteSet(Jobs)
  /\ RepoOf \in [Jobs -> Repos]
  /\ SessionRepo \in [Sessions -> Repos]
  /\ MaxConcurrency \in [Repos -> Nat]
  /\ GlobalMax \in Nat /\ MaxRetries \in Nat /\ MaxAttempts \in Nat
  /\ MaxTimeouts \in Nat /\ MaxKills \in Nat /\ MaxStops \in Nat
  /\ MaxOvertaken \in Nat
  /\ None \notin Jobs \cup Sessions \cup JobStates
  /\ None \notin Jobs \X Nat
  /\ HasChat \subseteq Jobs
  /\ MaxAsks \in Nat /\ MaxCrashes \in Nat /\ MaxLost \in Nat

VARIABLES
  \* Execution
  state, attempts, finished, onSession, session, holder, backedOff, backoffCount,
  commands, worker, reader, registered, pc, cur, goal, next, todo, plan, batch,
  touched, overtaken, timeouts, kills, stops,
  \* Delivery
  reported, wakeState, wakeAttempts, overdue, place, autoWake, list, seen,
  seenAttempts, driven, prompts, turn, posts, replies, wakes, asks, crashes, lost,
  \* the part of the tick that runs: "work", then "deliver"
  part

E == INSTANCE Execution
D == INSTANCE Delivery WITH
  terminal <- [j \in Jobs |-> state[j] \in DeliveryTerminalStates],
  cur <- driven,
  MaxWakeAttempts <- 0

ASSUME NoneIsNoAction == None \notin E!RecoveryActions

execVars ==
  <<state, attempts, finished, onSession, session, holder, backedOff, backoffCount,
    commands, worker, reader, registered, pc, cur, goal, next, todo, plan, batch,
    touched, overtaken, timeouts, kills, stops>>
columns  == <<reported, wakeState, wakeAttempts, overdue>>
tickVars == <<place, autoWake, list, seen, seenAttempts, driven>>
ctlVars  == <<prompts, turn, posts, replies, wakes, asks, lost>>
vars == <<execVars, columns, tickVars, ctlVars, crashes, part>>

TypeOK == E!TypeOK /\ D!TypeOK /\ part \in {"work", "deliver"}

Init == E!Init /\ D!Init /\ part = "work"

-----------------------------------------------------------------------------
\* The jobs that a step puts into the queue.
Requeued == {j \in Jobs : state'[j] = "queued" /\ state[j] # "queued"}

Except(f, S, v) == [j \in Jobs |-> IF j \in S THEN v ELSE f[j]]

\* Mutant: a requeue leaves the columns of the earlier run.
ColumnsKept == UNCHANGED columns

\* Mutant: the claim is taken back with an empty value instead of NULL.
ColumnsEmptied ==
  /\ reported' = Except(reported, Requeued, FALSE)
  /\ wakeState' = Except(wakeState, Requeued, "")
  /\ wakeAttempts' = Except(wakeAttempts, Requeued, 0)
  /\ overdue' = Except(overdue, Requeued, FALSE)

\* transition_job(queued) writes the delivery columns with the state.
ColumnsReset ==
  /\ reported' = Except(reported, Requeued, FALSE)
  /\ wakeState' = Except(wakeState, Requeued, "null")
  /\ wakeAttempts' = Except(wakeAttempts, Requeued, 0)
  /\ overdue' = Except(overdue, Requeued, FALSE)

Events ==
  kills + timeouts + stops + Cardinality(overtaken) + Cardinality({j \in Jobs : asks[j] > 0})
WithinBound == Events' <= MaxEvents

\* Both parts start, stop and crash together.
Start ==
  /\ pc = "down"
  /\ E!DaemonStarts
  /\ D!DaemonStarts /\ autoWake' = FALSE
  /\ part' = "work"

\* The watchdog's turn is the last of the first part.
Work ==
  /\ part = "work" /\ pc # "down"
  /\ E!MainStep
  /\ ColumnsReset
  /\ IF pc' = "down" THEN D!Crash
                     ELSE UNCHANGED <<tickVars, ctlVars, crashes>>
  /\ WithinBound
  /\ part' = IF pc \in {"watchdog", "check"} /\ pc' = "commands" THEN "deliver" ELSE "work"

Crash ==
  /\ E!Crash /\ D!Crash
  /\ WithinBound
  /\ part' = "work"

\* A statement or a request of Supervisor.tick; its end is the end of _tick.
Deliver ==
  /\ part = "deliver"
  /\ UNCHANGED execVars
  /\ D!TickStep
  /\ part' = IF place' = "idle" THEN "work" ELSE "deliver"

ReaderThread ==
  /\ \E a \in E!Attempts : E!ReaderStep(a)
  /\ ColumnsReset
  /\ UNCHANGED <<tickVars, ctlVars, crashes, part>>

\* A kill of the repo is a kill of its jobs, see Execution.
Outside ==
  /\ \/ \E a \in E!Attempts : E!WorkerExits(a)
     \/ \E j \in Jobs : E!CreateJob(j)
     \/ \E j \in Jobs : state[j] # "absent" /\ E!RequestKill(<<"job", j>>)
     \/ \E r \in Repos : E!BackoffExpires(r)
  /\ UNCHANGED <<columns, tickVars, ctlVars, crashes, part>>
  /\ WithinBound

\* Whoever asks before the job has ended may as well ask when it has.
Controller ==
  /\ UNCHANGED execVars /\ UNCHANGED part
  /\ \E j \in Jobs : \/ state[j] \in DeliveryTerminalStates /\ D!UserAsks(j)
                     \/ D!Collect(j) \/ D!Reply(j) \/ D!TurnDropped(j) \/ D!ReportDone(j)
  /\ WithinBound

-----------------------------------------------------------------------------
Next == Start \/ Work \/ Crash \/ Deliver \/ ReaderThread \/ Outside \/ Controller

Spec == Init /\ [][Next]_vars

\* The operating system runs the main thread and the readers, the watchdog is not put
\* off for ever, Workers and backoffs end, and Discord answers at some time.  And
\* job_timeout comes to pass: an attempt that is active check after check, its row
\* finished or not, is timed out in the end.
FairSpec ==
  /\ Spec
  /\ WF_vars(Start \/ Work \/ Deliver)
  /\ SF_vars(Work /\ E!ListActive)
  /\ \A j \in Jobs : SF_vars(Work /\ E!CheckTimeout(j))
  /\ SF_vars(Deliver /\ (D!PostAccepted \/ D!PostRejected))
  /\ WF_vars(ReaderThread)
  /\ WF_vars(Outside /\ \E a \in E!Attempts : E!WorkerExits(a))
  /\ WF_vars(Outside /\ \E r \in Repos : E!BackoffExpires(r))

-----------------------------------------------------------------------------
(* Properties.                                                              *)

Rerun(j) == state[j] = "queued" \/ state[j] \in ActiveStates

\* A job that runs again starts with a clean slate: no claim and no report of
\* the Supervisor on an earlier outcome survives the requeue, so the next
\* outcome is told too.  Only the Controller's report-done reaches past it.
RerunStartsClean ==
  \A j \in Jobs : Rerun(j) => /\ wakeState[j] = "null"
                              /\ reported[j] => replies[j] > 0

\* A job that ended, by itself, by a kill or by its last retry, has no Worker at
\* work, but for an orphan, which an earlier daemon left behind when it was killed and
\* nobody reads, and for the Worker of a run that was not the one that ended it: the
\* watchdog did not wait for the completion of an earlier attempt, and that came
\* after all.
OnlyOrphansOutlive ==
  \A a \in E!Attempts :
    worker[a] = "alive" /\ state[a[1]] \in FinalStates =>
      \/ reader[a] = "done" /\ stops > 0
      \/ \E b \in overtaken : b[1] = a[1] /\ b # a /\ reader[b] = "done"

\* The job waits for an attempt or a timeout that the instance does not have.
BeyondBounds(j) ==
  \/ state[j] = "queued" /\ attempts[j] = MaxAttempts
  \/ /\ state[j] \in ActiveStates
     /\ timeouts = MaxTimeouts \/ Events = MaxEvents

Settled(j) ==
  state[j] \in FinalStates /\ (reported[j] \/ wakeState[j] = "undeliverable")

\* From the queue to the user: a job that was dispatched ends and is reported or
\* given up, whatever its Workers do and wherever the daemon dies.  What it may
\* be stuck in instead is lost, and after a crash timed_out.
OutcomeDelivered ==
  \A j \in Jobs :
    state[j] = "queued" ~> \/ Settled(j) \/ state[j] = "lost"
                           \/ [](state[j] = "timed_out" /\ stops > 0)
                           \/ []BeyondBounds(j)

\* "A non-LLM Supervisor guarantees a terminal delivery attempt": the same with
\* neither lost nor a crash for an excuse.
OutcomeGuaranteed ==
  \A j \in Jobs : state[j] = "queued" ~> Settled(j) \/ []BeyondBounds(j)
=============================================================================
