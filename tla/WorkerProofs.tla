------------------------------ MODULE WorkerProofs ------------------------------
(***************************************************************************)
(* Proofs about the Worker processes of Execution, for any jobs, repos,    *)
(* sessions and bounds, and whether or not the watchdog waits for the      *)
(* completions.  The limits on rows are limits on the processes too, and   *)
(* what transition_job checked still holds when it writes, but for the     *)
(* jobs that a completion nobody waited for came late to, and for orphans. *)
(***************************************************************************)
EXTENDS ExecutionProofs, FunctionTheorems

-----------------------------------------------------------------------------
(* The invariant.  It has two halves.  The first holds of every job: which  *)
(* readers and Workers there are.  The second holds of the jobs no          *)
(* completion came late to, and rests on a chain: a job is only launched    *)
(* when the readers of its attempts are idle; one that is not belongs to    *)
(* the latest attempt of a job that is not waiting; and every step that     *)
(* puts a job back to wait comes after its Worker has been stopped and its  *)
(* reader joined, or overtaken.                                             *)

\* A Worker of this daemon.  One whose reader died with an earlier daemon is an
\* orphan: it is alive, nobody reads it, and nobody stops it.
Manned(a) == worker[a] = "alive" /\ reader[a] # "done"
NoWorker(j) == \A a \in Attempts : a[1] = j => ~ Manned(a)

\* The reader has not started, or has nothing left to do.
Quiet == {"none", "done"}

\* A completion that was not waited for has come: from then on the job's row may be
\* another run's.
Late(j) == \E b \in overtaken : b[1] = j /\ reader[b] = "done"

\* A completion that is under way, and is or will be waited for.
Busy(a) == reader[a] \notin Quiet /\ a \notin overtaken
Idle(j) == \A a \in Attempts : a[1] = j => ~ Busy(a)

\* The states in which a job waits to be launched, or for its controller.
Parked == {"absent", "queued", "rate_limited", "failed_retryable", "needs_controller"}

Launching == {"enter_starting", "occupy", "enter_running", "spawn"}
Launch == pc \in Launching \/ (pc = "write" /\ next \in Launching)

\* Of every job.  An attempt has no reader before its launch.
Fresh ==
  /\ \A a \in Attempts : a[2] > attempts[a[1]] => reader[a] = "none"
  /\ Launch => reader[Latest(cur)] = "none"
RegisteredExist == \A a \in registered : a[2] <= attempts[a[1]]

\* Whom the main thread does not wait for has no Worker any more.
OvertakenStarted == \A a \in overtaken : reader[a] # "none" /\ ~ Manned(a)
JoinsEnded == pc = "join" => ~ Manned(Latest(cur))

\* A Worker has its reader, and is registered as soon as it can be.
WorkersKnown ==
  \A a \in Attempts : Manned(a) =>
    /\ reader[a] = "reading"
    /\ a \in registered \/ (pc = "register" /\ a = Latest(cur))

\* Only the end of a daemon makes an orphan.
OrphansCounted == \A a \in Attempts : worker[a] = "alive" /\ ~ Manned(a) => stops > 0

\* The places transition_job returns to.
ReturnPlaces ==
  {"command", "requeue_limited", "requeue_failed", "occupy", "spawn", "dispatch", "check"}
WritesReturn ==
  pc = "write" =>
    /\ next \in ReturnPlaces
    /\ goal = "timed_out" => next = "check" /\ plan[cur] # None

\* drive_recovery takes a job off its list before it works on it.
Requeueing(place) == pc = place \/ (pc \in {"requeue", "write"} /\ next = place)
ListsApart ==
  Requeueing("requeue_limited") \/ Requeueing("requeue_failed") => cur \notin todo

\* Of a job no completion came late to.
ReadersCurrent ==
  \A a \in Attempts : Busy(a) /\ ~ Late(a[1]) =>
    a[2] = attempts[a[1]] /\ state[a[1]] \notin Parked

LaunchesIdle(j) ==
  /\ Launch => Idle(j)
  /\ pc = "spawn" => state[j] = "running"
  /\ pc = "write" /\ next = "spawn" => goal = "running"

\* Only timed_out is written over a job whose Worker may be alive.
WritesSettled(j) ==
  pc = "write" => /\ goal \in Parked => Idle(j)
                  /\ goal # "timed_out" => NoWorker(j)

\* What a recovery or a kill does to the row comes after the Worker's end.
ActsSettled(j) ==
  /\ pc = "act" /\ NeedsCleanup(j) => Idle(j)
  /\ pc \in {"killing", "join", "act", "give_up"} => NoWorker(j)

InHandSettled ==
  \A j \in Jobs : cur = j /\ ~ Late(j) => LaunchesIdle(j) /\ WritesSettled(j) /\ ActsSettled(j)

\* drive_recovery works on rows that stay as it listed them.
RequeuesParked ==
  \A j \in Jobs : ~ Late(j) =>
    /\ pc = "requeue" /\ cur = j => state[j] \in {"rate_limited", "failed_retryable"}
    /\ Requeueing("requeue_limited") /\ j \in todo => state[j] = "rate_limited"
    /\ Requeueing("requeue_failed") /\ j \in todo => state[j] = "failed_retryable"

InWatchdog ==
  pc \in {"check", "look", "join", "act", "give_up"} \/ (pc = "write" /\ next = "check")

\* The job of a Worker is running, or timed out and about to be cleaned up.
Held(j) == state[j] = "running" \/ (state[j] = "timed_out" /\ plan[j] # None /\ InWatchdog)
WorkersHeld == \A a \in Attempts : Manned(a) /\ ~ Late(a[1]) => Held(a[1])

Known ==
  /\ Fresh /\ RegisteredExist /\ OvertakenStarted /\ JoinsEnded /\ WorkersKnown
  /\ OrphansCounted /\ WritesReturn /\ ListsApart
Watched == Known /\ ReadersCurrent /\ InHandSettled /\ RequeuesParked /\ WorkersHeld

-----------------------------------------------------------------------------
(* What a step can do to readers, Workers, attempts and states.             *)

\* An attempt is named by its job and its number.
LEMMA SameAttempt ==
  ASSUME NEW a \in Attempts, NEW b \in Attempts, a[1] = b[1], a[2] = b[2]
  PROVE  a = b
BY DEF Attempts

LEMMA AttemptFacts ==
  ASSUME NEW a \in Attempts
  PROVE  a[1] \in Jobs /\ a[2] \in Nat /\ a[2] > 0 /\ a = <<a[1], a[2]>>
BY ConstantsAssumption DEF Attempts

\* A daemon that exits by itself has no Worker left.
LEMMA ExitLeavesNone ==
  ASSUME Known, DaemonExits, NEW a \in Attempts PROVE ~ Manned(a)
BY DEF Known, WorkersKnown, Manned, DaemonExits

\* The main thread wakes readers by the launch alone, ends them with the daemon,
\* and stops Workers otherwise.
LEMMA MainLeavesReaders ==
  ASSUME Typed, MainStep, ~ SpawnWorker, ~ DaemonExits
  PROVE  /\ reader' = reader
         /\ worker' = worker \/ \E b \in Attempts : worker' = [worker EXCEPT ![b] = "ended"]
<1>. USE DEF Typed, TypeOK, ProcessesTyped, procVars
<1>1. reader' = reader
  BY DEF MainStep, DaemonStarts, PollCommands, KillJob, WriteState, NextCommand,
     KillStop, ListRateLimited, ListFailed, RecoveryDone, Requeue, RequeueLimited,
     RequeueFailed, ClearBackoff, PickJob, EnterStarting, OccupySession, EnterRunning,
     SpawnRefused, SpawnRaises, RegisterProcess, DispatchDone, SkipWatchdog, ListActive,
     CheckTimeout, CheckUnfinished, CheckFinished, ApplyRecovery, CheckLost, CheckHealthy,
     ReleaseSlot, RetrySameSession, GiveUp, ReportLost, RecoveriesApplied, ForkSession,
     StopRequested, StopOne
<1>2. worker' = worker \/ \E b \in Attempts : worker' = [worker EXCEPT ![b] = "ended"]
  <2>1. ASSUME NEW j \in Jobs, KillStop(j)
        PROVE  worker' = worker \/ \E b \in Attempts : worker' = [worker EXCEPT ![b] = "ended"]
    BY <2>1 DEF KillStop, StopWorker
  <2>2. ASSUME NEW j \in Jobs, ApplyRecovery(j)
        PROVE  worker' = worker \/ \E b \in Attempts : worker' = [worker EXCEPT ![b] = "ended"]
    BY <2>2 DEF ApplyRecovery, StopWorker
  <2>3. ASSUME NEW b \in Attempts, StopOne(b)
        PROVE  worker' = worker \/ \E c \in Attempts : worker' = [worker EXCEPT ![c] = "ended"]
    BY <2>3 DEF StopOne, StopWorker
  <2>4. CASE /\ \A j \in Jobs : ~ KillStop(j) /\ ~ ApplyRecovery(j)
             /\ \A b \in Attempts : ~ StopOne(b)
    BY <2>4 DEF MainStep, DaemonStarts, PollCommands, KillJob, WriteState, NextCommand,
       ListRateLimited, ListFailed, RecoveryDone, Requeue, RequeueLimited,
       RequeueFailed, ClearBackoff, PickJob, EnterStarting, OccupySession, EnterRunning,
       SpawnRefused, SpawnRaises, RegisterProcess, DispatchDone, SkipWatchdog, ListActive,
       CheckTimeout, CheckUnfinished, CheckFinished, CheckLost, CheckHealthy,
       ReleaseSlot, RetrySameSession, GiveUp, ReportLost, RecoveriesApplied, ForkSession,
       StopRequested
  <2>. QED
    BY <2>1, <2>2, <2>3, <2>4
<1>. QED
  BY <1>1, <1>2

\* A reader leaves its Worker alone, and only one that has ended.
LEMMA ReadersMove ==
  ASSUME NEW b \in Attempts, ReaderStep(b)
  PROVE  /\ worker' = worker /\ attempts' = attempts /\ boundVars' = boundVars
         /\ mainVars' = mainVars
         /\ reader[b] \notin Quiet /\ (reader[b] = "reading" => worker[b] = "ended")
         /\ \E to : reader' = [reader EXCEPT ![b] = to]
BY DEF ReaderStep, ReaderGuard, ReaderFinish, ReaderRelease, ReaderCheck, ReaderSucceeds,
   ReaderRateLimited, ReaderFails, ReaderWrites, Move, Quiet, dbVars

\* A quiet reader is woken by the launch of its own attempt only.
LEMMA QuietStays ==
  ASSUME Typed, [Next]_vars, NEW a \in Attempts, reader[a] \in Quiet
  PROVE  reader'[a] = reader[a] \/ (SpawnWorker /\ a = Latest(cur))
<1>. USE DEF Typed, TypeOK, ProcessesTyped, Quiet, procVars
<1>1. ASSUME NEW b \in Attempts, ReaderStep(b) PROVE reader'[a] = reader[a]
  BY <1>1, ReadersMove
<1>2. CASE Environment
  BY <1>2 DEF Environment, Crash, ProcessEnds, WorkerExits, CreateJob, RequestKill,
     BackoffExpires
<1>3. CASE UNCHANGED vars
  BY <1>3 DEF vars
<1>4. CASE SpawnWorker
  BY <1>4 DEF SpawnWorker
<1>5. CASE DaemonExits
  BY <1>5 DEF DaemonExits, ProcessEnds
<1>6. CASE MainStep /\ ~ SpawnWorker /\ ~ DaemonExits
  BY <1>6, MainLeavesReaders
<1>. QED
  BY <1>1, <1>2, <1>3, <1>4, <1>5, <1>6 DEF Next

\* Nobody forgets that an attempt had a reader.
LEMMA NotForgotten ==
  ASSUME Typed, [Next]_vars, NEW a \in Attempts, reader[a] # "none"
  PROVE  reader'[a] # "none"
<1>. USE DEF Typed, TypeOK, ProcessesTyped, procVars
<1>1. ASSUME NEW b \in Attempts, ReaderStep(b) PROVE reader'[a] # "none"
  BY <1>1 DEF ReaderStep, ReaderGuard, ReaderFinish, ReaderRelease, ReaderCheck,
     ReaderSucceeds, ReaderRateLimited, ReaderFails, ReaderWrites, Move
<1>2. CASE Environment
  BY <1>2 DEF Environment, Crash, ProcessEnds, WorkerExits, CreateJob, RequestKill,
     BackoffExpires
<1>3. CASE UNCHANGED vars
  BY <1>3 DEF vars
<1>4. CASE SpawnWorker
  BY <1>4 DEF SpawnWorker
<1>5. CASE DaemonExits
  BY <1>5 DEF DaemonExits, ProcessEnds
<1>6. CASE MainStep /\ ~ SpawnWorker /\ ~ DaemonExits
  BY <1>6, MainLeavesReaders
<1>. QED
  BY <1>1, <1>2, <1>3, <1>4, <1>5, <1>6 DEF Next

\* Whom the main thread goes on without is under way just then.
LEMMA OvertakenGrows ==
  ASSUME Typed, [Next]_vars
  PROVE  /\ overtaken \subseteq overtaken'
         /\ \A a \in overtaken' \ overtaken :
              /\ reader[a] \notin Quiet /\ reader'[a] = reader[a] /\ worker'[a] = worker[a]
              /\ reader[a] \in PastGuard \/ (pc = "join" /\ a = Latest(cur))
<1>. USE DEF boundVars, procVars, PastGuard, Quiet
<1>1. ASSUME NEW b \in Attempts, ReaderStep(b) PROVE overtaken' = overtaken
  BY <1>1, ReadersMove
<1>2. CASE Environment
  BY <1>2 DEF Environment, Crash, ProcessEnds, WorkerExits, CreateJob, RequestKill,
     BackoffExpires
<1>3. CASE UNCHANGED vars
  BY <1>3 DEF vars
<1>4. ASSUME NEW j \in Jobs, NEW s \in Sessions, PickJob(j, s)
      PROVE  /\ overtaken \subseteq overtaken' /\ reader' = reader /\ worker' = worker
             /\ \A a \in overtaken' \ overtaken : reader[a] \in PastGuard
  BY <1>4 DEF PickJob
<1>5. CASE ReleaseSlot
  BY <1>5 DEF ReleaseSlot
<1>6. CASE MainStep /\ ~ ReleaseSlot /\ \A j \in Jobs, s \in Sessions : ~ PickJob(j, s)
  <2>1. overtaken' = overtaken
    BY <1>6 DEF MainStep, DaemonStarts, PollCommands, KillJob, WriteState, NextCommand,
       KillStop, ListRateLimited, ListFailed, RecoveryDone, Requeue, RequeueLimited,
       RequeueFailed, ClearBackoff, EnterStarting, OccupySession, EnterRunning,
       SpawnWorker, SpawnRefused, SpawnRaises, RegisterProcess, DispatchDone, SkipWatchdog,
       ListActive, CheckTimeout, CheckUnfinished, CheckFinished, ApplyRecovery, CheckLost,
       CheckHealthy, RetrySameSession, GiveUp, ReportLost, RecoveriesApplied, ForkSession,
       StopRequested, DaemonExits, ProcessEnds, StopOne
  <2>. QED
    BY <2>1
<1>. QED
  BY <1>1, <1>2, <1>3, <1>4, <1>5, <1>6 DEF Next

\* A completion that came late stays so, as nobody starts an attempt twice.
LEMMA LateStays ==
  ASSUME Typed, Known, [Next]_vars, NEW j \in Jobs, Late(j)
  PROVE  Late(j)'
<1>1. PICK b \in overtaken : b[1] = j /\ reader[b] = "done"
  BY DEF Late
<1>2. b \in Attempts /\ b \in overtaken'
  BY OvertakenGrows DEF Typed, TypeOK, BoundsTyped
<1>3. ~ (SpawnWorker /\ b = Latest(cur))
  BY <1>1 DEF Known, Fresh, Launch, Launching, SpawnWorker
<1>4. reader'[b] = "done"
  BY <1>1, <1>2, <1>3, QuietStays DEF Quiet
<1>. QED
  BY <1>1, <1>2, <1>4 DEF Late

\* A job that is idle stays so until its launch.
LEMMA IdleStays ==
  ASSUME Typed, [Next]_vars, NEW j \in Jobs, Idle(j), ~ (SpawnWorker /\ cur = j)
  PROVE  Idle(j)'
<1>. SUFFICES ASSUME NEW a \in Attempts, a[1] = j, reader'[a] \notin Quiet, a \notin overtaken'
              PROVE  FALSE
  BY DEF Idle, Busy
<1>1. reader[a] \in Quiet
  BY OvertakenGrows DEF Idle, Busy
<1>2. SpawnWorker /\ a = Latest(cur)
  BY <1>1, QuietStays
<1>. QED
  BY <1>2 DEF Latest

\* A Worker comes alive by its launch only, and while it lives its reader reads.
LEMMA WorkersStart ==
  ASSUME Typed, Known, [Next]_vars,
         NEW a \in Attempts, Manned(a)', ~ (SpawnWorker /\ a = Latest(cur))
  PROVE  Manned(a) /\ reader'[a] = "reading"
<1>. USE DEF Typed, TypeOK, ProcessesTyped, procVars, Manned
<1>1. Manned(a) => reader[a] = "reading"
  BY DEF Known, WorkersKnown
<1>2. CASE SpawnWorker
  BY <1>1, <1>2 DEF SpawnWorker
<1>3. CASE DaemonExits \/ Crash
  BY <1>1, <1>3 DEF DaemonExits, Crash, ProcessEnds
<1>4. ASSUME NEW b \in Attempts, ReaderStep(b)
      PROVE  Manned(a) /\ reader'[a] = "reading"
  BY <1>1, <1>4, ReadersMove DEF Quiet
<1>5. CASE Environment /\ ~ Crash
  BY <1>1, <1>5 DEF Environment, WorkerExits, CreateJob, RequestKill, BackoffExpires
<1>6. CASE UNCHANGED vars
  BY <1>1, <1>6 DEF vars
<1>7. CASE MainStep /\ ~ SpawnWorker /\ ~ DaemonExits
  <2>. QED
    BY <1>1, <1>7, MainLeavesReaders
<1>. QED
  BY <1>2, <1>3, <1>4, <1>5, <1>6, <1>7 DEF Next

\* So a job without a Worker has none until its launch.
LEMMA NoWorkerStays ==
  ASSUME Typed, Known, [Next]_vars,
         NEW j \in Jobs, NoWorker(j), ~ (SpawnWorker /\ cur = j)
  PROVE  NoWorker(j)'
<1>. SUFFICES ASSUME NEW a \in Attempts, a[1] = j, Manned(a)' PROVE FALSE
  BY DEF NoWorker
<1>1. CASE SpawnWorker /\ a = Latest(cur)
  BY <1>1 DEF Latest
<1>2. CASE ~ (SpawnWorker /\ a = Latest(cur))
  BY <1>2, WorkersStart DEF NoWorker
<1>. QED
  BY <1>1, <1>2

\* A row is changed by the main thread's write, by the CLI's insert, or by a completion
\* that was waited for or else is late then.
ReaderChanges(j) ==
  \E a \in Attempts :
    /\ a[1] = j /\ Busy(a) /\ reader[a] # "reading" /\ reader'[a] = "done"
    /\ state'[j] \in {"succeeded", "rate_limited", "failed_permanent", "failed_retryable"}
    /\ state'[j] \in {"succeeded", "rate_limited"} => CanTransition(state[j], state'[j])

LEMMA RowChanges ==
  ASSUME Typed, [Next]_vars, NEW j \in Jobs, state'[j] # state[j]
  PROVE  \/ WriteState /\ cur = j /\ state'[j] = goal
         \/ state[j] = "absent" /\ state'[j] = "queued"
         \/ ReaderChanges(j)
         \/ Late(j)'
<1>. USE DEF Typed, TypeOK, TablesTyped, ProcessesTyped, dbVars
<1>1. CASE WriteState
  BY <1>1 DEF WriteState
<1>2. ASSUME NEW a \in Attempts, ReaderStep(a) PROVE ReaderChanges(j) \/ Late(j)'
  <2>0. overtaken' = overtaken
    BY <1>2, ReadersMove DEF boundVars
  <2>1. CASE ReaderSucceeds(a)
    BY <2>0, <2>1 DEF ReaderSucceeds, Move, ReaderChanges, Quiet, Busy, Late
  <2>2. CASE ReaderRateLimited(a)
    BY <2>0, <2>2 DEF ReaderRateLimited, Move, ReaderChanges, Quiet, Busy, Late
  <2>3. CASE ReaderWrites(a)
    BY <2>0, <2>3 DEF ReaderWrites, Move, ReaderChanges, Quiet, Busy, Late
  <2>. QED
    BY <1>2, <2>1, <2>2, <2>3 DEF ReaderStep, ReaderGuard, ReaderFinish, ReaderRelease,
       ReaderCheck, ReaderFails
<1>3. CASE Environment
  BY <1>3 DEF Environment, Crash, ProcessEnds, WorkerExits, CreateJob, RequestKill,
     BackoffExpires
<1>4. CASE UNCHANGED vars
  BY <1>4 DEF vars
<1>5. CASE MainStep /\ ~ WriteState
  BY <1>5 DEF MainStep, DaemonStarts, PollCommands, KillJob, NextCommand,
     KillStop, ListRateLimited, ListFailed, RecoveryDone, Requeue, RequeueLimited,
     RequeueFailed, ClearBackoff, PickJob, EnterStarting, OccupySession, EnterRunning,
     SpawnWorker, SpawnRefused, SpawnRaises, RegisterProcess, DispatchDone, SkipWatchdog,
     ListActive, CheckTimeout, CheckUnfinished, CheckFinished, ApplyRecovery, CheckLost,
     CheckHealthy, ReleaseSlot, RetrySameSession, GiveUp, ReportLost, RecoveriesApplied,
     ForkSession, StopRequested, DaemonExits, ProcessEnds, StopOne
<1>. QED
  BY <1>1, <1>2, <1>3, <1>4, <1>5 DEF Next

\* An idle job keeps its row, unless the main thread writes it.
LEMMA IdleKeepsRow ==
  ASSUME Typed, [Next]_vars, NEW j \in Jobs, Idle(j), state[j] # "absent",
         ~ (WriteState /\ cur = j), ~ Late(j)'
  PROVE  state'[j] = state[j]
BY RowChanges DEF ReaderChanges, Idle

\* A job that waits is idle, and an idle one has no Worker.
LEMMA ParkedIsIdle ==
  ASSUME Watched, NEW j \in Jobs, state[j] \in Parked, ~ Late(j)
  PROVE  Idle(j)
BY DEF Watched, ReadersCurrent, Idle

LEMMA MannedIsBusy ==
  ASSUME Known, NEW a \in Attempts, Manned(a)
  PROVE  Busy(a)
BY DEF Known, WorkersKnown, OvertakenStarted, Busy, Quiet

LEMMA IdleHasNoWorker ==
  ASSUME Known, NEW j \in Jobs, Idle(j)
  PROVE  NoWorker(j)
BY MannedIsBusy DEF Idle, NoWorker

-----------------------------------------------------------------------------
(* Every step keeps the half that holds of every job.                       *)

\* The readers and the environment leave the main thread where it is, unless they
\* end it.
LEMMA MainMoves ==
  ASSUME Typed, [Next]_vars
  PROVE  MainStep \/ Crash \/ (mainVars' = mainVars /\ ~ WriteState /\ ~ SpawnWorker)
<1>1. MainStep \/ Crash \/ mainVars' = mainVars
  BY DEF Next, Environment, ReaderStep, ReaderGuard, ReaderFinish, ReaderRelease,
     ReaderCheck, ReaderSucceeds, ReaderRateLimited, ReaderFails, ReaderWrites, WorkerExits,
     CreateJob, RequestKill, BackoffExpires, vars
<1>2. WriteState \/ SpawnWorker => MainStep
  BY DEF MainStep
<1>. QED
  BY <1>1, <1>2

\* Only dispatch adds an attempt.
LEMMA AttemptsGrow ==
  ASSUME Typed, [Next]_vars, NEW j \in Jobs
  PROVE  \/ attempts'[j] = attempts[j]
         \/ /\ attempts'[j] = attempts[j] + 1
            /\ state[j] = "queued" /\ \E s \in Sessions : PickJob(j, s)
<1>. USE DEF Typed, TypeOK, TablesTyped, dbVars
<1>1. ASSUME NEW i \in Jobs, NEW s \in Sessions, PickJob(i, s)
      PROVE  attempts'[j] = attempts[j] \/ (i = j /\ attempts'[j] = attempts[j] + 1)
  BY <1>1 DEF PickJob
<1>2. CASE \E a \in Attempts : ReaderStep(a)
  BY <1>2, ReadersMove
<1>3. CASE Environment
  BY <1>3 DEF Environment, Crash, ProcessEnds, WorkerExits, CreateJob, RequestKill,
     BackoffExpires
<1>4. CASE UNCHANGED vars
  BY <1>4 DEF vars
<1>5. CASE MainStep /\ \A i \in Jobs, s \in Sessions : ~ PickJob(i, s)
  BY <1>5 DEF MainStep, DaemonStarts, PollCommands, KillJob, WriteState, NextCommand,
     KillStop, ListRateLimited, ListFailed, RecoveryDone, Requeue, RequeueLimited,
     RequeueFailed, ClearBackoff, EnterStarting, OccupySession, EnterRunning,
     SpawnWorker, SpawnRefused, SpawnRaises, RegisterProcess, DispatchDone, SkipWatchdog,
     ListActive, CheckTimeout, CheckUnfinished, CheckFinished, ApplyRecovery, CheckLost,
     CheckHealthy, ReleaseSlot, RetrySameSession, GiveUp, ReportLost, RecoveriesApplied,
     ForkSession, StopRequested, DaemonExits, ProcessEnds, StopOne
<1>6. ASSUME NEW i \in Jobs, NEW s \in Sessions, PickJob(i, s)
      PROVE  state[i] = "queued"
  BY <1>6 DEF PickJob, Runnable
<1>. QED
  BY <1>1, <1>2, <1>3, <1>4, <1>5, <1>6 DEF Next

\* A launch begins with the attempt's row, and goes on from place to place.
LEMMA LaunchSteps ==
  ASSUME Typed, Known, [Next]_vars, Launch'
  PROVE  \/ pc' = "enter_starting" /\ \E j \in Jobs, s \in Sessions : PickJob(j, s)
         \/ /\ cur' = cur /\ Launch /\ ~ SpawnWorker /\ attempts' = attempts
            /\ pc' = "spawn" => pc = "spawn" \/ (WriteState /\ next = "spawn")
            /\ pc' = "write" /\ next' = "spawn" =>
                 goal' = "running" \/ (pc = "write" /\ next = "spawn" /\ goal' = goal)
<1>. USE DEF Launch, Launching
<1>1. CASE MainStep /\ \A j \in Jobs, s \in Sessions : ~ PickJob(j, s)
  <2>1. attempts' = attempts
    BY <1>1 DEF MainStep, DaemonStarts, PollCommands, KillJob, WriteState, NextCommand,
       KillStop, ListRateLimited, ListFailed, RecoveryDone, Requeue, RequeueLimited,
       RequeueFailed, ClearBackoff, EnterStarting, OccupySession, EnterRunning,
       SpawnWorker, SpawnRefused, SpawnRaises, RegisterProcess, DispatchDone, SkipWatchdog,
       ListActive, CheckTimeout, CheckUnfinished, CheckFinished, ApplyRecovery, CheckLost,
       CheckHealthy, ReleaseSlot, RetrySameSession, GiveUp, ReportLost, RecoveriesApplied,
       ForkSession, StopRequested, DaemonExits, ProcessEnds, StopOne, dbVars
  <2>. QED
    BY <1>1, <2>1 DEF MainStep, DaemonStarts, PollCommands, KillJob, WriteState, NextCommand,
       KillStop, ListRateLimited, ListFailed, RecoveryDone, Requeue, RequeueLimited,
       RequeueFailed, RequeueJob, TryTransition, Goto, ClearBackoff, EnterStarting,
       OccupySession, EnterRunning, SpawnWorker, SpawnRefused, SpawnRaises, RegisterProcess,
       DispatchDone, SkipWatchdog, ListActive, CheckTimeout, CheckUnfinished, CheckFinished,
       ApplyRecovery, CheckLost, CheckHealthy, ReleaseSlot, RetrySameSession, GiveUp,
       ReportLost, RecoveriesApplied, ForkSession, StopRequested, DaemonExits, ProcessEnds,
       StopOne, mainVars, LoopHeads, Typed, WriteReady, Known, WritesReturn, ReturnPlaces
<1>2. ASSUME NEW j \in Jobs, NEW s \in Sessions, PickJob(j, s) PROVE pc' = "enter_starting"
  BY <1>2 DEF PickJob
<1>3. CASE Crash
  BY <1>3 DEF Crash, ProcessEnds, Goto
<1>4. ASSUME mainVars' = mainVars, attempts' = attempts, ~ SpawnWorker
      PROVE  /\ cur' = cur /\ Launch /\ attempts' = attempts
             /\ pc' = "spawn" => pc = "spawn"
             /\ pc' = "write" /\ next' = "spawn" => pc = "write" /\ next = "spawn" /\ goal' = goal
  BY <1>4 DEF mainVars
<1>5. ASSUME NEW a \in Attempts, ReaderStep(a)
      PROVE  mainVars' = mainVars /\ attempts' = attempts
  BY <1>5, ReadersMove
<1>6. ASSUME Environment, ~ Crash PROVE mainVars' = mainVars /\ attempts' = attempts
  BY <1>6 DEF Environment, WorkerExits, CreateJob, RequestKill, BackoffExpires, dbVars
<1>7. ASSUME UNCHANGED vars PROVE mainVars' = mainVars /\ attempts' = attempts
  BY <1>7 DEF vars, dbVars
<1>8. mainVars' = mainVars => ~ SpawnWorker
  BY DEF mainVars, SpawnWorker, Goto
<1>. QED
  BY <1>1, <1>2, <1>3, <1>4, <1>5, <1>6, <1>7, <1>8 DEF Next

LEMMA FreshStep ==
  ASSUME Typed, Known, [Next]_vars PROVE Fresh'
<1>1. ASSUME NEW a \in Attempts, a[2] > attempts'[a[1]] PROVE reader'[a] = "none"
  <2>1. a[1] \in Jobs /\ a[2] \in Nat /\ attempts[a[1]] \in Nat
    BY AttemptFacts, ConstantsAssumption DEF Typed, TypeOK, TablesTyped
  <2>2. a[2] > attempts[a[1]]
    BY <1>1, <2>1, AttemptsGrow
  <2>3. reader[a] = "none"
    BY <2>2 DEF Known, Fresh
  <2>4. ~ (SpawnWorker /\ a = Latest(cur))
    <3>. SUFFICES ASSUME a = Latest(cur) PROVE FALSE
      OBVIOUS
    <3>. QED
      BY <2>1, <2>2 DEF Latest
  <2>. QED
    BY <2>3, <2>4, QuietStays DEF Quiet
<1>2. Launch' => reader'[Latest(cur)'] = "none"
  <2>. SUFFICES ASSUME Launch' PROVE reader'[Latest(cur)'] = "none"
    OBVIOUS
  <2>1. ASSUME NEW j \in Jobs, NEW s \in Sessions, PickJob(j, s)
        PROVE  reader'[Latest(cur)'] = "none"
    <3>1. attempts[j] \in Nat /\ attempts[j] < MaxAttempts /\ MaxAttempts \in Nat
      BY <2>1, ConstantsAssumption DEF PickJob, Runnable, Typed, TypeOK, TablesTyped
    <3>2. <<j, attempts[j] + 1>> \in Attempts
      BY <3>1 DEF Attempts
    <3>3. reader[<<j, attempts[j] + 1>>] = "none"
      BY <3>1, <3>2 DEF Known, Fresh
    <3>4. Latest(cur)' = <<j, attempts[j] + 1>> /\ reader' = reader
      BY <2>1 DEF PickJob, Latest, procVars, Typed, TypeOK, TablesTyped
    <3>. QED
      BY <3>3, <3>4
  <2>2. CASE cur' = cur /\ Launch /\ ~ SpawnWorker /\ attempts' = attempts
    <3>1. cur \in Jobs /\ attempts[cur] > 0
      BY <2>2 DEF Typed, JobInHand, WriteReady, Launch, Launching, AttemptPlaces, LoopHeads
    <3>2. Latest(cur) \in Attempts /\ reader[Latest(cur)] = "none"
      BY <2>2, <3>1, LatestAttempt DEF Known, Fresh, Typed
    <3>3. Latest(cur)' = Latest(cur)
      BY <2>2 DEF Latest
    <3>. QED
      BY <2>2, <3>2, <3>3, QuietStays DEF Quiet
  <2>. QED
    BY <2>1, <2>2, LaunchSteps
<1>. QED
  BY <1>1, <1>2 DEF Fresh

\* The main thread registers, and the readers take out again.
LEMMA Registers ==
  ASSUME [Next]_vars PROVE RegisterProcess \/ registered' \subseteq registered
<1>1. ASSUME NEW a \in Attempts, ReaderStep(a) PROVE registered' \subseteq registered
  BY <1>1 DEF ReaderStep, ReaderGuard, ReaderFinish, ReaderRelease, ReaderCheck,
     ReaderSucceeds, ReaderRateLimited, ReaderFails, ReaderWrites
<1>2. CASE Environment
  BY <1>2 DEF Environment, Crash, ProcessEnds, WorkerExits, CreateJob, RequestKill,
     BackoffExpires, procVars
<1>3. CASE UNCHANGED vars
  BY <1>3 DEF vars, procVars
<1>4. CASE MainStep /\ ~ RegisterProcess
  BY <1>4 DEF MainStep, DaemonStarts, PollCommands, KillJob, WriteState, NextCommand,
     KillStop, ListRateLimited, ListFailed, RecoveryDone, Requeue, RequeueLimited,
     RequeueFailed, ClearBackoff, PickJob, EnterStarting, OccupySession, EnterRunning,
     SpawnWorker, SpawnRefused, SpawnRaises, DispatchDone, SkipWatchdog,
     ListActive, CheckTimeout, CheckUnfinished, CheckFinished, ApplyRecovery, CheckLost,
     CheckHealthy, ReleaseSlot, RetrySameSession, GiveUp, ReportLost, RecoveriesApplied,
     ForkSession, StopRequested, DaemonExits, ProcessEnds, StopOne, procVars
<1>. QED
  BY <1>1, <1>2, <1>3, <1>4 DEF Next

LEMMA RegisteredExistStep ==
  ASSUME Typed, Known, [Next]_vars PROVE RegisteredExist'
<1>. SUFFICES ASSUME NEW a \in registered' PROVE a[2] <= attempts'[a[1]]
  BY DEF RegisteredExist
<1>2. CASE a \in registered
  <2>1. a \in Attempts /\ a[2] <= attempts[a[1]]
    BY <1>2 DEF Typed, TypeOK, ProcessesTyped, Known, RegisteredExist
  <2>2. a[1] \in Jobs /\ a[2] \in Nat
    BY <2>1, AttemptFacts
  <2>3. attempts[a[1]] \in Nat
    BY <2>2, ConstantsAssumption DEF Typed, TypeOK, TablesTyped
  <2>. QED
    BY <2>1, <2>2, <2>3, AttemptsGrow
<1>3. CASE RegisterProcess /\ a = Latest(cur)
  <2>1. cur \in Jobs
    BY <1>3 DEF RegisterProcess, Typed, JobInHand, LoopHeads
  <2>2. a[1] = cur /\ a[2] = attempts[cur] /\ attempts[cur] \in Nat
    BY <1>3, <2>1, ConstantsAssumption DEF Latest, Typed, TypeOK, TablesTyped
  <2>. QED
    BY <1>3, <2>1, <2>2 DEF RegisterProcess, dbVars
<1>. QED
  BY <1>2, <1>3, Registers DEF RegisterProcess

LEMMA OvertakenStartedStep ==
  ASSUME Typed, Known, [Next]_vars PROVE OvertakenStarted'
<1>. SUFFICES ASSUME NEW a \in overtaken'
              PROVE  reader'[a] # "none" /\ ~ (worker'[a] = "alive" /\ reader'[a] # "done")
  BY DEF OvertakenStarted, Manned
<1>1. a \in Attempts
  <2>1. BoundsTyped'
    BY BoundsStep
  <2>. QED
    BY <2>1 DEF BoundsTyped, Attempts
<1>2. CASE a \in overtaken
  <2>1. reader[a] # "none" /\ ~ Manned(a)
    BY <1>2 DEF Known, OvertakenStarted
  <2>2. ~ (SpawnWorker /\ a = Latest(cur))
    BY <2>1 DEF Known, Fresh, Launch, Launching, SpawnWorker
  <2>3. ~ Manned(a)'
    BY <1>1, <2>1, <2>2, WorkersStart
  <2>4. reader'[a] # "none"
    <3>1. CASE reader[a] = "done"
      BY <1>1, <2>2, <3>1, QuietStays DEF Quiet
    <3>2. CASE reader[a] \notin Quiet
      BY <1>1, <3>2, NotForgotten DEF Quiet
    <3>. QED
      BY <2>1, <3>1, <3>2 DEF Quiet
  <2>. QED
    BY <2>3, <2>4 DEF Manned
<1>3. CASE a \notin overtaken
  <2>1. /\ reader[a] \notin Quiet /\ reader'[a] = reader[a] /\ worker'[a] = worker[a]
        /\ reader[a] \in PastGuard \/ (pc = "join" /\ a = Latest(cur))
    BY <1>3, OvertakenGrows
  <2>2. ~ Manned(a)
    BY <1>1, <2>1 DEF Known, JoinsEnded, WorkersKnown, PastGuard
  <2>. QED
    BY <2>1, <2>2 DEF Manned, Quiet
<1>. QED
  BY <1>2, <1>3

LEMMA JoinsEndedStep ==
  ASSUME Typed, Known, [Next]_vars PROVE JoinsEnded'
<1>. SUFFICES ASSUME pc' = "join" PROVE ~ Manned(Latest(cur))'
  BY DEF JoinsEnded
<1>1. ASSUME NEW j \in Jobs, ApplyRecovery(j) PROVE ~ Manned(Latest(cur))'
  <2>1. attempts[j] > 0 /\ Latest(j) \in Attempts
    BY <1>1, LatestAttempt DEF ApplyRecovery, Typed, PlansReady
  <2>2. Latest(cur)' = Latest(j) /\ reader' = reader
    BY <1>1 DEF ApplyRecovery, Latest, dbVars
  <2>3. Manned(Latest(j)) => Latest(j) \in registered
    BY <1>1, <2>1 DEF ApplyRecovery, Known, WorkersKnown
  <2>4. worker'[Latest(j)] # "alive" \/ ~ Manned(Latest(j))
    BY <1>1, <2>1, <2>3 DEF ApplyRecovery, StopWorker, Typed, TypeOK, ProcessesTyped
  <2>5. worker'[Latest(j)] = "alive" => worker[Latest(j)] = "alive"
    BY <1>1, <2>1 DEF ApplyRecovery, StopWorker, Typed, TypeOK, ProcessesTyped
  <2>. QED
    BY <2>2, <2>4, <2>5 DEF Manned
<1>2. ASSUME mainVars' = mainVars PROVE ~ Manned(Latest(cur))'
  <2>1. pc = "join" /\ cur' = cur /\ cur \in Jobs /\ attempts[cur] > 0
    BY <1>2 DEF mainVars, Typed, JobInHand, AttemptPlaces, LoopHeads
  <2>2. attempts'[cur] = attempts[cur]
    BY <2>1, AttemptsGrow DEF PickJob
  <2>3. Latest(cur)' = Latest(cur) /\ Latest(cur) \in Attempts
    BY <2>1, <2>2, LatestAttempt DEF Latest, Typed
  <2>4. ~ Manned(Latest(cur)) /\ ~ SpawnWorker
    BY <2>1 DEF Known, JoinsEnded, SpawnWorker
  <2>5. ASSUME NEW a \in Attempts, ~ Manned(a), a = Latest(cur)
        PROVE  ~ (worker'[a] = "alive" /\ reader'[a] # "done")
    BY <2>4, <2>5, WorkersStart DEF Manned
  <2>. QED
    BY <2>3, <2>4, <2>5 DEF Manned
<1>3. CASE MainStep /\ \A j \in Jobs : ~ ApplyRecovery(j)
  <2>1. mainVars' = mainVars
    BY <1>3 DEF MainStep, DaemonStarts, PollCommands, KillJob, WriteState, NextCommand,
       KillStop, ListRateLimited, ListFailed, RecoveryDone, Requeue, RequeueLimited,
       RequeueFailed, RequeueJob, TryTransition, Goto, ClearBackoff, PickJob, EnterStarting,
       OccupySession, EnterRunning, SpawnWorker, SpawnRefused, SpawnRaises, RegisterProcess,
       DispatchDone, SkipWatchdog, ListActive, CheckTimeout, CheckUnfinished, CheckFinished,
       CheckLost, CheckHealthy, ReleaseSlot, RetrySameSession, GiveUp,
       ReportLost, RecoveriesApplied, ForkSession, StopRequested, DaemonExits, ProcessEnds,
       StopOne, Known, WritesReturn, ReturnPlaces
  <2>. QED
    BY <1>2, <2>1
<1>4. CASE Crash
  BY <1>4 DEF Crash, ProcessEnds, Goto
<1>. QED
  BY <1>1, <1>2, <1>3, <1>4, MainMoves

LEMMA WorkersKnownStep ==
  ASSUME Typed, Known, [Next]_vars PROVE WorkersKnown'
<1>. SUFFICES ASSUME NEW a \in Attempts, Manned(a)'
              PROVE  /\ reader'[a] = "reading"
                     /\ a \in registered' \/ (pc' = "register" /\ a = Latest(cur)')
  BY DEF WorkersKnown
<1>. DEFINE Goal == a \in registered' \/ (pc' = "register" /\ a = Latest(cur)')
<1>0. CASE SpawnWorker /\ a = Latest(cur)
  BY <1>0 DEF SpawnWorker, Goto, LoopHeads, Latest, dbVars, Typed, TypeOK, ProcessesTyped
<1>. SUFFICES ASSUME ~ (SpawnWorker /\ a = Latest(cur)) PROVE reader'[a] = "reading" /\ Goal
  BY <1>0
<1>1. Manned(a) /\ reader'[a] = "reading" /\ reader[a] = "reading"
  BY WorkersStart DEF Known, WorkersKnown
<1>. SUFFICES Goal
  BY <1>1
<1>2. a \in registered \/ (pc = "register" /\ a = Latest(cur))
  BY <1>1 DEF Known, WorkersKnown
<1>3. ASSUME mainVars' = mainVars, a \in registered => a \in registered' PROVE Goal
  <2>. SUFFICES ASSUME pc = "register", a = Latest(cur) PROVE Goal
    BY <1>2, <1>3
  <2>1. cur \in Jobs
    BY DEF Typed, JobInHand, LoopHeads
  <2>2. attempts'[cur] = attempts[cur]
    BY <2>1, AttemptsGrow DEF PickJob
  <2>. QED
    BY <1>3, <2>2 DEF mainVars, Latest
<1>4. ASSUME NEW b \in Attempts, ReaderStep(b)
      PROVE  mainVars' = mainVars /\ (a \in registered => a \in registered')
  <2>1. CASE ReaderGuard(b)
    BY <1>1, <2>1 DEF ReaderGuard, Manned
  <2>2. CASE ReaderRelease(b)
    BY <1>1, <2>2 DEF ReaderRelease, Move
  <2>. QED
    BY <1>4, <2>1, <2>2 DEF ReaderStep, ReaderFinish, ReaderCheck, ReaderSucceeds,
       ReaderRateLimited, ReaderFails, ReaderWrites
<1>5. CASE Environment
  BY <1>1, <1>3, <1>5 DEF Environment, Crash, ProcessEnds, Manned, WorkerExits, CreateJob,
     RequestKill, BackoffExpires, procVars
<1>6. CASE UNCHANGED vars
  BY <1>3, <1>6 DEF vars, procVars
<1>7. CASE RegisterProcess
  BY <1>2, <1>7 DEF RegisterProcess
<1>8. CASE DaemonExits
  BY <1>1, <1>8, ExitLeavesNone
<1>9. ASSUME NEW b \in Attempts, StopOne(b) PROVE Goal
  BY <1>3, <1>9 DEF StopOne
<1>10. CASE /\ MainStep /\ ~ RegisterProcess /\ ~ DaemonExits
            /\ \A b \in Attempts : ~ StopOne(b)
  <2>1. pc # "register" /\ registered' = registered
    BY <1>10 DEF MainStep, DaemonStarts, PollCommands, KillJob, WriteState, NextCommand,
       KillStop, ListRateLimited, ListFailed, RecoveryDone, Requeue, RequeueLimited,
       RequeueFailed, ClearBackoff, PickJob, EnterStarting, OccupySession, EnterRunning,
       SpawnWorker, SpawnRefused, SpawnRaises, DispatchDone, SkipWatchdog,
       ListActive, CheckTimeout, CheckUnfinished, CheckFinished, ApplyRecovery, CheckLost,
       CheckHealthy, ReleaseSlot, RetrySameSession, GiveUp, ReportLost, RecoveriesApplied,
       ForkSession, StopRequested, procVars
  <2>. QED
    BY <1>2, <2>1
<1>. QED
  BY <1>3, <1>4, <1>5, <1>6, <1>7, <1>8, <1>9, <1>10 DEF Next

\* A daemon that ends by itself leaves none of its Workers alive, and a reader
\* gives up only a Worker that has ended: an orphan means a daemon was killed.
LEMMA OrphansCountedStep ==
  ASSUME Typed, Known, [Next]_vars PROVE OrphansCounted'
<1>. SUFFICES ASSUME NEW a \in Attempts, worker'[a] = "alive", reader'[a] = "done"
              PROVE  stops' > 0
  BY DEF OrphansCounted, Manned
<1>. USE DEF Typed, TypeOK, ProcessesTyped, procVars
<1>0. stops \in Nat
  BY ConstantsAssumption DEF BoundsTyped
<1>1. worker[a] = "alive" /\ reader[a] = "done" => stops > 0
  BY DEF Known, OrphansCounted, Manned
<1>2. worker[a] = "alive" /\ reader[a] # "done" => reader[a] = "reading"
  BY DEF Known, WorkersKnown, Manned
<1>3. CASE Crash
  BY <1>0, <1>3 DEF Crash
<1>4. CASE DaemonExits
  BY <1>1, <1>4, ExitLeavesNone DEF DaemonExits, ProcessEnds, Manned, boundVars
<1>5. ASSUME NEW b \in Attempts, ReaderStep(b) PROVE stops' > 0
  <2>1. worker[a] = "alive" /\ reader[a] = "done"
    BY <1>2, <1>5, ReadersMove
  <2>2. stops' = stops
    BY <1>5, ReadersMove DEF boundVars
  <2>. QED
    BY <1>1, <2>1, <2>2
<1>6. CASE Environment /\ ~ Crash
  BY <1>1, <1>6 DEF Environment, WorkerExits, CreateJob, RequestKill, BackoffExpires, boundVars
<1>7. CASE UNCHANGED vars
  BY <1>1, <1>7 DEF vars, boundVars
<1>8. CASE SpawnWorker
  BY <1>1, <1>8 DEF SpawnWorker, boundVars
<1>9. CASE MainStep /\ ~ SpawnWorker /\ ~ DaemonExits
  <2>1. worker[a] = "alive" /\ reader[a] = "done"
    BY <1>9, MainLeavesReaders
  <2>2. stops' = stops \/ stops' = stops + 1
    BY <1>9 DEF MainStep, DaemonStarts, PollCommands, KillJob, WriteState, NextCommand,
       KillStop, ListRateLimited, ListFailed, RecoveryDone, Requeue, RequeueLimited,
       RequeueFailed, ClearBackoff, PickJob, EnterStarting, OccupySession, EnterRunning,
       SpawnRefused, SpawnRaises, RegisterProcess, DispatchDone, SkipWatchdog, ListActive,
       CheckTimeout, CheckUnfinished, CheckFinished, ApplyRecovery, CheckLost, CheckHealthy,
       ReleaseSlot, RetrySameSession, GiveUp, ReportLost, RecoveriesApplied, ForkSession,
       StopRequested, StopOne, boundVars
  <2>. QED
    BY <1>0, <1>1, <2>1, <2>2
<1>. QED
  BY <1>3, <1>4, <1>5, <1>6, <1>7, <1>8, <1>9 DEF Next

LEMMA WritesReturnStep ==
  ASSUME Typed, Known, [Next]_vars PROVE WritesReturn'
<1>. USE DEF WritesReturn
<1>1. CASE mainVars' = mainVars
  BY <1>1 DEF mainVars, Known
<1>2. ASSUME NEW j \in Jobs, CheckTimeout(j) PROVE WritesReturn'
  <2>1. plan'[j] # None
    BY <1>2, NoneIsNoAction DEF CheckTimeout, Typed, TypeOK, MainTyped, RecoveryActions
  <2>. QED
    BY <1>2, <2>1 DEF CheckTimeout, TryTransition, ReturnPlaces
<1>3. CASE Requeue
  BY <1>3 DEF Requeue, ReturnPlaces, Typed, WriteReady
<1>4. CASE MainStep /\ ~ Requeue /\ \A j \in Jobs : ~ CheckTimeout(j)
  <2>1. mainVars' # mainVars /\ pc' = "write" => next' \in ReturnPlaces /\ goal' # "timed_out"
    BY <1>4 DEF MainStep, DaemonStarts, PollCommands, KillJob, WriteState, NextCommand,
       KillStop, ListRateLimited, ListFailed, RecoveryDone, RequeueLimited,
       RequeueFailed, RequeueJob, TryTransition, Goto, ClearBackoff, PickJob, EnterStarting,
       OccupySession, EnterRunning, SpawnWorker, SpawnRefused, SpawnRaises, RegisterProcess,
       DispatchDone, SkipWatchdog, ListActive, CheckUnfinished, CheckFinished,
       ApplyRecovery, CheckLost, CheckHealthy, ReleaseSlot, RetrySameSession, GiveUp,
       ReportLost, RecoveriesApplied, ForkSession, StopRequested, DaemonExits, ProcessEnds,
       StopOne, ReturnPlaces, Known
  <2>. QED
    BY <1>1, <2>1
<1>5. CASE Crash
  BY <1>5 DEF Crash, ProcessEnds, Goto
<1>. QED
  BY <1>1, <1>2, <1>3, <1>4, <1>5, MainMoves

LEMMA ListsApartStep ==
  ASSUME Typed, Known, [Next]_vars PROVE ListsApart'
<1>. USE DEF ListsApart, Requeueing
<1>0. todo \subseteq Jobs /\ None \notin Jobs
  BY ConstantsAssumption DEF Typed, TypeOK, MainTyped
<1>1. CASE mainVars' = mainVars
  BY <1>1 DEF mainVars, Known
<1>2. CASE ListRateLimited \/ ListFailed
  BY <1>0, <1>2 DEF ListRateLimited, ListFailed, Goto, LoopHeads
<1>3. ASSUME NEW j \in Jobs, RequeueLimited(j) \/ RequeueFailed(j) PROVE ListsApart'
  BY <1>0, <1>3 DEF RequeueLimited, RequeueFailed, RequeueJob, TryTransition, Known
<1>4. ASSUME NEW r \in Repos, ClearBackoff(r) PROVE ListsApart'
  BY <1>0, <1>4 DEF ClearBackoff
<1>5. CASE Requeue \/ WriteState
  BY <1>0, <1>5 DEF Requeue, WriteState, Goto, LoopHeads, Known, Typed, WriteReady
<1>6. CASE /\ MainStep
           /\ ~ ListRateLimited /\ ~ ListFailed /\ ~ Requeue /\ ~ WriteState
           /\ \A j \in Jobs : ~ RequeueLimited(j) /\ ~ RequeueFailed(j)
           /\ \A r \in Repos : ~ ClearBackoff(r)
  <2>1. \/ mainVars' = mainVars
        \/ /\ pc' \notin {"requeue", "requeue_limited", "requeue_failed"}
           /\ pc' = "write" => next' \notin {"requeue_limited", "requeue_failed"}
    BY <1>6 DEF MainStep, DaemonStarts, PollCommands, KillJob, NextCommand, Goto,
       KillStop, RecoveryDone, TryTransition, PickJob, EnterStarting, OccupySession,
       EnterRunning, SpawnWorker, SpawnRefused,
       SpawnRaises, RegisterProcess, DispatchDone, SkipWatchdog, ListActive, CheckTimeout,
       CheckUnfinished, CheckFinished, ApplyRecovery, CheckLost, CheckHealthy, ReleaseSlot,
       RetrySameSession, GiveUp, ReportLost, RecoveriesApplied, ForkSession, StopRequested,
       DaemonExits, ProcessEnds, StopOne
  <2>. QED
    BY <1>1, <2>1
<1>7. CASE Crash
  BY <1>7 DEF Crash, ProcessEnds, Goto
<1>. QED
  BY <1>1, <1>2, <1>3, <1>4, <1>5, <1>6, <1>7, MainMoves

LEMMA KnownInvariant == Spec => []Known
<1>1. Init => Known
  BY ConstantsAssumption DEF Init, Known, Fresh, Launch, Launching, RegisteredExist,
     OvertakenStarted, JoinsEnded, WorkersKnown, Manned, OrphansCounted, WritesReturn,
     ListsApart, Requeueing
<1>2. Typed /\ Known /\ [Next]_vars => Known'
  BY FreshStep, RegisteredExistStep, OvertakenStartedStep, JoinsEndedStep, WorkersKnownStep,
     OrphansCountedStep, WritesReturnStep, ListsApartStep DEF Known
<1>. QED
  BY <1>1, <1>2, TypedInvariant, PTL DEF Spec

-----------------------------------------------------------------------------
(* ... and the half that holds until a completion comes late.               *)

LEMMA NotLateBefore ==
  ASSUME Typed, Known, [Next]_vars, NEW j \in Jobs, ~ Late(j)'
  PROVE  ~ Late(j)
BY LateStays

LEMMA ReadersCurrentStep ==
  ASSUME Typed, Watched, [Next]_vars PROVE ReadersCurrent'
<1>. SUFFICES ASSUME NEW a \in Attempts, reader'[a] \notin Quiet, a \notin overtaken',
                     ~ Late(a[1])'
              PROVE  a[2] = attempts'[a[1]] /\ state'[a[1]] \notin Parked
  BY DEF ReadersCurrent, Busy
<1>0. a[1] \in Jobs /\ Known /\ ~ Late(a[1])
  BY AttemptFacts, NotLateBefore DEF Watched
<1>1. CASE SpawnWorker /\ a = Latest(cur)
  <2>1. a[1] = cur /\ a[2] = attempts[cur]
    BY <1>1 DEF Latest
  <2>2. state[cur] = "running"
    BY <1>0, <1>1, <2>1 DEF Watched, InHandSettled, LaunchesIdle, SpawnWorker
  <2>. QED
    BY <1>1, <2>1, <2>2 DEF SpawnWorker, dbVars, Parked
<1>2. CASE ~ (SpawnWorker /\ a = Latest(cur))
  <2>1. Busy(a)
    BY <1>2, QuietStays, OvertakenGrows DEF Busy
  <2>2. a[2] = attempts[a[1]] /\ state[a[1]] \notin Parked
    BY <1>0, <2>1 DEF Watched, ReadersCurrent
  <2>3. attempts'[a[1]] = attempts[a[1]]
    BY <1>0, <2>2, AttemptsGrow DEF Parked
  <2>4. state'[a[1]] \notin Parked
    <3>1. CASE WriteState /\ cur = a[1] /\ state'[a[1]] = goal
      <4>1. WritesSettled(a[1]) /\ ~ Idle(a[1])
        BY <1>0, <2>1, <3>1 DEF Watched, InHandSettled, Idle
      <4>. QED
        BY <3>1, <4>1 DEF WritesSettled, WriteState
    <3>2. ASSUME ReaderChanges(a[1]) PROVE FALSE
      <4>1. PICK b \in Attempts : b[1] = a[1] /\ Busy(b) /\ reader'[b] = "done"
        BY <3>2 DEF ReaderChanges
      <4>2. b[2] = attempts[b[1]]
        BY <1>0, <4>1 DEF Watched, ReadersCurrent
      <4>3. b = a
        BY <2>2, <4>1, <4>2, SameAttempt
      <4>. QED
        BY <4>1, <4>3 DEF Quiet
    <3>. QED
      BY <1>0, <2>2, <3>1, <3>2, RowChanges DEF Parked
  <2>. QED
    BY <2>2, <2>3, <2>4
<1>. QED
  BY <1>1, <1>2

LEMMA LaunchesIdleStep ==
  ASSUME Typed, Watched, [Next]_vars, NEW j \in Jobs, cur' = j, ~ Late(j)'
  PROVE  LaunchesIdle(j)'
<1>0. Known /\ ~ Late(j)
  BY NotLateBefore DEF Watched
<1>1. ASSUME Launch' PROVE Idle(j)'
  <2>1. ASSUME NEW i \in Jobs, NEW s \in Sessions, PickJob(i, s) PROVE Idle(j)'
    <3>1. i = j /\ state[j] = "queued" /\ ~ SpawnWorker
      BY <2>1 DEF PickJob, Runnable, SpawnWorker
    <3>. QED
      BY <1>0, <3>1, ParkedIsIdle, IdleStays DEF Parked
  <2>2. CASE cur' = cur /\ Launch /\ ~ SpawnWorker
    BY <1>0, <2>2, IdleStays DEF Watched, InHandSettled, LaunchesIdle
  <2>. QED
    BY <1>0, <1>1, <2>1, <2>2, LaunchSteps
<1>2. ASSUME pc' = "spawn" PROVE state'[j] = "running"
  <2>0. Launch'
    BY <1>2 DEF Launch, Launching
  <2>1. cur = j /\ Launch /\ ~ SpawnWorker /\ (pc = "spawn" \/ (WriteState /\ next = "spawn"))
    BY <1>0, <1>2, <2>0, LaunchSteps
  <2>2. LaunchesIdle(j)
    BY <1>0, <2>1 DEF Watched, InHandSettled
  <2>3. CASE pc = "spawn"
    BY <2>1, <2>2, <2>3, IdleKeepsRow DEF LaunchesIdle, WriteState
  <2>4. CASE WriteState /\ next = "spawn"
    BY <2>1, <2>2, <2>4 DEF LaunchesIdle, WriteState, Typed, TypeOK, TablesTyped
  <2>. QED
    BY <2>1, <2>3, <2>4
<1>3. ASSUME pc' = "write", next' = "spawn" PROVE goal' = "running"
  <2>0. Launch'
    BY <1>3 DEF Launch, Launching
  <2>. QED
    BY <1>0, <1>3, <2>0, LaunchSteps DEF Watched, InHandSettled, LaunchesIdle
<1>. QED
  BY <1>1, <1>2, <1>3 DEF LaunchesIdle

\* What the main thread has in hand stays as it is under its other threads' steps.
LEMMA HandsOff ==
  ASSUME Typed, Watched, [Next]_vars, NEW j \in Jobs, cur' = j, ~ Late(j)',
         mainVars' = mainVars, ~ WriteState, ~ SpawnWorker
  PROVE  WritesSettled(j)' /\ ActsSettled(j)'
<1>1. pc' = pc /\ cur = j /\ next' = next /\ goal' = goal /\ Known /\ ~ Late(j)
  BY NotLateBefore DEF mainVars, Watched
<1>2. WritesSettled(j) /\ ActsSettled(j)
  BY <1>1 DEF Watched, InHandSettled
<1>3. (Idle(j) => Idle(j)') /\ (NoWorker(j) => NoWorker(j)')
  BY <1>1, IdleStays, NoWorkerStays
<1>4. NeedsCleanup(j)' => NeedsCleanup(j)
  BY RowChanges DEF ReaderChanges, NeedsCleanup, ActiveStates
<1>. QED
  BY <1>1, <1>2, <1>3, <1>4 DEF WritesSettled, ActsSettled

LEMMA WritesSettledStep ==
  ASSUME Typed, Watched, [Next]_vars, NEW j \in Jobs, cur' = j, ~ Late(j)'
  PROVE  WritesSettled(j)'
<1>. USE DEF WritesSettled
<1>0. Known /\ ~ Late(j)
  BY NotLateBefore DEF Watched
<1>1. /\ Idle(j) => NoWorker(j)
      /\ state[j] \in Parked => Idle(j)
  BY <1>0, ParkedIsIdle, IdleHasNoWorker
<1>2. ASSUME ~ SpawnWorker PROVE (Idle(j) => Idle(j)') /\ (NoWorker(j) => NoWorker(j)')
  BY <1>0, <1>2, IdleStays, NoWorkerStays
<1>3. cur = j => LaunchesIdle(j) /\ WritesSettled(j) /\ ActsSettled(j)
  BY <1>0 DEF Watched, InHandSettled
<1>4. CASE KillJob \/ GiveUp
  <2>1. cur = j /\ pc' = "write" => NoWorker(j) /\ goal' = "failed_permanent" /\ ~ SpawnWorker
    BY <1>3, <1>4 DEF KillJob, GiveUp, ActsSettled, TryTransition, SpawnWorker, LoopHeads
  <2>2. pc' = "write" => cur = j
    BY <1>4 DEF KillJob, GiveUp, TryTransition
  <2>. QED
    BY <1>2, <2>1, <2>2 DEF Parked
<1>5. ASSUME NEW i \in Jobs, RequeueLimited(i) \/ RequeueFailed(i) PROVE WritesSettled(j)'
  <2>. SUFFICES ASSUME pc' = "write" PROVE WritesSettled(j)'
    OBVIOUS
  <2>1. i = j /\ ~ SpawnWorker /\ state[j] \in Parked
    BY <1>0, <1>5 DEF RequeueLimited, RequeueFailed, RequeueJob, TryTransition, Watched,
       RequeuesParked, Requeueing, Parked, SpawnWorker
  <2>. QED
    BY <1>1, <1>2, <2>1
<1>6. CASE Requeue
  <2>. SUFFICES ASSUME pc' = "write" PROVE WritesSettled(j)'
    OBVIOUS
  <2>1. cur = j /\ ~ SpawnWorker /\ state[j] \in Parked
    BY <1>0, <1>6 DEF Requeue, Watched, RequeuesParked, Parked, SpawnWorker
  <2>. QED
    BY <1>1, <1>2, <2>1
<1>7. CASE EnterStarting \/ EnterRunning \/ SpawnRefused
  <2>. SUFFICES ASSUME pc' = "write" PROVE WritesSettled(j)'
    OBVIOUS
  <2>1. cur = j /\ ~ SpawnWorker /\ Launch
    BY <1>7 DEF EnterStarting, EnterRunning, SpawnRefused, TryTransition, SpawnWorker, Launch,
       Launching, Goto, LoopHeads
  <2>. QED
    BY <1>1, <1>2, <1>3, <2>1 DEF LaunchesIdle
<1>8. ASSUME NEW i \in Jobs, CheckTimeout(i) PROVE WritesSettled(j)'
  BY <1>8 DEF CheckTimeout, TryTransition, Parked
<1>9. CASE CheckLost
  <2>. SUFFICES ASSUME pc' = "write" PROVE WritesSettled(j)'
    OBVIOUS
  <2>1. cur = j /\ goal' = "lost" /\ Latest(j) \notin registered /\ ~ SpawnWorker /\ pc = "look"
    BY <1>9 DEF CheckLost, TryTransition, SpawnWorker
  <2>2. NoWorker(j)
    <3>. SUFFICES ASSUME NEW a \in Attempts, a[1] = j, Manned(a) PROVE FALSE
      BY DEF NoWorker
    <3>1. a \in registered /\ Busy(a)
      BY <1>0, <2>1, MannedIsBusy DEF Known, WorkersKnown
    <3>2. a[2] = attempts[j]
      BY <1>0, <3>1 DEF Watched, ReadersCurrent
    <3>. QED
      BY <2>1, <3>1, <3>2, AttemptFacts DEF Latest
  <2>. QED
    BY <1>2, <2>1, <2>2 DEF Parked
<1>10. CASE RetrySameSession \/ ReportLost \/ \E s \in Sessions : ForkSession(s)
  <2>. SUFFICES ASSUME pc' = "write" PROVE WritesSettled(j)'
    OBVIOUS
  <2>1. /\ cur = j /\ pc = "act" /\ ~ SpawnWorker
        /\ CanTransition(state[j], "queued") \/ CanTransition(state[j], "needs_controller")
    BY <1>10 DEF RetrySameSession, ReportLost, ForkSession, TryTransition, SpawnWorker
  <2>2. state[j] \in Parked \/ NeedsCleanup(j)
    BY <2>1 DEF NeedsCleanup, CanTransition, ValidTransitions, JobStates, ActiveStates,
       FinalStates, Parked
  <2>. QED
    BY <1>1, <1>2, <1>3, <2>1, <2>2 DEF ActsSettled
<1>11. CASE /\ MainStep
            /\ ~ KillJob /\ ~ GiveUp /\ ~ Requeue /\ ~ EnterStarting /\ ~ EnterRunning
            /\ ~ SpawnRefused /\ ~ CheckLost /\ ~ RetrySameSession /\ ~ ReportLost
            /\ \A i \in Jobs : ~ RequeueLimited(i) /\ ~ RequeueFailed(i) /\ ~ CheckTimeout(i)
            /\ \A s \in Sessions : ~ ForkSession(s)
  <2>1. pc' # "write" \/ (mainVars' = mainVars /\ ~ WriteState /\ ~ SpawnWorker)
    BY <1>11 DEF MainStep, DaemonStarts, PollCommands, NextCommand, Goto, WriteState,
       KillStop, ListRateLimited, ListFailed, RecoveryDone, ClearBackoff, PickJob,
       OccupySession, SpawnWorker, SpawnRaises, RegisterProcess, DispatchDone, SkipWatchdog,
       ListActive, CheckUnfinished, CheckFinished, ApplyRecovery, CheckHealthy, ReleaseSlot,
       RecoveriesApplied, StopRequested, DaemonExits, ProcessEnds, StopOne, Typed, WriteReady
  <2>. QED
    BY <2>1, HandsOff
<1>12. CASE mainVars' = mainVars /\ ~ WriteState /\ ~ SpawnWorker
  BY <1>12, HandsOff
<1>13. CASE Crash
  BY <1>13 DEF Crash, ProcessEnds, Goto
<1>. QED
  BY <1>4, <1>5, <1>6, <1>7, <1>8, <1>9, <1>10, <1>11, <1>12, <1>13, MainMoves

\* A job that waits, once it is inserted, keeps its row until it is written.
LEMMA ParkedKeepsRow ==
  ASSUME Typed, Watched, [Next]_vars, NEW j \in Jobs, ~ Late(j)',
         state[j] \in Parked \ {"absent"}, ~ (WriteState /\ cur = j)
  PROVE  state'[j] = state[j]
BY ParkedIsIdle, IdleKeepsRow, NotLateBefore DEF Watched

LEMMA RequeuesParkedStep ==
  ASSUME Typed, Watched, [Next]_vars PROVE RequeuesParked'
<1>. DEFINE Waits(j) ==
       /\ pc = "requeue" /\ cur = j => state[j] \in {"rate_limited", "failed_retryable"}
       /\ Requeueing("requeue_limited") /\ j \in todo => state[j] = "rate_limited"
       /\ Requeueing("requeue_failed") /\ j \in todo => state[j] = "failed_retryable"
<1>. SUFFICES ASSUME NEW j \in Jobs, ~ Late(j)' PROVE Waits(j)'
  BY DEF RequeuesParked, Requeueing
<1>. USE DEF Requeueing
<1>0. Known /\ ~ Late(j) /\ None \notin Jobs
  BY NotLateBefore, ConstantsAssumption DEF Watched
<1>1. Waits(j)
  BY <1>0 DEF Watched, RequeuesParked
<1>2. ASSUME mainVars' = mainVars, ~ WriteState PROVE Waits(j)'
  <2>1. pc' = pc /\ cur' = cur /\ next' = next /\ todo' = todo
    BY <1>2 DEF mainVars
  <2>2. state[j] \in {"rate_limited", "failed_retryable"} => state'[j] = state[j]
    BY <1>2, ParkedKeepsRow DEF Parked
  <2>. QED
    BY <1>1, <2>1, <2>2
<1>3. CASE ListRateLimited \/ ListFailed
  BY <1>0, <1>3 DEF ListRateLimited, ListFailed, Goto, LoopHeads, dbVars
<1>4. ASSUME NEW i \in Jobs, RequeueLimited(i) PROVE Waits(j)'
  BY <1>0, <1>1, <1>4 DEF RequeueLimited, RequeueJob, TryTransition, dbVars
<1>5. ASSUME NEW i \in Jobs, RequeueFailed(i) PROVE Waits(j)'
  BY <1>0, <1>1, <1>5 DEF RequeueFailed, RequeueJob, TryTransition, dbVars
<1>6. ASSUME NEW r \in Repos, ClearBackoff(r) PROVE Waits(j)'
  BY <1>1, <1>6 DEF ClearBackoff
<1>7. CASE Requeue
  BY <1>1, <1>7 DEF Requeue, dbVars
<1>8. CASE WriteState
  <2>1. /\ pc' = next /\ todo' = todo /\ next \in ReturnPlaces
        /\ j # cur => state'[j] = state[j]
    BY <1>0, <1>8 DEF WriteState, Goto, Known, WritesReturn, Typed, TypeOK, TablesTyped
  <2>2. pc = "write"
    BY <1>8 DEF WriteState
  <2>3. j \in todo /\ next \in {"requeue_limited", "requeue_failed"} => j # cur
    BY <1>0, <2>2 DEF Known, ListsApart
  <2>. QED
    BY <1>1, <2>1, <2>2, <2>3 DEF ReturnPlaces
<1>9. CASE /\ MainStep
           /\ ~ ListRateLimited /\ ~ ListFailed /\ ~ Requeue /\ ~ WriteState
           /\ \A i \in Jobs : ~ RequeueLimited(i) /\ ~ RequeueFailed(i)
           /\ \A r \in Repos : ~ ClearBackoff(r)
  <2>1. \/ mainVars' = mainVars
        \/ /\ pc' \notin {"requeue", "requeue_limited", "requeue_failed"}
           /\ pc' = "write" => next' \notin {"requeue_limited", "requeue_failed"}
    BY <1>9 DEF MainStep, DaemonStarts, PollCommands, KillJob, NextCommand, Goto,
       KillStop, RecoveryDone, TryTransition, PickJob, EnterStarting, OccupySession,
       EnterRunning, SpawnWorker, SpawnRefused,
       SpawnRaises, RegisterProcess, DispatchDone, SkipWatchdog, ListActive, CheckTimeout,
       CheckUnfinished, CheckFinished, ApplyRecovery, CheckLost, CheckHealthy, ReleaseSlot,
       RetrySameSession, GiveUp, ReportLost, RecoveriesApplied, ForkSession, StopRequested,
       DaemonExits, ProcessEnds, StopOne
  <2>. QED
    BY <1>2, <1>9, <2>1
<1>10. CASE Crash
  BY <1>10 DEF Crash, ProcessEnds, Goto
<1>. QED
  BY <1>2, <1>3, <1>4, <1>5, <1>6, <1>7, <1>8, <1>9, <1>10, MainMoves

\* Where Runner does not know a Worker, there is none.
LEMMA WorkerIsRegistered ==
  ASSUME Watched, pc # "register", NEW a \in Attempts, Manned(a), ~ Late(a[1])
  PROVE  a \in registered /\ a = Latest(a[1])
<1>1. a \in registered /\ a[2] = attempts[a[1]]
  BY MannedIsBusy DEF Watched, Known, WorkersKnown, ReadersCurrent
<1>. QED
  BY <1>1, AttemptFacts DEF Latest

LEMMA ActsSettledStep ==
  ASSUME Typed, Watched, [Next]_vars, NEW j \in Jobs, cur' = j, ~ Late(j)'
  PROVE  ActsSettled(j)'
<1>. USE DEF ActsSettled
<1>0. Known /\ ~ Late(j)
  BY NotLateBefore DEF Watched
<1>1. worker \in [Attempts -> WorkerStates] /\ registered \subseteq Attempts
  BY DEF Typed, TypeOK, ProcessesTyped
<1>2. cur = j => WritesSettled(j) /\ ActsSettled(j)
  BY <1>0 DEF Watched, InHandSettled
<1>3. ASSUME NEW i \in Jobs, KillStop(i) PROVE ActsSettled(j)'
  <2>1. NoWorker(j)'
    <3>. SUFFICES ASSUME NEW a \in Attempts, a[1] = j, Manned(a)' PROVE FALSE
      BY DEF NoWorker
    <3>0. i = j
      BY <1>3 DEF KillStop
    <3>1. Manned(a)
      BY <1>1, <1>3 DEF KillStop, StopWorker, Manned
    <3>2. a \in registered /\ a[2] = attempts[j]
      BY <1>0, <1>3, <3>1, WorkerIsRegistered DEF KillStop, Latest
    <3>3. PICK b \in registered : /\ b[1] = j /\ a[2] <= b[2]
                                  /\ worker' = [worker EXCEPT ![b] = "ended"]
      BY <1>3, <3>0, <3>2 DEF KillStop, StopWorker
    <3>4. b \in Attempts /\ b[2] <= attempts[j]
      BY <1>0, <1>1, <3>3 DEF Known, RegisteredExist
    <3>5. a[2] \in Nat /\ b[2] \in Nat
      BY <3>4, AttemptFacts
    <3>6. a = b
      BY <3>2, <3>3, <3>4, <3>5, SameAttempt
    <3>. QED
      BY <1>1, <3>3, <3>6 DEF Manned
  <2>. QED
    BY <1>3, <2>1 DEF KillStop
<1>4. ASSUME NEW i \in Jobs, ApplyRecovery(i) PROVE ActsSettled(j)'
  <2>1. i = j /\ state' = state /\ reader' = reader /\ pc' \in {"join", "act"}
        /\ (pc' = "act" => ~ NeedsCleanup(j))
    BY <1>4 DEF ApplyRecovery, dbVars
  <2>2. NoWorker(j)'
    <3>. SUFFICES ASSUME NEW a \in Attempts, a[1] = j, Manned(a)' PROVE FALSE
      BY DEF NoWorker
    <3>1. Manned(a)
      BY <1>1, <1>4 DEF ApplyRecovery, StopWorker, Manned
    <3>2. a \in registered /\ a = Latest(j)
      BY <1>0, <1>4, <3>1, WorkerIsRegistered DEF ApplyRecovery
    <3>3. NeedsCleanup(j)
      BY <1>0, <3>1 DEF Watched, WorkersHeld, Held, NeedsCleanup, ActiveStates
    <3>. QED
      BY <1>1, <1>4, <2>1, <3>2, <3>3 DEF ApplyRecovery, StopWorker, Manned
  <2>. QED
    BY <2>1, <2>2 DEF NeedsCleanup
<1>5. CASE ReleaseSlot
  <2>1. /\ cur = j /\ reader' = reader /\ worker' = worker /\ pc' = "act" /\ NoWorker(j)
        /\ reader[Latest(j)] \in Quiet \/ Latest(j) \in overtaken'
    BY <1>2, <1>5 DEF ReleaseSlot, procVars, Goto, LoopHeads, Quiet
  <2>2. Idle(j)'
    <3>. SUFFICES ASSUME NEW a \in Attempts, a[1] = j, reader[a] \notin Quiet, a \notin overtaken'
                  PROVE FALSE
      BY <2>1 DEF Idle, Busy
    <3>1. Busy(a)
      BY OvertakenGrows DEF Busy
    <3>2. a = Latest(j)
      BY <1>0, <3>1, AttemptFacts DEF Watched, ReadersCurrent, Latest
    <3>. QED
      BY <2>1, <3>2
  <2>3. NoWorker(j)'
    BY <2>1 DEF NoWorker, Manned
  <2>. QED
    BY <2>2, <2>3
<1>6. ASSUME NEW s \in Sessions, ForkSession(s) PROVE ActsSettled(j)'
  <2>1. pc' = "give_up" => worker' = worker /\ reader' = reader /\ NoWorker(j)
    BY <1>2, <1>6 DEF ForkSession, procVars, TryTransition, LoopHeads
  <2>2. pc' \in {"write", "give_up"}
    BY <1>6 DEF ForkSession, TryTransition
  <2>. QED
    BY <2>1, <2>2 DEF NoWorker, Manned
<1>7. CASE WriteState
  BY <1>0, <1>7 DEF WriteState, Goto, Known, WritesReturn, ReturnPlaces
<1>8. CASE /\ MainStep /\ ~ ReleaseSlot /\ ~ WriteState
           /\ \A i \in Jobs : ~ KillStop(i) /\ ~ ApplyRecovery(i)
           /\ \A s \in Sessions : ~ ForkSession(s)
  <2>1. \/ mainVars' = mainVars /\ ~ SpawnWorker
        \/ pc' \notin {"killing", "join", "act", "give_up"}
    BY <1>8 DEF MainStep, DaemonStarts, PollCommands, KillJob, NextCommand, Goto,
       ListRateLimited, ListFailed, RecoveryDone, Requeue, RequeueLimited, RequeueFailed,
       RequeueJob, ClearBackoff, TryTransition, PickJob, EnterStarting, OccupySession,
       EnterRunning, SpawnWorker, SpawnRefused, SpawnRaises, RegisterProcess, DispatchDone,
       SkipWatchdog, ListActive, CheckTimeout, CheckUnfinished, CheckFinished, CheckLost,
       CheckHealthy, RetrySameSession, GiveUp, ReportLost, RecoveriesApplied, StopRequested,
       DaemonExits, ProcessEnds, StopOne, Typed, WriteReady
  <2>. QED
    BY <1>8, <2>1, HandsOff
<1>9. CASE Crash
  BY <1>9 DEF Crash, ProcessEnds, Goto
<1>. QED
  BY <1>3, <1>4, <1>5, <1>6, <1>7, <1>8, <1>9, HandsOff, MainMoves

\* What the main thread does to the plan of a job with a Worker: nothing, or it
\* plans another recovery.  It leaves the watchdog only when no plan is left.
LEMMA PlanStays ==
  ASSUME Typed, Watched, [Next]_vars,
         NEW a \in Attempts, Manned(a), Manned(a)', ~ Late(a[1]), plan[a[1]] # None, InWatchdog
  PROVE  plan'[a[1]] # None /\ InWatchdog'
<1>. USE DEF InWatchdog
<1>0. a[1] \in Jobs /\ plan \in [Jobs -> RecoveryActions \cup {None}]
  BY AttemptFacts DEF Typed, TypeOK, MainTyped
<1>1. CASE mainVars' = mainVars
  BY <1>1 DEF mainVars
<1>2. CASE RetrySameSession \/ ReportLost \/ \E s \in Sessions : ForkSession(s)
  <2>1. cur # a[1]
    BY <1>0, <1>2 DEF RetrySameSession, ReportLost, ForkSession, Watched, InHandSettled,
       ActsSettled, NoWorker
  <2>. QED
    BY <1>0, <1>2, <2>1 DEF RetrySameSession, ReportLost, ForkSession, TryTransition
<1>3. ASSUME NEW j \in Jobs, CheckTimeout(j) PROVE plan'[a[1]] # None /\ InWatchdog'
  BY <1>0, <1>3, NoneIsNoAction DEF CheckTimeout, TryTransition, RecoveryActions
<1>4. CASE CheckLost
  BY <1>0, <1>4, NoneIsNoAction DEF CheckLost, TryTransition, RecoveryActions
<1>5. CASE WriteState
  BY <1>0, <1>5 DEF WriteState, Goto, LoopHeads
<1>6. CASE RecoveriesApplied \/ DaemonExits
  BY <1>0, <1>6, ExitLeavesNone DEF RecoveriesApplied, Watched
<1>7. ASSUME NEW j \in Jobs, CheckUnfinished(j) \/ CheckFinished(j) \/ ApplyRecovery(j)
      PROVE  plan'[a[1]] # None /\ InWatchdog'
  BY <1>7 DEF CheckUnfinished, CheckFinished, ApplyRecovery
<1>8. CASE CheckHealthy \/ ReleaseSlot \/ GiveUp
  BY <1>8 DEF CheckHealthy, ReleaseSlot, GiveUp, Goto, TryTransition
<1>9. CASE /\ MainStep
           /\ ~ RetrySameSession /\ ~ ReportLost /\ ~ CheckLost /\ ~ WriteState
           /\ ~ RecoveriesApplied /\ ~ DaemonExits
           /\ ~ CheckHealthy /\ ~ ReleaseSlot /\ ~ GiveUp
           /\ \A s \in Sessions : ~ ForkSession(s)
           /\ \A j \in Jobs : /\ ~ CheckTimeout(j) /\ ~ CheckUnfinished(j)
                              /\ ~ CheckFinished(j) /\ ~ ApplyRecovery(j)
  <2>1. mainVars' = mainVars \/ ~ InWatchdog
    BY <1>9 DEF MainStep, DaemonStarts, PollCommands, KillJob, NextCommand,
       KillStop, ListRateLimited, ListFailed, RecoveryDone, Requeue, RequeueLimited,
       RequeueFailed, ClearBackoff, PickJob, EnterStarting, OccupySession, EnterRunning,
       SpawnWorker, SpawnRefused, SpawnRaises, RegisterProcess, DispatchDone, SkipWatchdog,
       ListActive, StopRequested, StopOne
  <2>. QED
    BY <1>1, <2>1
<1>10. ASSUME Crash PROVE FALSE
  BY <1>10 DEF Crash, ProcessEnds, Manned, Watched, Known, WorkersKnown
<1>. QED
  BY <1>1, <1>2, <1>3, <1>4, <1>5, <1>6, <1>7, <1>8, <1>9, <1>10, MainMoves

LEMMA WorkersHeldStep ==
  ASSUME Typed, Watched, [Next]_vars PROVE WorkersHeld'
<1>. SUFFICES ASSUME NEW a \in Attempts, Manned(a)', ~ Late(a[1])' PROVE Held(a[1])'
  BY DEF WorkersHeld
<1>. USE DEF Held
<1>0. a[1] \in Jobs /\ TablesTyped /\ ProcessesTyped /\ Known /\ ~ Late(a[1])
  BY AttemptFacts, NotLateBefore DEF Typed, TypeOK, Watched
<1>1. CASE SpawnWorker /\ a = Latest(cur)
  <2>1. a[1] = cur
    BY <1>1 DEF Latest
  <2>2. state[a[1]] = "running"
    BY <1>0, <1>1, <2>1 DEF SpawnWorker, Watched, InHandSettled, LaunchesIdle
  <2>. QED
    BY <1>1, <2>2 DEF SpawnWorker, dbVars
<1>2. CASE ~ (SpawnWorker /\ a = Latest(cur))
  <2>1. Manned(a)
    BY <1>0, <1>2, WorkersStart
  <2>2. Held(a[1]) /\ a[2] = attempts[a[1]] /\ reader[a] = "reading"
    BY <1>0, <2>1, MannedIsBusy DEF Watched, WorkersHeld, ReadersCurrent, Known, WorkersKnown
  <2>3. CASE state'[a[1]] = state[a[1]]
    <3>1. state[a[1]] = "timed_out" => plan'[a[1]] # None /\ InWatchdog'
      BY <1>0, <2>1, <2>2, PlanStays
    <3>. QED
      BY <2>2, <2>3, <3>1
  <2>4. CASE WriteState /\ cur = a[1] /\ state'[a[1]] = goal
    <3>1. pc = "write" /\ WritesSettled(a[1])
      BY <1>0, <2>4 DEF WriteState, Watched, InHandSettled
    <3>2. goal = "timed_out" /\ next = "check" /\ plan[cur] # None
      BY <1>0, <2>1, <2>4, <3>1 DEF WritesSettled, NoWorker, Known, WritesReturn
    <3>3. plan' = plan /\ pc' = "check"
      BY <2>4, <3>2 DEF WriteState, Goto
    <3>. QED
      BY <2>4, <3>2, <3>3 DEF InWatchdog
  <2>5. ASSUME ReaderChanges(a[1]) PROVE FALSE
    <3>1. PICK b \in Attempts : b[1] = a[1] /\ Busy(b) /\ reader[b] # "reading"
      BY <2>5 DEF ReaderChanges
    <3>2. b[2] = attempts[b[1]]
      BY <1>0, <3>1 DEF Watched, ReadersCurrent
    <3>3. b = a
      BY <2>2, <3>1, <3>2, SameAttempt
    <3>. QED
      BY <2>2, <3>1, <3>3
  <2>6. state[a[1]] # "absent"
    BY <2>2
  <2>. QED
    BY <1>0, <2>3, <2>4, <2>5, <2>6, RowChanges
<1>. QED
  BY <1>1, <1>2

LEMMA WatchedInvariant == Spec => []Watched
<1>1. Init => Watched
  BY ConstantsAssumption DEF Init, Watched, Known, Fresh, Launch, Launching, RegisteredExist,
     OvertakenStarted, JoinsEnded, WorkersKnown, Manned, OrphansCounted, WritesReturn,
     ListsApart, Requeueing, ReadersCurrent, Busy, Quiet, InHandSettled, RequeuesParked,
     WorkersHeld
<1>2. Typed /\ Watched /\ [Next]_vars => Watched'
  <2>. SUFFICES ASSUME Typed, Watched, [Next]_vars PROVE Watched'
    OBVIOUS
  <2>1. Known'
    BY FreshStep, RegisteredExistStep, OvertakenStartedStep, JoinsEndedStep, WorkersKnownStep,
       OrphansCountedStep, WritesReturnStep, ListsApartStep DEF Known, Watched
  <2>2. InHandSettled'
    BY LaunchesIdleStep, WritesSettledStep, ActsSettledStep DEF InHandSettled
  <2>. QED
    BY <2>1, <2>2, ReadersCurrentStep, RequeuesParkedStep, WorkersHeldStep DEF Watched
<1>. QED
  BY <1>1, <1>2, TypedInvariant, PTL DEF Spec

-----------------------------------------------------------------------------
(* The properties.                                                          *)

\* No job that ended has a Worker left running, but for an orphan of a daemon that was
\* killed, and for one whose run a late completion ended: kill, retry and recovery stop
\* the process before they write the row, and a completion writes it after.
THEOREM NoWorkerAfterEnd == Spec => []EndedJobHasNoWorker
<1>1. Watched => EndedJobHasNoWorker
  BY DEF Watched, WorkersHeld, Held, Known, OrphansCounted, Manned, Late, Overtaken,
     EndedJobHasNoWorker, LiveAttempts, FinalStates
<1>. QED
  BY <1>1, WatchedInvariant, PTL

\* Whatever crashes came before, the Workers of this daemon are one per job at most,
\* where no completion came late.
Staff == {a \in Attempts : Manned(a) /\ ~ Late(a[1])}
OneWorkerEach == \A a, b \in Staff : a[1] = b[1] => a = b

LEMMA OneWorkerEachHolds ==
  ASSUME Watched PROVE OneWorkerEach
BY SameAttempt, MannedIsBusy DEF Watched, ReadersCurrent, OneWorkerEach, Staff

\* So outside the watchdog, where a Worker's job is running, there are no more
\* Workers than active jobs.
LEMMA WorkersAreActive ==
  ASSUME Watched, ~ InWatchdog
  PROVE  IsFiniteSet(Staff) /\ Cardinality(Staff) <= Cardinality(ActiveJobs)
<1>. DEFINE f == [a \in Staff |-> a[1]]
<1>1. IsFiniteSet(ActiveJobs)
  BY ConstantsAssumption, FS_Subset DEF ActiveJobs
<1>2. f \in Injection(Staff, ActiveJobs)
  <2>1. \A a \in Staff : a[1] \in ActiveJobs
    BY AttemptFacts DEF Staff, Watched, WorkersHeld, Held, ActiveJobs, ActiveStates
  <2>2. f \in [Staff -> ActiveJobs]
    BY <2>1
  <2>3. \A a, b \in Staff : f[a] = f[b] => a = b
    BY OneWorkerEachHolds DEF OneWorkerEach
  <2>. QED
    BY <2>2, <2>3, Fun_IsInj
<1>. QED
  BY <1>1, <1>2, FS_Injection

\* The Workers of the daemon never exceed the global limit, those of timed-out jobs
\* included, however often it was killed and started again.
StaffWithinLimit == Cardinality(Staff) <= GlobalMax /\ OneWorkerEach

THEOREM StaffKept == Spec => []StaffWithinLimit
<1>. DEFINE Few == IsFiniteSet(Staff) /\ Cardinality(Staff) <= GlobalMax
<1>1. Init => Few
  <2>. SUFFICES ASSUME Init PROVE Few
    OBVIOUS
  <2>1. Staff = {}
    BY DEF Init, Staff, Manned
  <2>. QED
    BY <2>1, FS_EmptySet, ConstantsAssumption
<1>2. Watched /\ ConcurrencyBound => (~ InWatchdog => Few)
  <2>. SUFFICES ASSUME Watched, ConcurrencyBound, ~ InWatchdog PROVE Few
    OBVIOUS
  <2>1. IsFiniteSet(Staff) /\ Cardinality(Staff) <= Cardinality(ActiveJobs)
    BY WorkersAreActive
  <2>2. IsFiniteSet(ActiveJobs) /\ Cardinality(ActiveJobs) <= GlobalMax
    BY ConstantsAssumption, FS_Subset DEF ActiveJobs, ConcurrencyBound
  <2>3. Cardinality(Staff) \in Nat /\ Cardinality(ActiveJobs) \in Nat
    BY <2>1, <2>2, FS_CardinalityType
  <2>. QED
    BY <2>1, <2>2, <2>3, ConstantsAssumption
<1>3. Few /\ Typed /\ Watched /\ (~ InWatchdog => Few)' /\ [Next]_vars => Few'
  <2>. SUFFICES ASSUME Few, Typed, Watched, (~ InWatchdog => Few)', [Next]_vars
                PROVE  Few'
    OBVIOUS
  <2>1. CASE SpawnWorker
    BY <2>1 DEF SpawnWorker, Goto, InWatchdog
  <2>2. CASE ~ SpawnWorker
    <3>0. \A a \in Attempts : a[1] \in Jobs
      BY AttemptFacts
    <3>1. Staff' \subseteq Staff
      BY <2>2, <3>0, WorkersStart, NotLateBefore DEF Staff, Watched
    <3>2. /\ IsFiniteSet(Staff')
          /\ Cardinality(Staff') <= Cardinality(Staff)
          /\ Cardinality(Staff') \in Nat /\ Cardinality(Staff) \in Nat
      BY <3>1, FS_Subset, FS_CardinalityType
    <3>. QED
      BY <3>2, ConstantsAssumption
  <2>. QED
    BY <2>1, <2>2
<1>4. Few /\ Watched => StaffWithinLimit
  BY OneWorkerEachHolds DEF StaffWithinLimit
<1>. QED
  BY <1>1, <1>2, <1>3, <1>4, TypedInvariant, WatchedInvariant, LimitsKept, PTL DEF Spec

-----------------------------------------------------------------------------
(* transition_job once more: the check and the write of one transition.      *)

\* What the watchdog and a kill write whatever a completion committed meanwhile.
Verdicts == {"timed_out", "lost", "failed_permanent"}

\* transition_job writes without a condition, but for a verdict the check it made
\* before still holds then: no requeue, launch or escalation is written over an
\* outcome that came in between, unless a completion nobody waited for brought it.
ChecksStand ==
  pc = "write" /\ goal \notin Verdicts => CanTransition(state[cur], goal) \/ Late(cur)

\* It holds because the job is idle in between: nobody else writes its row.
WritesSafe ==
  \A j \in Jobs : pc = "write" /\ cur = j =>
    /\ next \in Launching => goal \in ActiveStates
    /\ goal \notin Verdicts =>
         /\ goal \in Parked \/ next \in Launching
         /\ ~ Late(j) => CanTransition(state[j], goal)

LEMMA WritesSafeStep ==
  ASSUME Typed, Watched, WritesSafe, [Next]_vars PROVE WritesSafe'
<1>. SUFFICES ASSUME NEW j \in Jobs, pc' = "write", cur' = j
              PROVE  /\ next' \in Launching => goal' \in ActiveStates
                     /\ goal' \notin Verdicts =>
                          /\ goal' \in Parked \/ next' \in Launching
                          /\ ~ Late(j)' => CanTransition(state'[j], goal')
  BY DEF WritesSafe, CanTransition
<1>1. CASE mainVars' = mainVars /\ ~ WriteState
  <2>1. pc = "write" /\ cur = j /\ next' = next /\ goal' = goal /\ ~ SpawnWorker
    BY <1>1 DEF mainVars, SpawnWorker
  <2>2. ASSUME goal \notin Verdicts, ~ Late(j)' PROVE CanTransition(state'[j], goal)
    <3>1. Known /\ ~ Late(j)
      BY <2>2, NotLateBefore DEF Watched
    <3>2. Idle(j) /\ CanTransition(state[j], goal)
      BY <2>1, <2>2, <3>1 DEF WritesSafe, Watched, InHandSettled, WritesSettled, LaunchesIdle,
         Launch
    <3>3. state[j] # "absent"
      BY <3>2 DEF CanTransition, JobStates
    <3>4. state'[j] = state[j]
      BY <1>1, <2>2, <3>2, <3>3, IdleKeepsRow
    <3>. QED
      BY <3>2, <3>4
  <2>. QED
    BY <2>1, <2>2 DEF WritesSafe
<1>2. CASE Crash \/ WriteState
  <2>1. pc' # "write"
    BY <1>2 DEF Crash, ProcessEnds, WriteState, Goto, Watched, Known, WritesReturn, ReturnPlaces
  <2>. QED
    BY <2>1
<1>3. CASE MainStep /\ ~ WriteState
  <2>1. UNCHANGED state
    BY <1>3 DEF MainStep, DaemonStarts, PollCommands, KillJob, NextCommand,
       KillStop, ListRateLimited, ListFailed, RecoveryDone, Requeue, RequeueLimited,
       RequeueFailed, RequeueJob, TryTransition, Goto, ClearBackoff, PickJob, EnterStarting,
       OccupySession, EnterRunning, SpawnWorker, SpawnRefused, SpawnRaises, RegisterProcess,
       DispatchDone, SkipWatchdog, ListActive, CheckTimeout, CheckUnfinished, CheckFinished,
       ApplyRecovery, CheckLost, CheckHealthy, ReleaseSlot, RetrySameSession, GiveUp,
       ReportLost, RecoveriesApplied, ForkSession, StopRequested, DaemonExits, ProcessEnds,
       StopOne, dbVars
  <2>2. pc # "write"
    BY <1>3 DEF MainStep, DaemonStarts, PollCommands, KillJob, NextCommand,
       KillStop, ListRateLimited, ListFailed, RecoveryDone, Requeue, RequeueLimited,
       RequeueFailed, RequeueJob, TryTransition, Goto, ClearBackoff, PickJob, EnterStarting,
       OccupySession, EnterRunning, SpawnWorker, SpawnRefused, SpawnRaises, RegisterProcess,
       DispatchDone, SkipWatchdog, ListActive, CheckTimeout, CheckUnfinished, CheckFinished,
       ApplyRecovery, CheckLost, CheckHealthy, ReleaseSlot, RetrySameSession, GiveUp,
       ReportLost, RecoveriesApplied, ForkSession, StopRequested, DaemonExits, ProcessEnds,
       StopOne
  <2>3. /\ CanTransition(state[j], goal')
        /\ goal' \in Parked \cup Verdicts \/ next' \in Launching
        /\ next' \in Launching => goal' \in ActiveStates
    BY <1>3, <2>2 DEF MainStep, DaemonStarts, PollCommands, KillJob, NextCommand,
       KillStop, ListRateLimited, ListFailed, RecoveryDone, Requeue, RequeueLimited,
       RequeueFailed, RequeueJob, TryTransition, Goto, ClearBackoff, PickJob, EnterStarting,
       OccupySession, EnterRunning, SpawnWorker, SpawnRefused, SpawnRaises, RegisterProcess,
       DispatchDone, SkipWatchdog, ListActive, CheckTimeout, CheckUnfinished, CheckFinished,
       ApplyRecovery, CheckLost, CheckHealthy, ReleaseSlot, RetrySameSession, GiveUp,
       ReportLost, RecoveriesApplied, ForkSession, StopRequested, DaemonExits, ProcessEnds,
       StopOne, Parked, Verdicts, Launching, ActiveStates, Typed, WriteReady, mainVars
  <2>. QED
    BY <2>1, <2>3
<1>. QED
  BY <1>1, <1>2, <1>3, MainMoves

LEMMA WritesSafeInvariant == Spec => []WritesSafe
<1>1. Init => WritesSafe
  BY DEF Init, WritesSafe
<1>. QED
  BY <1>1, WritesSafeStep, TypedInvariant, WatchedInvariant, PTL DEF Spec

\* Where no completion came late, only a verdict is ever written over an outcome.
THEOREM OutcomesStand == Spec => []ChecksStand
<1>1. Typed /\ WritesSafe => ChecksStand
  BY DEF Typed, JobInHand, LoopHeads, WritesSafe, ChecksStand
<1>. QED
  BY <1>1, TypedInvariant, WritesSafeInvariant, PTL

\* A completion under way finds its job running, or with a verdict on it: between the
\* launch and its end nothing else is written.
CompletionsMeetVerdicts ==
  \A a \in Attempts : Busy(a) /\ ~ Late(a[1]) => state[a[1]] \in {"running"} \cup Verdicts

LEMMA CompletionsStep ==
  ASSUME Typed, Watched, WritesSafe, CompletionsMeetVerdicts, [Next]_vars
  PROVE  CompletionsMeetVerdicts'
<1>. SUFFICES ASSUME NEW a \in Attempts, reader'[a] \notin Quiet, a \notin overtaken',
                     ~ Late(a[1])'
              PROVE  state'[a[1]] \in {"running"} \cup Verdicts
  BY DEF CompletionsMeetVerdicts, Busy
<1>0. a[1] \in Jobs /\ Known /\ ~ Late(a[1])
  BY AttemptFacts, NotLateBefore DEF Watched
<1>1. CASE reader[a] \in Quiet
  <2>1. SpawnWorker /\ a[1] = cur
    BY <1>1, QuietStays DEF Latest
  <2>. QED
    BY <1>0, <2>1 DEF SpawnWorker, dbVars, Watched, InHandSettled, LaunchesIdle
<1>2. CASE reader[a] \notin Quiet
  <2>0. Busy(a)
    BY <1>2, OvertakenGrows DEF Busy
  <2>1. state[a[1]] \in {"running"} \cup Verdicts
    BY <1>0, <2>0 DEF CompletionsMeetVerdicts
  <2>2. CASE WriteState /\ cur = a[1]
    <3>1. pc = "write" /\ ~ Idle(a[1]) /\ WritesSettled(a[1]) /\ LaunchesIdle(a[1])
      BY <1>0, <2>0, <2>2 DEF WriteState, Idle, Watched, InHandSettled
    <3>2. goal \in Verdicts
      BY <1>0, <2>2, <3>1 DEF WritesSafe, WritesSettled, LaunchesIdle, Launch
    <3>3. state'[a[1]] = goal
      BY <1>0, <2>2 DEF WriteState, Typed, TypeOK, TablesTyped
    <3>. QED
      BY <3>2, <3>3
  <2>3. ASSUME ReaderChanges(a[1]) PROVE FALSE
    <3>1. PICK b \in Attempts : b[1] = a[1] /\ Busy(b) /\ reader'[b] = "done"
      BY <2>3 DEF ReaderChanges
    <3>2. a[2] = b[2]
      BY <1>0, <2>0, <3>1 DEF Watched, ReadersCurrent
    <3>. QED
      BY <3>1, <3>2, SameAttempt DEF Quiet
  <2>4. state[a[1]] # "absent"
    BY <2>1 DEF Verdicts
  <2>. QED
    BY <1>0, <2>1, <2>2, <2>3, <2>4, RowChanges
<1>. QED
  BY <1>1, <1>2

\* What transition_job without a lock comes to: whatever VALID_TRANSITIONS does not
\* have is a verdict written over an outcome, or the failure that a completion was
\* about to write when the verdict came, or the work of a completion that nobody waited
\* for.  No job that succeeded goes back into the queue but by way of these.
OverwritesExplained ==
  [][\A j \in Jobs : state'[j] # state[j] =>
       \/ state[j] = "absent" /\ state'[j] = "queued"
       \/ CanTransition(state[j], state'[j])
       \/ state'[j] \in Verdicts
       \/ state[j] \in Verdicts /\ state'[j] = "failed_retryable"
       \/ Late(j)']_vars

THEOREM OverwritesAreVerdicts == Spec => OverwritesExplained
<1>. DEFINE Safe == WritesSafe /\ CompletionsMeetVerdicts
            Explained(j) == \/ state[j] = "absent" /\ state'[j] = "queued"
                            \/ CanTransition(state[j], state'[j])
                            \/ state'[j] \in Verdicts
                            \/ state[j] \in Verdicts /\ state'[j] = "failed_retryable"
                            \/ Late(j)'
<1>1. Init => Safe
  BY DEF Init, WritesSafe, CompletionsMeetVerdicts, Quiet, Busy
<1>2. Typed /\ Watched /\ Safe /\ [Next]_vars => Safe'
  BY WritesSafeStep, CompletionsStep
<1>3. Typed /\ Watched /\ Safe /\ [Next]_vars =>
        [\A j \in Jobs : state'[j] # state[j] => Explained(j)]_vars
  <2>. SUFFICES ASSUME Typed, Watched, Safe, [Next]_vars,
                       NEW j \in Jobs, state'[j] # state[j], ~ Late(j)'
                PROVE  Explained(j)
    OBVIOUS
  <2>0. Known /\ ~ Late(j)
    BY NotLateBefore DEF Watched
  <2>1. CASE WriteState /\ cur = j /\ state'[j] = goal
    BY <2>0, <2>1 DEF WriteState, WritesSafe
  <2>2. CASE ReaderChanges(j)
    <3>1. state[j] \in {"running"} \cup Verdicts
      BY <2>0, <2>2 DEF ReaderChanges, CompletionsMeetVerdicts
    <3>2. CanTransition("running", "failed_retryable")
      BY DEF CanTransition, ValidTransitions, JobStates, FinalStates
    <3>. QED
      BY <2>2, <3>1, <3>2 DEF ReaderChanges, Verdicts
  <2>. QED
    BY <2>1, <2>2, RowChanges
<1>. QED
  BY <1>1, <1>2, <1>3, TypedInvariant, WatchedInvariant, PTL DEF Spec, OverwritesExplained
-----------------------------------------------------------------------------
(* A requeue ends a run.                                                     *)

\* The job's last run is being launched, is under way, or ended so that the job may
\* go back into the queue.
MayRequeue(j) ==
  \/ state[j] \notin {"absent", "queued", "succeeded", "failed_permanent"}
  \/ ~ Idle(j)
  \/ cur = j /\ (pc \in Launching \/ (pc = "write" /\ goal # "failed_permanent"))

\* What the main thread is about to write it has just checked, or was already writing.
LEMMA WritesBegin ==
  ASSUME Typed, [Next]_vars, pc' = "write"
  PROVE  \/ /\ CanTransition(state[cur'], goal')
            /\ goal' = "starting" => pc \in Launching /\ cur' = cur
         \/ pc = "write" /\ cur' = cur /\ goal' = goal
<1>1. CASE MainStep
  BY <1>1 DEF MainStep, DaemonStarts, PollCommands, KillJob, WriteState, WriteReady, Typed,
     NextCommand, KillStop, ListRateLimited, ListFailed, RecoveryDone, Requeue, RequeueLimited,
     RequeueFailed, RequeueJob, TryTransition, Goto, ClearBackoff, PickJob, EnterStarting,
     OccupySession, EnterRunning, SpawnWorker, SpawnRefused, SpawnRaises, RegisterProcess,
     DispatchDone, SkipWatchdog, ListActive, CheckTimeout, CheckUnfinished, CheckFinished,
     ApplyRecovery, CheckLost, CheckHealthy, ReleaseSlot, RetrySameSession, GiveUp,
     ReportLost, RecoveriesApplied, ForkSession, StopRequested, DaemonExits, ProcessEnds,
     StopOne, mainVars, Launching
<1>2. CASE Crash
  BY <1>2 DEF Crash, ProcessEnds, Goto
<1>3. CASE mainVars' = mainVars
  BY <1>3 DEF mainVars
<1>. QED
  BY <1>1, <1>2, <1>3, MainMoves

\* Only a new attempt, or a completion that comes late, brings a job to where it may be
\* requeued.
LEMMA RunsBegin ==
  ASSUME Typed, Watched, WritesSafe, [Next]_vars, NEW j \in Jobs, ~ MayRequeue(j), ~ Late(j)'
  PROVE  ~ MayRequeue(j)' \/ attempts'[j] = attempts[j] + 1
<1>0. Known
  BY DEF Watched
<1>1. /\ state[j] \in {"absent", "queued", "succeeded", "failed_permanent"} /\ Idle(j)
      /\ cur = j => pc \notin Launching /\ (pc = "write" => goal = "failed_permanent")
  BY DEF MayRequeue
<1>2. Idle(j)'
  <2>1. ~ (SpawnWorker /\ cur = j)
    BY <1>1 DEF SpawnWorker, Launching
  <2>. QED
    BY <1>1, <2>1, IdleStays
<1>3. state'[j] \in {"absent", "queued", "succeeded", "failed_permanent"}
  <2>1. ~ ReaderChanges(j)
    BY <1>1 DEF ReaderChanges, Idle
  <2>2. WriteState /\ cur = j => goal = "failed_permanent"
    BY <1>1 DEF WriteState
  <2>. QED
    BY <1>1, <2>1, <2>2, RowChanges
<1>4. cur' = j /\ pc' \in Launching => attempts'[j] = attempts[j] + 1
  <2>. SUFFICES ASSUME cur' = j, pc' \in Launching PROVE attempts'[j] = attempts[j] + 1
    OBVIOUS
  <2>1. ASSUME NEW i \in Jobs, NEW s \in Sessions, PickJob(i, s)
        PROVE  attempts'[j] = attempts[j] + 1
    BY <2>1 DEF PickJob, Typed, TypeOK, TablesTyped
  <2>2. CASE cur = j /\ Launch
    BY <1>1, <2>2 DEF WritesSafe, ActiveStates, Launch
  <2>3. Launch'
    BY DEF Launch
  <2>. QED
    BY <1>0, <2>1, <2>2, <2>3, LaunchSteps
<1>5. cur' = j /\ pc' = "write" => goal' = "failed_permanent"
  <2>. SUFFICES ASSUME cur' = j, pc' = "write" PROVE goal' = "failed_permanent"
    OBVIOUS
  <2>1. CASE /\ CanTransition(state[j], goal')
             /\ goal' = "starting" => pc \in Launching /\ cur = j
    BY <1>1, <2>1 DEF CanTransition, ValidTransitions, JobStates, FinalStates
  <2>. QED
    BY <1>1, <2>1, WritesBegin
<1>. QED
  BY <1>2, <1>3, <1>4, <1>5 DEF MayRequeue

\* And a requeue takes it away from there.
LEMMA RunsEnd ==
  ASSUME Typed, Watched, WritesSafe, [Next]_vars, NEW j \in Jobs, ~ Late(j),
         WriteState, cur = j, goal = "queued"
  PROVE  MayRequeue(j) /\ ~ MayRequeue(j)'
<1>1. pc = "write" /\ MayRequeue(j)
  BY DEF WriteState, MayRequeue
<1>2. Idle(j)'
  <2>1. Idle(j) /\ ~ SpawnWorker
    BY <1>1 DEF Watched, InHandSettled, WritesSettled, Parked, SpawnWorker
  <2>. QED
    BY <2>1, IdleStays
<1>3. state'[j] = "queued"
  BY DEF WriteState, Typed, TypeOK, TablesTyped
<1>4. pc' \notin Launching /\ pc' # "write"
  BY <1>1 DEF WriteState, Goto, WritesSafe, ActiveStates, Typed, WriteReady
<1>. QED
  BY <1>1, <1>2, <1>3, <1>4 DEF MayRequeue
=============================================================================
