---------------------------- MODULE ExecutionProofs ----------------------------
(***************************************************************************)
(* Proofs about Execution, for any jobs, repos, sessions and bounds.       *)
(***************************************************************************)
EXTENDS Execution, FiniteSetTheorems, TLAPS

-----------------------------------------------------------------------------
(* Types.  TypeOK alone is not inductive: a step writes what an earlier     *)
(* step of the main thread left in cur, goal and next.                      *)

\* The places where the main thread works on a job's latest attempt.
AttemptPlaces ==
  {"enter_starting", "occupy", "enter_running", "spawn", "register",
   "look", "join", "act", "give_up"}

\* Between loop heads there is a job, and where its attempt is used it has one.
JobInHand ==
  /\ pc \notin LoopHeads => cur \in Jobs
  /\ pc \in AttemptPlaces => attempts[cur] > 0

\* A recovery is planned only for a job with an attempt.
PlansReady == \A j \in Jobs : plan[j] # None => attempts[j] > 0

\* A write under way has a state to write and a place to return to, and so has
\* a requeue.  The main thread never writes rate_limited.
WriteReady ==
  /\ pc = "write" =>
       /\ goal \in JobStates \ {"rate_limited"}
       /\ next \in MainPlaces \ {"write", "requeue"}
       /\ next \in AttemptPlaces => attempts[cur] > 0
  /\ pc = "requeue" => next \in {"requeue_limited", "requeue_failed"}

Typed == TypeOK /\ JobInHand /\ PlansReady /\ WriteReady

\* MainTyped and what the main thread needs, in two halves.
Control ==
  /\ pc \in MainPlaces /\ cur \in Jobs \cup {None}
  /\ goal \in JobStates \cup {None} /\ next \in MainPlaces \cup {None}
  /\ JobInHand /\ WriteReady
Lists ==
  /\ todo \in SUBSET Jobs /\ plan \in [Jobs -> RecoveryActions \cup {None}]
  /\ batch \in SUBSET Commands /\ touched \in SUBSET Repos
  /\ PlansReady

\* Writing one entry of a table, or none, leaves a table.
LEMMA Update ==
  ASSUME NEW S, NEW T, NEW f \in [S -> T], NEW x, NEW v \in T
  PROVE  [f EXCEPT ![x] = v] \in [S -> T]
OBVIOUS

\* An attempt that exists is one of Attempts.
LEMMA LatestAttempt ==
  ASSUME TypeOK, NEW j \in Jobs, attempts[j] > 0
  PROVE  Latest(j) \in Attempts
BY ConstantsAssumption DEF TypeOK, TablesTyped, Latest, Attempts

\* The tables keep their types ...
LEMMA TablesStep ==
  ASSUME Typed, [Next]_vars PROVE TablesTyped'
<1>. QED
  <2>. USE ConstantsAssumption DEF Typed, TypeOK, TablesTyped, dbVars
  <2>1. CASE PollCommands
    BY <2>1 DEF PollCommands, Goto
  <2>2. CASE WriteState
    <3>1. goal \in JobStates
      BY <2>2 DEF WriteState, WriteReady
    <3>2. state' \in [Jobs -> JobStates \cup {"absent"}]
      BY <2>2, <3>1, Update DEF WriteState
    <3>. QED
      BY <2>2, <3>1, <3>2 DEF WriteState
  <2>3. ASSUME NEW r \in Repos, ClearBackoff(r) PROVE TablesTyped'
    <3>1. backedOff' \in [Repos -> BOOLEAN]
      BY <2>3, Update DEF ClearBackoff
    <3>2. backoffCount' \in [Repos -> Nat]
      BY <2>3, Update DEF ClearBackoff
    <3>. QED
      BY <2>3, <3>1, <3>2 DEF ClearBackoff
  <2>4. ASSUME NEW j \in Jobs, NEW s \in Sessions, PickJob(j, s) PROVE TablesTyped'
    <3>1. session' \in [Sessions -> SessionStates]
      BY <2>4, Update DEF PickJob, SessionStates
    <3>2. attempts' \in [Jobs -> 0..MaxAttempts]
      BY <2>4 DEF PickJob, Runnable
    <3>3. onSession' \in [Attempts -> Sessions \cup {None}]
      BY <2>4, Update DEF PickJob
    <3>. QED
      BY <2>4, <3>1, <3>2, <3>3 DEF PickJob
  <2>5. CASE OccupySession
    <3>1. Latest(cur) \in Attempts
      BY <2>5, LatestAttempt DEF OccupySession, JobInHand, AttemptPlaces,
         LoopHeads
    <3>2. session' \in [Sessions -> SessionStates]
      BY <2>5, Update DEF OccupySession, SessionStates
    <3>3. holder' \in [Sessions -> Attempts \cup {None}]
      BY <2>5, <3>1, Update DEF OccupySession
    <3>. QED
      BY <2>5, <3>1, <3>2, <3>3 DEF OccupySession
  <2>6. CASE SpawnRefused
    <3>1. Latest(cur) \in Attempts
      BY <2>6, LatestAttempt DEF SpawnRefused, JobInHand, AttemptPlaces,
         LoopHeads
    <3>2. finished' \in SUBSET Attempts
      BY <2>6, <3>1 DEF SpawnRefused
    <3>3. session' \in [Sessions -> SessionStates]
      BY <2>6, Update DEF SpawnRefused, SessionStates
    <3>. QED
      BY <2>6, <3>1, <3>2, <3>3 DEF SpawnRefused
  <2>7. CASE ReleaseSlot
    <3>1. Latest(cur) \in Attempts
      BY <2>7, LatestAttempt DEF ReleaseSlot, JobInHand, AttemptPlaces,
         LoopHeads
    <3>2. finished' \in SUBSET Attempts
      BY <2>7, <3>1 DEF ReleaseSlot
    <3>3. session' \in [Sessions -> SessionStates]
      BY <2>7, Update DEF ReleaseSlot, SessionStates
    <3>. QED
      BY <2>7, <3>1, <3>2, <3>3 DEF ReleaseSlot
  <2>8. ASSUME NEW s \in Sessions, ForkSession(s) PROVE TablesTyped'
    <3>1. [session EXCEPT ![onSession[Latest(cur)]] = "dead"]
            \in [Sessions -> SessionStates]
      BY <2>8, Update DEF ForkSession, SessionStates
    <3>2. session' \in [Sessions -> SessionStates]
      BY <2>8, <3>1, Update DEF ForkSession, SessionStates
    <3>. QED
      BY <2>8, <3>1, <3>2 DEF ForkSession
  <2>9. ASSUME NEW a \in Attempts, ReaderFinish(a) PROVE TablesTyped'
    BY <2>9 DEF ReaderFinish, Move
  <2>10. ASSUME NEW a \in Attempts, ReaderRelease(a) PROVE TablesTyped'
    <3>1. [session EXCEPT ![onSession[a]] = "idle"] \in [Sessions -> SessionStates]
      BY <2>10, Update DEF ReaderRelease, SessionStates
    <3>2. session' \in [Sessions -> SessionStates]
      BY <2>10, <3>1 DEF ReaderRelease
    <3>. QED
      BY <2>10, <3>1, <3>2 DEF ReaderRelease
  <2>11. ASSUME NEW a \in Attempts, ReaderSucceeds(a) PROVE TablesTyped'
    <3>1. state' \in [Jobs -> JobStates \cup {"absent"}]
      BY <2>11, Update DEF ReaderSucceeds, JobStates
    <3>2. backedOff' \in [Repos -> BOOLEAN]
      BY <2>11, Update DEF ReaderSucceeds
    <3>3. backoffCount' \in [Repos -> Nat]
      BY <2>11, Update DEF ReaderSucceeds
    <3>. QED
      BY <2>11, <3>1, <3>2, <3>3 DEF ReaderSucceeds
  <2>12. ASSUME NEW a \in Attempts, ReaderRateLimited(a) PROVE TablesTyped'
    <3>1. state' \in [Jobs -> JobStates \cup {"absent"}]
      BY <2>12, Update DEF ReaderRateLimited, JobStates
    <3>2. backedOff' \in [Repos -> BOOLEAN]
      BY <2>12, Update DEF ReaderRateLimited
    <3>3. backoffCount' \in [Repos -> Nat]
      BY <2>12 DEF ReaderRateLimited
    <3>. QED
      BY <2>12, <3>1, <3>2, <3>3 DEF ReaderRateLimited
  <2>13. ASSUME NEW a \in Attempts, ReaderWrites(a) PROVE TablesTyped'
    <3>1. state' \in [Jobs -> JobStates \cup {"absent"}]
      BY <2>13, Update DEF ReaderWrites, JobStates
    <3>. QED
      BY <2>13, <3>1 DEF ReaderWrites
  <2>14. ASSUME NEW j \in Jobs, CreateJob(j) PROVE TablesTyped'
    <3>1. state' \in [Jobs -> JobStates \cup {"absent"}]
      BY <2>14, Update DEF CreateJob, JobStates
    <3>. QED
      BY <2>14, <3>1 DEF CreateJob
  <2>15. ASSUME NEW c \in Commands, RequestKill(c) PROVE TablesTyped'
    BY <2>15 DEF RequestKill
  <2>16. ASSUME NEW r \in Repos, BackoffExpires(r) PROVE TablesTyped'
    BY <2>16 DEF BackoffExpires
  <2>17. CASE DaemonStarts \/ KillJob \/ ListRateLimited \/ ListFailed \/
            RecoveryDone \/ Requeue \/ EnterStarting \/ EnterRunning \/
            SpawnWorker \/ SpawnRaises \/ RegisterProcess \/ DispatchDone
            \/ SkipWatchdog \/ ListActive \/ CheckLost \/ CheckHealthy \/
            RetrySameSession \/ GiveUp \/ ReportLost \/ RecoveriesApplied
            \/ StopRequested \/ DaemonExits \/ Crash
    BY <2>17 DEF DaemonStarts, Goto, KillJob, TryTransition,
       ListRateLimited, ListFailed, RecoveryDone, Requeue, EnterStarting,
       EnterRunning, SpawnWorker, SpawnRaises, RegisterProcess,
       DispatchDone, SkipWatchdog, ListActive, ActiveJobs, CheckLost,
       CheckHealthy, RetrySameSession, GiveUp, ReportLost,
       RecoveriesApplied, StopRequested, DaemonExits, ProcessEnds, Crash
  <2>18. ASSUME NEW c \in Commands,
              NextCommand(c)
       PROVE  TablesTyped'
    BY <2>18 DEF NextCommand, Targets
  <2>19. ASSUME NEW j \in Jobs,
              KillStop(j) \/ RequeueLimited(j) \/ RequeueFailed(j)
              \/ CheckTimeout(j) \/ CheckUnfinished(j) \/
              CheckFinished(j) \/ ApplyRecovery(j)
       PROVE  TablesTyped'
    BY <2>19 DEF KillStop, StopWorker, RequeueLimited, RequeueJob,
       TryTransition, RequeueFailed, CheckTimeout, CheckUnfinished,
       CheckFinished, ApplyRecovery
  <2>20. ASSUME NEW a \in Attempts,
              StopOne(a) \/ ReaderGuard(a) \/ ReaderCheck(a) \/
              ReaderFails(a) \/ WorkerExits(a)
       PROVE  TablesTyped'
    BY <2>20 DEF StopOne, StopWorker, ReaderGuard, Move, ReaderCheck,
       ReaderFails, WorkerExits
  <2>21. CASE UNCHANGED vars
    BY <2>21 DEF vars
  <2>. QED
    BY <2>1, <2>2, <2>3, <2>4, <2>5, <2>6, <2>7, <2>8, <2>9, <2>10, <2>11,
       <2>12, <2>13, <2>14, <2>15, <2>16, <2>17, <2>18, <2>19, <2>20, <2>21
       DEF Next, MainStep, ReaderStep, Environment

\* ... so do the Workers and their readers ...
LEMMA ProcessesStep ==
  ASSUME Typed, [Next]_vars PROVE ProcessesTyped'
<1>. QED
  <2>. USE DEF Typed, TypeOK, ProcessesTyped, procVars
  <2>1. ASSUME NEW j \in Jobs, KillStop(j) PROVE ProcessesTyped'
    <3>1. worker' \in [Attempts -> WorkerStates]
      BY <2>1, Update DEF KillStop, StopWorker, WorkerStates
    <3>. QED
      BY <2>1, <3>1 DEF KillStop
  <2>2. CASE SpawnWorker
    <3>1. worker' \in [Attempts -> WorkerStates]
      BY <2>2, Update DEF SpawnWorker, WorkerStates
    <3>2. reader' \in [Attempts -> ReaderPlaces]
      BY <2>2, Update DEF SpawnWorker, ReaderPlaces
    <3>. QED
      BY <2>2, <3>1, <3>2 DEF SpawnWorker
  <2>3. CASE RegisterProcess
    <3>1. Latest(cur) \in Attempts
      BY <2>3, LatestAttempt DEF RegisterProcess, JobInHand, AttemptPlaces,
         LoopHeads
    <3>. QED
      BY <2>3, <3>1 DEF RegisterProcess
  <2>4. ASSUME NEW j \in Jobs, ApplyRecovery(j) PROVE ProcessesTyped'
    <3>1. worker' \in [Attempts -> WorkerStates]
      BY <2>4, Update DEF ApplyRecovery, StopWorker, WorkerStates
    <3>. QED
      BY <2>4, <3>1 DEF ApplyRecovery
  <2>5. CASE DaemonExits
    <3>1. reader' \in [Attempts -> ReaderPlaces]
      BY <2>5 DEF DaemonExits, ProcessEnds, ReaderPlaces
    <3>2. worker' \in [Attempts -> WorkerStates] /\ registered' \in SUBSET Attempts
      BY <2>5 DEF DaemonExits, ProcessEnds
    <3>. QED
      BY <2>5, <3>1, <3>2 DEF DaemonExits
  <2>6. ASSUME NEW a \in Attempts, StopOne(a) PROVE ProcessesTyped'
    <3>1. worker' \in [Attempts -> WorkerStates]
      BY <2>6, Update DEF StopOne, StopWorker, WorkerStates
    <3>. QED
      BY <2>6, <3>1 DEF StopOne
  <2>7. ASSUME NEW a \in Attempts, ReaderGuard(a) PROVE ProcessesTyped'
    <3>1. reader' \in [Attempts -> ReaderPlaces]
      BY <2>7, Update DEF ReaderGuard, Move, ReaderPlaces
    <3>2. registered' \in SUBSET Attempts
      BY <2>7 DEF ReaderGuard
    <3>. QED
      BY <2>7, <3>1, <3>2 DEF ReaderGuard
  <2>8. ASSUME NEW a \in Attempts, ReaderFinish(a) PROVE ProcessesTyped'
    <3>1. reader' \in [Attempts -> ReaderPlaces]
      BY <2>8, Update DEF ReaderFinish, Move, ReaderPlaces
    <3>. QED
      BY <2>8, <3>1 DEF ReaderFinish
  <2>9. ASSUME NEW a \in Attempts, ReaderRelease(a) PROVE ProcessesTyped'
    <3>1. reader' \in [Attempts -> ReaderPlaces]
      BY <2>9, Update DEF ReaderRelease, Move, ReaderPlaces
    <3>. QED
      BY <2>9, <3>1 DEF ReaderRelease
  <2>10. ASSUME NEW a \in Attempts, ReaderCheck(a) PROVE ProcessesTyped'
    <3>1. reader' \in [Attempts -> ReaderPlaces]
      BY <2>10, Update DEF ReaderCheck, Move, ReaderPlaces
    <3>. QED
      BY <2>10, <3>1 DEF ReaderCheck
  <2>11. ASSUME NEW a \in Attempts, ReaderSucceeds(a) PROVE ProcessesTyped'
    <3>1. reader' \in [Attempts -> ReaderPlaces]
      BY <2>11, Update DEF ReaderSucceeds, Move, ReaderPlaces
    <3>. QED
      BY <2>11, <3>1 DEF ReaderSucceeds
  <2>12. ASSUME NEW a \in Attempts, ReaderRateLimited(a) PROVE ProcessesTyped'
    <3>1. reader' \in [Attempts -> ReaderPlaces]
      BY <2>12, Update DEF ReaderRateLimited, Move, ReaderPlaces
    <3>. QED
      BY <2>12, <3>1 DEF ReaderRateLimited
  <2>13. ASSUME NEW a \in Attempts, ReaderFails(a) PROVE ProcessesTyped'
    <3>1. reader' \in [Attempts -> ReaderPlaces]
      BY <2>13, Update DEF ReaderFails, Move, ReaderPlaces
    <3>. QED
      BY <2>13, <3>1 DEF ReaderFails
  <2>14. ASSUME NEW a \in Attempts, ReaderWrites(a) PROVE ProcessesTyped'
    <3>1. reader' \in [Attempts -> ReaderPlaces]
      BY <2>14, Update DEF ReaderWrites, Move, ReaderPlaces
    <3>. QED
      BY <2>14, <3>1 DEF ReaderWrites
  <2>15. CASE Crash
    <3>1. reader' \in [Attempts -> ReaderPlaces]
      BY <2>15 DEF Crash, ProcessEnds, ReaderPlaces
    <3>2. worker' \in [Attempts -> WorkerStates] /\ registered' \in SUBSET Attempts
      BY <2>15 DEF Crash, ProcessEnds
    <3>. QED
      BY <2>15, <3>1, <3>2 DEF Crash
  <2>16. ASSUME NEW a \in Attempts, WorkerExits(a) PROVE ProcessesTyped'
    <3>1. worker' \in [Attempts -> WorkerStates]
      BY <2>16, Update DEF WorkerExits, WorkerStates
    <3>. QED
      BY <2>16, <3>1 DEF WorkerExits
  <2>17. CASE DaemonStarts \/ PollCommands \/ KillJob \/ WriteState \/
            ListRateLimited \/ ListFailed \/ RecoveryDone \/ Requeue \/
            EnterStarting \/ OccupySession \/ EnterRunning \/ SpawnRefused
            \/ SpawnRaises \/ DispatchDone \/ SkipWatchdog \/ ListActive
            \/ CheckLost \/ CheckHealthy \/ ReleaseSlot \/
            RetrySameSession \/ GiveUp \/ ReportLost \/ RecoveriesApplied
            \/ StopRequested
    BY <2>17 DEF DaemonStarts, Goto, PollCommands, KillJob, TryTransition,
       WriteState, ListRateLimited, ListFailed, RecoveryDone, Requeue,
       EnterStarting, OccupySession, EnterRunning, SpawnRefused,
       SpawnRaises, DispatchDone, SkipWatchdog, ListActive, ActiveJobs,
       CheckLost, CheckHealthy, ReleaseSlot, RetrySameSession, GiveUp,
       ReportLost, RecoveriesApplied, StopRequested
  <2>18. ASSUME NEW c \in Commands,
              NextCommand(c) \/ RequestKill(c)
       PROVE  ProcessesTyped'
    BY <2>18 DEF NextCommand, Targets, RequestKill
  <2>19. ASSUME NEW j \in Jobs,
              RequeueLimited(j) \/ RequeueFailed(j) \/
              CheckTimeout(j) \/ CheckUnfinished(j) \/
              CheckFinished(j) \/ CreateJob(j)
       PROVE  ProcessesTyped'
    BY <2>19 DEF RequeueLimited, RequeueJob, TryTransition, RequeueFailed,
       CheckTimeout, CheckUnfinished, CheckFinished, CreateJob
  <2>20. ASSUME NEW r \in Repos,
              ClearBackoff(r) \/ BackoffExpires(r)
       PROVE  ProcessesTyped'
    BY <2>20 DEF ClearBackoff, BackoffExpires
  <2>21. ASSUME NEW j \in Jobs, NEW s \in Sessions,
              PickJob(j, s)
       PROVE  ProcessesTyped'
    BY <2>21 DEF PickJob, Runnable
  <2>22. ASSUME NEW s \in Sessions,
              ForkSession(s)
       PROVE  ProcessesTyped'
    BY <2>22 DEF ForkSession, TryTransition
  <2>23. CASE UNCHANGED vars
    BY <2>23 DEF vars
  <2>. QED
    BY <2>1, <2>2, <2>3, <2>4, <2>5, <2>6, <2>7, <2>8, <2>9, <2>10, <2>11,
       <2>12, <2>13, <2>14, <2>15, <2>16, <2>17, <2>18, <2>19, <2>20, <2>21,
       <2>22, <2>23 DEF Next, MainStep, ReaderStep, Environment

\* ... and the bounds.
LEMMA BoundsStep ==
  ASSUME Typed, [Next]_vars PROVE BoundsTyped'
<1>. QED
  <2>. USE ConstantsAssumption DEF Typed, TypeOK, BoundsTyped, boundVars
  <2>1. ASSUME NEW j \in Jobs, CheckTimeout(j) PROVE BoundsTyped'
    BY <2>1 DEF CheckTimeout, TryTransition
  <2>2. CASE StopRequested
    BY <2>2 DEF StopRequested, Goto
  <2>3. CASE Crash
    BY <2>3 DEF Crash, ProcessEnds, Goto
  <2>4. ASSUME NEW c \in Commands, RequestKill(c) PROVE BoundsTyped'
    BY <2>4 DEF RequestKill
  <2>5. CASE DaemonStarts \/ PollCommands \/ KillJob \/ WriteState \/
            ListRateLimited \/ ListFailed \/ RecoveryDone \/ Requeue \/
            EnterStarting \/ OccupySession \/ EnterRunning \/ SpawnWorker
            \/ SpawnRefused \/ SpawnRaises \/ RegisterProcess \/
            DispatchDone \/ SkipWatchdog \/ ListActive \/ CheckLost \/
            CheckHealthy \/ RetrySameSession \/ GiveUp \/
            ReportLost \/ RecoveriesApplied \/ DaemonExits
    BY <2>5 DEF DaemonStarts, Goto, PollCommands, KillJob, TryTransition,
       WriteState, ListRateLimited, ListFailed, RecoveryDone, Requeue,
       EnterStarting, OccupySession, EnterRunning, SpawnWorker,
       SpawnRefused, SpawnRaises, RegisterProcess, DispatchDone,
       SkipWatchdog, ListActive, ActiveJobs, CheckLost, CheckHealthy,
       RetrySameSession, GiveUp, ReportLost, RecoveriesApplied,
       DaemonExits, ProcessEnds
  <2>13. CASE ReleaseSlot
    <3>1. cur \in Jobs /\ attempts[cur] > 0
      BY <2>13 DEF ReleaseSlot, JobInHand, LoopHeads, AttemptPlaces
    <3>2. Latest(cur) \in Attempts
      BY <3>1, LatestAttempt
    <3>. QED
      BY <2>13, <3>2 DEF ReleaseSlot
  <2>6. ASSUME NEW c \in Commands,
              NextCommand(c)
       PROVE  BoundsTyped'
    BY <2>6 DEF NextCommand, Targets
  <2>7. ASSUME NEW j \in Jobs,
              KillStop(j) \/ RequeueLimited(j) \/ RequeueFailed(j)
              \/ CheckUnfinished(j) \/ CheckFinished(j) \/
              ApplyRecovery(j) \/ CreateJob(j)
       PROVE  BoundsTyped'
    BY <2>7 DEF KillStop, StopWorker, RequeueLimited, RequeueJob,
       TryTransition, RequeueFailed, CheckUnfinished, CheckFinished,
       ApplyRecovery, CreateJob
  <2>8. ASSUME NEW r \in Repos,
              ClearBackoff(r) \/ BackoffExpires(r)
       PROVE  BoundsTyped'
    BY <2>8 DEF ClearBackoff, BackoffExpires
  <2>9. ASSUME NEW j \in Jobs, NEW s \in Sessions,
              PickJob(j, s)
       PROVE  BoundsTyped'
    BY <2>9 DEF PickJob, Runnable
  <2>10. ASSUME NEW s \in Sessions,
              ForkSession(s)
       PROVE  BoundsTyped'
    BY <2>10 DEF ForkSession, TryTransition
  <2>11. ASSUME NEW a \in Attempts,
              StopOne(a) \/ ReaderGuard(a) \/ ReaderFinish(a) \/
              ReaderRelease(a) \/ ReaderCheck(a) \/
              ReaderSucceeds(a) \/ ReaderRateLimited(a) \/
              ReaderFails(a) \/ ReaderWrites(a) \/ WorkerExits(a)
       PROVE  BoundsTyped'
    BY <2>11 DEF StopOne, StopWorker, ReaderGuard, Move, ReaderFinish,
       ReaderRelease, ReaderCheck, ReaderSucceeds, ReaderRateLimited,
       ReaderFails, ReaderWrites, WorkerExits
  <2>12. CASE UNCHANGED vars
    BY <2>12 DEF vars
  <2>. QED
    BY <2>1, <2>2, <2>3, <2>4, <2>5, <2>6, <2>7, <2>8, <2>9, <2>10, <2>11,
       <2>12, <2>13 DEF Next, MainStep, ReaderStep, Environment

\* Goto keeps the main thread in order when the place asks for no more than there is ...
LEMMA GoesTo ==
  ASSUME Control, NEW place \in MainPlaces \ {"write", "requeue"}, Goto(place),
         UNCHANGED attempts, UNCHANGED <<goal, next>> \/ (goal' = None /\ next' = None),
         place \notin LoopHeads => cur \in Jobs,
         place \in AttemptPlaces => attempts[cur] > 0
  PROVE  Control'
<1>1. /\ "write" \in MainPlaces
      /\ "write" \notin LoopHeads /\ "write" \notin AttemptPlaces
      /\ AttemptPlaces \cap LoopHeads = {}
  BY DEF MainPlaces, LoopHeads, AttemptPlaces
<1>. QED
  BY <1>1 DEF Control, Goto, JobInHand, WriteReady

\* ... and so does transition_job, whichever way it goes.
LEMMA Tries ==
  ASSUME Control, NEW j \in Jobs, NEW to \in JobStates \ {"rate_limited"},
         NEW good \in MainPlaces \ {"write", "requeue"},
         NEW bad \in MainPlaces \ {"write", "requeue"},
         TryTransition(j, to, good, bad), UNCHANGED attempts,
         good \in AttemptPlaces => attempts[j] > 0,
         bad \in AttemptPlaces => attempts[j] > 0
  PROVE  Control'
<1>1. /\ "write" \in MainPlaces
      /\ "write" \notin LoopHeads /\ "write" \notin AttemptPlaces
      /\ AttemptPlaces \cap LoopHeads = {}
  BY DEF MainPlaces, LoopHeads, AttemptPlaces
<1>. QED
  BY <1>1 DEF Control, TryTransition, JobInHand, WriteReady

\* The main thread stays in order.
LEMMA ControlStep ==
  ASSUME Typed, [Next]_vars PROVE Control'
<1>1. Control
  BY DEF Typed, TypeOK, MainTyped, Control
<1>2. PlansReady /\ TypeOK
  BY DEF Typed
<1>. QED
  <2>. USE <1>1, <1>2
  <2>1. CASE DaemonStarts \/ PollCommands \/ ListRateLimited \/ ListFailed \/
            RecoveryDone \/ SpawnRaises \/ RegisterProcess \/ DispatchDone \/
            SkipWatchdog \/ ListActive \/ CheckHealthy \/ RecoveriesApplied \/
            StopRequested \/ DaemonExits \/ Crash
    <3>1. \E place \in LoopHeads : Goto(place)
      BY <2>1 DEF DaemonStarts, PollCommands, ListRateLimited, ListFailed,
         RecoveryDone, SpawnRaises, RegisterProcess, DispatchDone,
         SkipWatchdog, ListActive, CheckHealthy, RecoveriesApplied,
         StopRequested, DaemonExits, Crash, ProcessEnds, LoopHeads
    <3>2. attempts' = attempts
      BY <2>1 DEF DaemonStarts, PollCommands, ListRateLimited, ListFailed,
         RecoveryDone, SpawnRaises, RegisterProcess, DispatchDone,
         SkipWatchdog, ListActive, CheckHealthy, RecoveriesApplied,
         StopRequested, DaemonExits, Crash, ProcessEnds, dbVars
    <3>3. UNCHANGED <<goal, next>> \/ (goal' = None /\ next' = None)
      BY <2>1 DEF DaemonStarts, PollCommands, ListRateLimited, ListFailed,
         RecoveryDone, SpawnRaises, RegisterProcess, DispatchDone,
         SkipWatchdog, ListActive, CheckHealthy, RecoveriesApplied,
         StopRequested, DaemonExits, Crash, ProcessEnds
    <3>4. /\ LoopHeads \subseteq MainPlaces \ {"write", "requeue"}
          /\ LoopHeads \cap AttemptPlaces = {}
      BY DEF MainPlaces, LoopHeads, AttemptPlaces
    <3>. QED
      BY <3>1, <3>2, <3>3, <3>4, GoesTo
  <2>2. CASE KillJob \/ SpawnRefused \/ RetrySameSession \/ GiveUp \/
            ReportLost
    <3>1. cur \in Jobs /\ attempts' = attempts
      BY <2>2 DEF KillJob, SpawnRefused, RetrySameSession, GiveUp,
         ReportLost, Control, JobInHand, LoopHeads, dbVars
    <3>2. \E to \in {"queued", "failed_permanent", "failed_retryable",
                    "needs_controller"},
             place \in {"command", "dispatch", "check"} :
               TryTransition(cur, to, place, place)
      BY <2>2 DEF KillJob, SpawnRefused, RetrySameSession, GiveUp,
         ReportLost
    <3>3. /\ {"queued", "failed_permanent", "failed_retryable", "needs_controller"}
                \subseteq JobStates \ {"rate_limited"}
          /\ {"command", "dispatch", "check"} \subseteq MainPlaces \ {"write", "requeue"}
          /\ {"command", "dispatch", "check"} \cap AttemptPlaces = {}
      BY DEF JobStates, MainPlaces, LoopHeads, AttemptPlaces
    <3>. QED
      BY <3>1, <3>2, <3>3, Tries
  <2>3. CASE WriteState
    <3>1. next \in MainPlaces \ {"write", "requeue"}
      BY <2>3 DEF WriteState, Control, WriteReady
    <3>2. /\ next \notin LoopHeads => cur \in Jobs
          /\ next \in AttemptPlaces => attempts[cur] > 0
      BY <2>3 DEF WriteState, Control, JobInHand, WriteReady, AttemptPlaces,
         LoopHeads
    <3>. QED
      BY <2>3, <3>1, <3>2, GoesTo DEF WriteState, dbVars
  <2>4. ASSUME NEW j \in Jobs, KillStop(j) PROVE Control'
    BY <2>4 DEF KillStop, dbVars, Control, JobInHand, WriteReady,
       AttemptPlaces, MainPlaces, LoopHeads
  <2>5. ASSUME NEW j \in Jobs, RequeueLimited(j) PROVE Control'
    <3>1. attempts' = attempts
      BY <2>5 DEF RequeueLimited, dbVars
    <3>2. "requeue_limited" \in LoopHeads /\ "stopping" \in LoopHeads
          /\ "write" \notin LoopHeads
      BY DEF LoopHeads
    <3>3. {"failed_permanent", "queued"} \subseteq JobStates \ {"rate_limited"}
      BY DEF JobStates
    <3>4. LoopHeads \subseteq MainPlaces /\ LoopHeads \cap AttemptPlaces = {}
      BY DEF MainPlaces, LoopHeads, AttemptPlaces
    <3>5. CASE UNCHANGED <<pc, cur, goal, next>>
      BY <3>1, <3>5 DEF Control, JobInHand, WriteReady
    <3>6. CASE TryTransition(j, "failed_permanent", "requeue_limited", "stopping")
      BY <3>1, <3>2, <3>3, <3>4, <3>6, Tries
    <3>7. CASE /\ pc' \in {"requeue", "requeue_limited"} /\ goal' = goal
               /\ \/ pc' = "requeue" /\ cur' = j /\ next' = "requeue_limited"
                  \/ pc' = "requeue_limited" /\ cur' = None /\ next' = next
      BY <3>1, <3>7
         DEF Control, JobInHand, WriteReady, MainPlaces, LoopHeads, AttemptPlaces
    <3>. QED
      BY <2>5, <3>5, <3>6, <3>7 DEF RequeueLimited, RequeueJob
  <2>6. ASSUME NEW j \in Jobs, RequeueFailed(j) PROVE Control'
    <3>1. attempts' = attempts
      BY <2>6 DEF RequeueFailed, dbVars
    <3>2. "requeue_failed" \in LoopHeads /\ "stopping" \in LoopHeads
          /\ "write" \notin LoopHeads
      BY DEF LoopHeads
    <3>3. {"failed_permanent", "queued"} \subseteq JobStates \ {"rate_limited"}
      BY DEF JobStates
    <3>4. LoopHeads \subseteq MainPlaces /\ LoopHeads \cap AttemptPlaces = {}
      BY DEF MainPlaces, LoopHeads, AttemptPlaces
    <3>5. CASE UNCHANGED <<pc, cur, goal, next>>
      BY <3>1, <3>5 DEF Control, JobInHand, WriteReady
    <3>6. CASE TryTransition(j, "failed_permanent", "requeue_failed", "stopping")
      BY <3>1, <3>2, <3>3, <3>4, <3>6, Tries
    <3>7. CASE /\ pc' \in {"requeue", "requeue_failed"} /\ goal' = goal
               /\ \/ pc' = "requeue" /\ cur' = j /\ next' = "requeue_failed"
                  \/ pc' = "requeue_failed" /\ cur' = None /\ next' = next
      BY <3>1, <3>7
         DEF Control, JobInHand, WriteReady, MainPlaces, LoopHeads, AttemptPlaces
    <3>. QED
      BY <2>6, <3>5, <3>6, <3>7 DEF RequeueFailed, RequeueJob
  <2>7. CASE Requeue
    <3>1. /\ cur \in Jobs /\ attempts' = attempts
          /\ next \in {"requeue_limited", "requeue_failed"}
      BY <2>7 DEF Requeue, dbVars, Control, JobInHand, LoopHeads,
         WriteReady
    <3>2. \/ pc' = "write" /\ goal' = "queued" /\ cur' = cur /\ next' = next
          \/ pc' = "stopping" /\ cur' = None /\ next' = None /\ goal' = goal
      BY <2>7 DEF Requeue
    <3>. QED
      BY <3>1, <3>2 DEF Control, JobInHand, WriteReady, MainPlaces,
         LoopHeads, AttemptPlaces, JobStates
  <2>8. ASSUME NEW j \in Jobs, NEW s \in Sessions, PickJob(j, s) PROVE Control'
    <3>1. /\ pc' = "enter_starting" /\ cur' = j /\ attempts'[j] > 0
          /\ goal' = goal /\ next' = next
      BY <2>8 DEF PickJob, TypeOK, TablesTyped
    <3>. QED
      BY <3>1 DEF Control, JobInHand, WriteReady, MainPlaces, LoopHeads,
         AttemptPlaces
  <2>9. CASE EnterStarting
    <3>1. cur \in Jobs /\ attempts' = attempts
      BY <2>9 DEF EnterStarting, dbVars, Control, JobInHand, LoopHeads
    <3>2. "starting" \in JobStates \ {"rate_limited"}
      BY DEF JobStates
    <3>3. {"dispatch", "occupy"} \subseteq MainPlaces \ {"write", "requeue"}
      BY DEF MainPlaces, LoopHeads
    <3>4. /\ "occupy" \in AttemptPlaces => attempts[cur] > 0
          /\ "dispatch" \in AttemptPlaces => attempts[cur] > 0
      BY <2>9 DEF EnterStarting, Control, JobInHand, AttemptPlaces,
         LoopHeads
    <3>. QED
      BY <2>9, <3>1, <3>2, <3>3, <3>4, Tries DEF EnterStarting
  <2>10. CASE OccupySession
    <3>1. "enter_running" \in MainPlaces \ {"write", "requeue"}
      BY DEF MainPlaces, LoopHeads
    <3>2. /\ "enter_running" \notin LoopHeads => cur \in Jobs
          /\ "enter_running" \in AttemptPlaces => attempts[cur] > 0
      BY <2>10 DEF OccupySession, Control, JobInHand, WriteReady,
         AttemptPlaces, LoopHeads
    <3>. QED
      BY <2>10, <3>1, <3>2, GoesTo DEF OccupySession, dbVars
  <2>11. CASE EnterRunning
    <3>1. cur \in Jobs /\ attempts' = attempts
      BY <2>11 DEF EnterRunning, dbVars, Control, JobInHand, LoopHeads
    <3>2. "running" \in JobStates \ {"rate_limited"}
      BY DEF JobStates
    <3>3. {"dispatch", "spawn"} \subseteq MainPlaces \ {"write", "requeue"}
      BY DEF MainPlaces, LoopHeads
    <3>4. /\ "spawn" \in AttemptPlaces => attempts[cur] > 0
          /\ "dispatch" \in AttemptPlaces => attempts[cur] > 0
      BY <2>11 DEF EnterRunning, Control, JobInHand, AttemptPlaces,
         LoopHeads
    <3>. QED
      BY <2>11, <3>1, <3>2, <3>3, <3>4, Tries DEF EnterRunning
  <2>12. CASE SpawnWorker
    <3>1. "register" \in MainPlaces \ {"write", "requeue"}
      BY DEF MainPlaces, LoopHeads
    <3>2. /\ "register" \notin LoopHeads => cur \in Jobs
          /\ "register" \in AttemptPlaces => attempts[cur] > 0
      BY <2>12 DEF SpawnWorker, Control, JobInHand, WriteReady,
         AttemptPlaces, LoopHeads
    <3>. QED
      BY <2>12, <3>1, <3>2, GoesTo DEF SpawnWorker, dbVars
  <2>13. ASSUME NEW j \in Jobs, CheckTimeout(j) PROVE Control'
    <3>1. j \in Jobs /\ attempts' = attempts
      BY <2>13 DEF CheckTimeout, dbVars, Control, JobInHand, LoopHeads
    <3>2. "timed_out" \in JobStates \ {"rate_limited"}
      BY DEF JobStates
    <3>3. "check" \in MainPlaces \ {"write", "requeue"}
      BY DEF MainPlaces, LoopHeads
    <3>4. /\ "check" \in AttemptPlaces => attempts[j] > 0
          /\ "check" \in AttemptPlaces => attempts[j] > 0
      BY <2>13 DEF CheckTimeout, Control, JobInHand, AttemptPlaces,
         LoopHeads
    <3>. QED
      BY <2>13, <3>1, <3>2, <3>3, <3>4, Tries DEF CheckTimeout
  <2>14. ASSUME NEW j \in Jobs, CheckUnfinished(j) PROVE Control'
    <3>1. cur' = j /\ attempts'[j] > 0 /\ goal' = goal /\ next' = next
      BY <2>14 DEF CheckUnfinished, dbVars
    <3>2. pc' \in {"look"}
      BY <2>14 DEF CheckUnfinished
    <3>. QED
      BY <3>1, <3>2 DEF Control, JobInHand, WriteReady, MainPlaces,
         LoopHeads, AttemptPlaces
  <2>15. CASE CheckLost
    <3>1. cur \in Jobs /\ attempts' = attempts
      BY <2>15 DEF CheckLost, dbVars, Control, JobInHand, LoopHeads
    <3>2. "lost" \in JobStates \ {"rate_limited"}
      BY DEF JobStates
    <3>3. "check" \in MainPlaces \ {"write", "requeue"}
      BY DEF MainPlaces, LoopHeads
    <3>4. /\ "check" \in AttemptPlaces => attempts[cur] > 0
          /\ "check" \in AttemptPlaces => attempts[cur] > 0
      BY <2>15 DEF CheckLost, Control, JobInHand, AttemptPlaces, LoopHeads
    <3>. QED
      BY <2>15, <3>1, <3>2, <3>3, <3>4, Tries DEF CheckLost
  <2>16. ASSUME NEW j \in Jobs, ApplyRecovery(j) PROVE Control'
    <3>1. cur' = j /\ attempts'[j] > 0 /\ goal' = goal /\ next' = next
      BY <2>16 DEF ApplyRecovery, dbVars, PlansReady
    <3>2. pc' \in {"join", "act"}
      BY <2>16 DEF ApplyRecovery
    <3>. QED
      BY <3>1, <3>2 DEF Control, JobInHand, WriteReady, MainPlaces,
         LoopHeads, AttemptPlaces
  <2>17. CASE ReleaseSlot
    <3>1. "act" \in MainPlaces \ {"write", "requeue"}
      BY DEF MainPlaces, LoopHeads
    <3>2. /\ "act" \notin LoopHeads => cur \in Jobs
          /\ "act" \in AttemptPlaces => attempts[cur] > 0
      BY <2>17 DEF ReleaseSlot, Control, JobInHand, WriteReady,
         AttemptPlaces, LoopHeads
    <3>. QED
      BY <2>17, <3>1, <3>2, GoesTo DEF ReleaseSlot, dbVars
  <2>18. ASSUME NEW s \in Sessions, ForkSession(s) PROVE Control'
    <3>1. cur \in Jobs /\ attempts' = attempts
      BY <2>18 DEF ForkSession, dbVars, Control, JobInHand, LoopHeads
    <3>2. "queued" \in JobStates \ {"rate_limited"}
      BY DEF JobStates
    <3>3. {"check", "give_up"} \subseteq MainPlaces \ {"write", "requeue"}
      BY DEF MainPlaces, LoopHeads
    <3>4. /\ "check" \in AttemptPlaces => attempts[cur] > 0
          /\ "give_up" \in AttemptPlaces => attempts[cur] > 0
      BY <2>18 DEF ForkSession, Control, JobInHand, AttemptPlaces, LoopHeads
    <3>. QED
      BY <2>18, <3>1, <3>2, <3>3, <3>4, Tries DEF ForkSession
  <2>19. ASSUME NEW c \in Commands,
              NextCommand(c) \/ RequestKill(c)
       PROVE  Control'
    BY <2>19 DEF Control, JobInHand, WriteReady, dbVars, mainVars, NextCommand,
       Targets, RequestKill
  <2>20. ASSUME NEW r \in Repos,
              ClearBackoff(r) \/ BackoffExpires(r)
       PROVE  Control'
    BY <2>20 DEF Control, JobInHand, WriteReady, dbVars, mainVars, ClearBackoff,
       BackoffExpires
  <2>21. ASSUME NEW j \in Jobs,
              CheckFinished(j) \/ CreateJob(j)
       PROVE  Control'
    BY <2>21 DEF Control, JobInHand, WriteReady, dbVars, mainVars,
       CheckFinished, CreateJob
  <2>22. ASSUME NEW a \in Attempts,
              StopOne(a) \/ ReaderGuard(a) \/ ReaderFinish(a) \/
              ReaderRelease(a) \/ ReaderCheck(a) \/
              ReaderSucceeds(a) \/ ReaderRateLimited(a) \/
              ReaderFails(a) \/ ReaderWrites(a) \/ WorkerExits(a)
       PROVE  Control'
    BY <2>22 DEF Control, JobInHand, WriteReady, dbVars, mainVars, StopOne,
       StopWorker, ReaderGuard, Move, ReaderFinish, ReaderRelease, ReaderCheck,
       ReaderSucceeds, ReaderRateLimited, ReaderFails, ReaderWrites, WorkerExits
  <2>23. CASE UNCHANGED vars
    BY <2>23 DEF Control, JobInHand, WriteReady, dbVars, mainVars, vars
  <2>. QED
    BY <2>1, <2>2, <2>3, <2>4, <2>5, <2>6, <2>7, <2>8, <2>9, <2>10, <2>11,
       <2>12, <2>13, <2>14, <2>15, <2>16, <2>17, <2>18, <2>19, <2>20, <2>21,
       <2>22, <2>23 DEF Next, MainStep, ReaderStep, Environment

\* So do its lists.
LEMMA ListsStep ==
  ASSUME Typed, [Next]_vars PROVE Lists'
<1>1. Lists /\ JobInHand /\ TypeOK
  BY DEF Typed, TypeOK, MainTyped, Lists
<1>. QED
  <2>. USE <1>1, ConstantsAssumption DEF Lists
  <2>1. CASE PollCommands
    BY <2>1 DEF PlansReady, TypeOK, TablesTyped, PollCommands, Goto
  <2>2. ASSUME NEW c \in Commands, NextCommand(c) PROVE Lists'
    BY <2>2 DEF PlansReady, Commands, dbVars, NextCommand, Targets
  <2>3. ASSUME NEW j \in Jobs, KillStop(j) PROVE Lists'
    BY <2>3 DEF PlansReady, dbVars, KillStop, StopWorker
  <2>4. CASE ListRateLimited
    BY <2>4 DEF PlansReady, dbVars, ListRateLimited, Goto
  <2>5. CASE ListFailed
    BY <2>5 DEF PlansReady, dbVars, ListFailed, Goto
  <2>6. ASSUME NEW j \in Jobs, RequeueLimited(j) PROVE Lists'
    BY <2>6 DEF PlansReady, dbVars, RequeueLimited, RequeueJob, TryTransition
  <2>7. ASSUME NEW j \in Jobs, RequeueFailed(j) PROVE Lists'
    BY <2>7 DEF PlansReady, dbVars, RequeueFailed, RequeueJob, TryTransition
  <2>8. ASSUME NEW r \in Repos, ClearBackoff(r) PROVE Lists'
    BY <2>8 DEF PlansReady, dbVars, ClearBackoff
  <2>9. ASSUME NEW j \in Jobs, NEW s \in Sessions, PickJob(j, s) PROVE Lists'
    BY <2>9 DEF PlansReady, TypeOK, TablesTyped, PickJob, Runnable
  <2>10. CASE ListActive
    BY <2>10 DEF PlansReady, dbVars, ListActive, Goto, ActiveJobs
  <2>11. ASSUME NEW j \in Jobs, CheckTimeout(j) PROVE Lists'
    <3>1. plan' \in [Jobs -> RecoveryActions \cup {None}]
      BY <2>11, Update DEF CheckTimeout, RecoveryActions
    <3>2. PlansReady'
      BY <2>11 DEF CheckTimeout, PlansReady, dbVars
    <3>3. UNCHANGED <<batch, touched>> /\ todo' \in SUBSET Jobs
      BY <2>11 DEF CheckTimeout
    <3>. QED
      BY <2>11, <3>1, <3>2, <3>3 DEF CheckTimeout
  <2>12. ASSUME NEW j \in Jobs, CheckUnfinished(j) PROVE Lists'
    BY <2>12 DEF PlansReady, dbVars, CheckUnfinished
  <2>13. ASSUME NEW j \in Jobs, CheckFinished(j) PROVE Lists'
    BY <2>13 DEF PlansReady, dbVars, CheckFinished
  <2>14. CASE CheckLost
    <3>1. plan' \in [Jobs -> RecoveryActions \cup {None}]
      BY <2>14, Update DEF CheckLost, RecoveryActions
    <3>2. PlansReady'
      BY <2>14 DEF CheckLost, PlansReady, dbVars, JobInHand, AttemptPlaces
    <3>3. UNCHANGED <<batch, touched>> /\ todo' \in SUBSET Jobs
      BY <2>14 DEF CheckLost
    <3>. QED
      BY <2>14, <3>1, <3>2, <3>3 DEF CheckLost
  <2>15. CASE RetrySameSession
    <3>1. plan' \in [Jobs -> RecoveryActions \cup {None}]
      BY <2>15, Update DEF RetrySameSession
    <3>2. PlansReady'
      BY <2>15 DEF RetrySameSession, PlansReady, dbVars
    <3>3. UNCHANGED <<todo, batch, touched>>
      BY <2>15 DEF RetrySameSession
    <3>. QED
      BY <2>15, <3>1, <3>2, <3>3 DEF RetrySameSession
  <2>16. CASE ReportLost
    <3>1. plan' \in [Jobs -> RecoveryActions \cup {None}]
      BY <2>16, Update DEF ReportLost
    <3>2. PlansReady'
      BY <2>16 DEF ReportLost, PlansReady, dbVars
    <3>3. UNCHANGED <<todo, batch, touched>>
      BY <2>16 DEF ReportLost
    <3>. QED
      BY <2>16, <3>1, <3>2, <3>3 DEF ReportLost
  <2>17. ASSUME NEW s \in Sessions, ForkSession(s) PROVE Lists'
    <3>1. plan' \in [Jobs -> RecoveryActions \cup {None}]
      BY <2>17, Update DEF ForkSession
    <3>2. PlansReady'
      BY <2>17 DEF ForkSession, PlansReady, dbVars
    <3>3. UNCHANGED <<todo, batch, touched>>
      BY <2>17 DEF ForkSession
    <3>. QED
      BY <2>17, <3>1, <3>2, <3>3 DEF ForkSession
  <2>18. CASE DaemonExits
    BY <2>18 DEF PlansReady, dbVars, DaemonExits, ProcessEnds, Goto
  <2>19. CASE Crash
    BY <2>19 DEF PlansReady, dbVars, Crash, ProcessEnds, Goto
  <2>20. CASE DaemonStarts \/ KillJob \/ WriteState \/ RecoveryDone \/
            Requeue \/ EnterStarting \/ OccupySession \/ EnterRunning \/
            SpawnWorker \/ SpawnRefused \/ SpawnRaises \/ RegisterProcess
            \/ DispatchDone \/ SkipWatchdog \/ CheckHealthy \/ ReleaseSlot
            \/ GiveUp \/ RecoveriesApplied \/ StopRequested
    BY <2>20 DEF PlansReady, dbVars, mainVars, DaemonStarts, Goto, KillJob,
       TryTransition, WriteState, RecoveryDone, Requeue, EnterStarting,
       OccupySession, EnterRunning, SpawnWorker, SpawnRefused, SpawnRaises,
       RegisterProcess, DispatchDone, SkipWatchdog, CheckHealthy, ReleaseSlot,
       GiveUp, RecoveriesApplied, StopRequested
  <2>21. ASSUME NEW j \in Jobs,
              ApplyRecovery(j) \/ CreateJob(j)
       PROVE  Lists'
    BY <2>21 DEF PlansReady, dbVars, mainVars, ApplyRecovery, StopWorker, CreateJob
  <2>22. ASSUME NEW a \in Attempts,
              StopOne(a) \/ ReaderGuard(a) \/ ReaderFinish(a) \/
              ReaderRelease(a) \/ ReaderCheck(a) \/
              ReaderSucceeds(a) \/ ReaderRateLimited(a) \/
              ReaderFails(a) \/ ReaderWrites(a) \/ WorkerExits(a)
       PROVE  Lists'
    BY <2>22 DEF PlansReady, dbVars, mainVars, StopOne, StopWorker, ReaderGuard,
       Move, ReaderFinish, ReaderRelease, ReaderCheck, ReaderSucceeds,
       ReaderRateLimited, ReaderFails, ReaderWrites, WorkerExits
  <2>23. ASSUME NEW c \in Commands,
              RequestKill(c)
       PROVE  Lists'
    BY <2>23 DEF PlansReady, dbVars, mainVars, RequestKill
  <2>24. ASSUME NEW r \in Repos,
              BackoffExpires(r)
       PROVE  Lists'
    BY <2>24 DEF PlansReady, dbVars, mainVars, BackoffExpires
  <2>25. CASE UNCHANGED vars
    BY <2>25 DEF PlansReady, dbVars, mainVars, vars
  <2>. QED
    BY <2>1, <2>2, <2>3, <2>4, <2>5, <2>6, <2>7, <2>8, <2>9, <2>10, <2>11,
       <2>12, <2>13, <2>14, <2>15, <2>16, <2>17, <2>18, <2>19, <2>20, <2>21,
       <2>22, <2>23, <2>24, <2>25 DEF Next, MainStep, ReaderStep,
       Environment

\* Nothing is there yet, and the daemon is down.
LEMMA TypedInit == Init => Typed
<1>. SUFFICES ASSUME Init PROVE Typed
  OBVIOUS
<1>. USE ConstantsAssumption DEF Init
<1>1. TablesTyped
  BY DEF TablesTyped, SessionStates
<1>2. ProcessesTyped
  BY DEF ProcessesTyped, WorkerStates, ReaderPlaces
<1>3. MainTyped
  BY DEF MainTyped, MainPlaces, LoopHeads
<1>4. BoundsTyped
  BY DEF BoundsTyped
<1>5. JobInHand /\ PlansReady /\ WriteReady
  BY DEF JobInHand, PlansReady, WriteReady, LoopHeads, AttemptPlaces
<1>. QED
  BY <1>1, <1>2, <1>3, <1>4, <1>5 DEF Typed, TypeOK

\* Every reachable state is typed and has its main thread in order.
LEMMA TypedInvariant == Spec => []Typed
<1>1. Typed /\ [Next]_vars => Typed'
  BY TablesStep, ProcessesStep, ControlStep, ListsStep, BoundsStep
     DEF Typed, TypeOK, MainTyped, Control, Lists
<1>. QED
  BY <1>1, TypedInit, PTL DEF Spec

\* Type correctness: rows, processes and the main thread's variables keep their
\* types, whatever interleaves with what.
THEOREM TypeCorrect == Spec => []TypeOK
<1>1. Typed => TypeOK
  BY DEF Typed
<1>. QED
  BY <1>1, TypedInvariant, PTL

-----------------------------------------------------------------------------
(* Backoff.                                                                 *)

\* The backoff of a repo with a job in rate_limited is never wiped: clears look
\* for such jobs in the transaction that clears, the job enters the state in
\* the transaction that counts, and no unconditional write enters it.
LEMMA BackoffStep ==
  ASSUME Typed, BackoffRecorded, [Next]_vars PROVE BackoffRecorded'
<1>1. TablesTyped /\ WriteReady
  BY DEF Typed, TypeOK
<1>. QED
  <2>. USE <1>1, ConstantsAssumption DEF BackoffRecorded
  <2>1. CASE WriteState
    <3>1. goal # "rate_limited" /\ backoffCount' = backoffCount
      BY <2>1 DEF WriteState, WriteReady
    <3>2. \A i \in Jobs : state'[i] = "rate_limited" => state[i] = "rate_limited"
      BY <2>1, <3>1 DEF WriteState, TablesTyped
    <3>. QED
      BY <3>1, <3>2
  <2>2. ASSUME NEW r \in Repos, ClearBackoff(r) PROVE BackoffRecorded'
    <3>1. state' = state
      BY <2>2 DEF ClearBackoff
    <3>2. \A i \in Jobs : state[i] = "rate_limited" =>
                             backoffCount'[RepoOf[i]] = backoffCount[RepoOf[i]]
      BY <2>2 DEF ClearBackoff, RateLimitedIn, TablesTyped
    <3>. QED
      BY <3>1, <3>2
  <2>3. ASSUME NEW a \in Attempts, ReaderSucceeds(a) PROVE BackoffRecorded'
    <3>1. \A i \in Jobs : state'[i] = "rate_limited" => state[i] = "rate_limited"
      BY <2>3 DEF ReaderSucceeds, TablesTyped
    <3>2. \A i \in Jobs : state[i] = "rate_limited" =>
                             backoffCount'[RepoOf[i]] = backoffCount[RepoOf[i]]
      BY <2>3 DEF ReaderSucceeds, RateLimitedIn, TablesTyped
    <3>. QED
      BY <3>1, <3>2
  <2>4. ASSUME NEW a \in Attempts, ReaderRateLimited(a) PROVE BackoffRecorded'
    <3>1. CASE UNCHANGED <<state, backoffCount>>
      BY <3>1
    <3>2. CASE CanTransition(state[a[1]], "rate_limited")
      <4>1. a[1] \in Jobs /\ backoffCount'[RepoOf[a[1]]] > 0
        BY <2>4, <3>2 DEF ReaderRateLimited, TablesTyped, Attempts
      <4>2. \A i \in Jobs : backoffCount'[RepoOf[i]] >= backoffCount[RepoOf[i]]
        BY <2>4, <3>2 DEF ReaderRateLimited, TablesTyped
      <4>3. \A i \in Jobs : i # a[1] => state'[i] = state[i]
        BY <2>4, <3>2 DEF ReaderRateLimited, TablesTyped
      <4>4. backoffCount' \in [Repos -> Nat]
        BY TablesStep DEF TablesTyped
      <4>. QED
        BY <4>1, <4>2, <4>3, <4>4 DEF TablesTyped
    <3>. QED
      BY <2>4, <3>1, <3>2 DEF ReaderRateLimited
  <2>5. ASSUME NEW a \in Attempts, ReaderWrites(a) PROVE BackoffRecorded'
    <3>1. \A i \in Jobs : state'[i] = "rate_limited" => state[i] = "rate_limited"
      BY <2>5 DEF ReaderWrites, TablesTyped
    <3>. QED
      BY <2>5, <3>1 DEF ReaderWrites
  <2>6. ASSUME NEW j \in Jobs, CreateJob(j) PROVE BackoffRecorded'
    <3>1. \A i \in Jobs : state'[i] = "rate_limited" => state[i] = "rate_limited"
      BY <2>6 DEF CreateJob, TablesTyped
    <3>. QED
      BY <2>6, <3>1 DEF CreateJob
  <2>7. CASE DaemonStarts \/ PollCommands \/ KillJob \/ ListRateLimited \/
            ListFailed \/ RecoveryDone \/ Requeue \/ EnterStarting \/
            OccupySession \/ EnterRunning \/ SpawnWorker \/ SpawnRefused
            \/ SpawnRaises \/ RegisterProcess \/ DispatchDone \/
            SkipWatchdog \/ ListActive \/ CheckLost \/ CheckHealthy \/
            ReleaseSlot \/ RetrySameSession \/ GiveUp \/ ReportLost \/
            RecoveriesApplied \/ StopRequested \/ DaemonExits \/ Crash
    BY <2>7 DEF dbVars, DaemonStarts, Goto, PollCommands, KillJob, TryTransition,
       ListRateLimited, ListFailed, RecoveryDone, Requeue, EnterStarting,
       OccupySession, EnterRunning, SpawnWorker, SpawnRefused, SpawnRaises,
       RegisterProcess, DispatchDone, SkipWatchdog, ListActive, ActiveJobs,
       CheckLost, CheckHealthy, ReleaseSlot, RetrySameSession, GiveUp,
       ReportLost, RecoveriesApplied, StopRequested, DaemonExits,
       ProcessEnds, Crash
  <2>8. ASSUME NEW c \in Commands,
              NextCommand(c) \/ RequestKill(c)
       PROVE  BackoffRecorded'
    BY <2>8 DEF dbVars, NextCommand, Targets, RequestKill
  <2>9. ASSUME NEW j \in Jobs,
              KillStop(j) \/ RequeueLimited(j) \/ RequeueFailed(j)
              \/ CheckTimeout(j) \/ CheckUnfinished(j) \/
              CheckFinished(j) \/ ApplyRecovery(j)
       PROVE  BackoffRecorded'
    BY <2>9 DEF dbVars, KillStop, StopWorker, RequeueLimited, RequeueJob,
       TryTransition, RequeueFailed, CheckTimeout, CheckUnfinished,
       CheckFinished, ApplyRecovery
  <2>10. ASSUME NEW j \in Jobs, NEW s \in Sessions,
              PickJob(j, s)
       PROVE  BackoffRecorded'
    BY <2>10 DEF dbVars, PickJob, Runnable
  <2>11. ASSUME NEW s \in Sessions,
              ForkSession(s)
       PROVE  BackoffRecorded'
    BY <2>11 DEF dbVars, ForkSession, TryTransition
  <2>12. ASSUME NEW a \in Attempts,
              StopOne(a) \/ ReaderGuard(a) \/ ReaderFinish(a) \/
              ReaderRelease(a) \/ ReaderCheck(a) \/ ReaderFails(a)
              \/ WorkerExits(a)
       PROVE  BackoffRecorded'
    BY <2>12 DEF dbVars, StopOne, StopWorker, ReaderGuard, Move, ReaderFinish,
       ReaderRelease, ReaderCheck, ReaderFails, WorkerExits
  <2>13. ASSUME NEW r \in Repos,
              BackoffExpires(r)
       PROVE  BackoffRecorded'
    BY <2>13 DEF dbVars, BackoffExpires
  <2>14. CASE UNCHANGED vars
    BY <2>14 DEF dbVars, vars
  <2>. QED
    BY <2>1, <2>2, <2>3, <2>4, <2>5, <2>6, <2>7, <2>8, <2>9, <2>10, <2>11,
       <2>12, <2>13, <2>14 DEF Next, MainStep, ReaderStep, Environment

\* A job waiting in rate_limited has its repo's backoff on record, however many
\* jobs, repos, crashes and kills there are.
THEOREM BackoffKept == Spec => []BackoffRecorded
<1>1. Init => BackoffRecorded
  BY DEF Init, BackoffRecorded
<1>. QED
  BY <1>1, BackoffStep, TypedInvariant, PTL DEF Spec

-----------------------------------------------------------------------------
(* The concurrency limits.  The count of active jobs is not inductive: a    *)
(* job picked for dispatch is counted only once its row says starting.  The *)
(* slots taken are the active jobs and the one being dispatched.            *)

Dispatching == {"enter_starting", "occupy", "enter_running"}

\* The job whose row the main thread is about to make active.
Reserved ==
  IF pc \in Dispatching \/ (pc = "write" /\ goal \in ActiveStates) THEN {cur} ELSE {}

Slots == ActiveJobs \cup Reserved
SlotsIn(r) == {j \in Slots : RepoOf[j] = r}

\* Dispatch is the only place that returns to a dispatching place, and it does
\* so after the write of an active state.
WriteReserves == pc = "write" /\ next \in Dispatching => goal \in ActiveStates

WithinLimits ==
  /\ Cardinality(Slots) <= GlobalMax
  /\ \A r \in Repos : Cardinality(SlotsIn(r)) <= MaxConcurrency[r]
  /\ WriteReserves

\* Slots are jobs, and fewer slots than before keep the limits.
LEMMA FewerSlots ==
  ASSUME Typed, WithinLimits, Typed', Slots' \subseteq Slots, WriteReserves'
  PROVE  WithinLimits'
<1>1. IsFiniteSet(Slots)
  <2>1. Slots \subseteq Jobs
    BY DEF Typed, JobInHand, Slots, ActiveJobs, Reserved, Dispatching, LoopHeads
  <2>. QED
    BY <2>1, ConstantsAssumption, FS_Subset
<1>2. Cardinality(Slots') <= GlobalMax
  BY <1>1, FS_Subset, FS_CardinalityType, ConstantsAssumption DEF WithinLimits
<1>3. ASSUME NEW r \in Repos PROVE Cardinality(SlotsIn(r)') <= MaxConcurrency[r]
  <2>1. SlotsIn(r)' \subseteq SlotsIn(r) /\ SlotsIn(r) \subseteq Slots
    BY DEF SlotsIn
  <2>2. IsFiniteSet(SlotsIn(r))
    BY <1>1, <2>1, FS_Subset
  <2>3. /\ Cardinality(SlotsIn(r)') <= Cardinality(SlotsIn(r))
        /\ Cardinality(SlotsIn(r)') \in Nat /\ Cardinality(SlotsIn(r)) \in Nat
    BY <2>1, <2>2, FS_Subset, FS_CardinalityType
  <2>4. Cardinality(SlotsIn(r)) <= MaxConcurrency[r] /\ MaxConcurrency[r] \in Nat
    BY ConstantsAssumption DEF WithinLimits
  <2>. QED
    BY <2>3, <2>4
<1>. QED
  BY <1>2, <1>3 DEF WithinLimits

\* One more element is at most one more.
LEMMA AddOne ==
  ASSUME NEW S, IsFiniteSet(S), NEW x
  PROVE  /\ Cardinality(S) \in Nat /\ Cardinality(S \cup {x}) \in Nat
         /\ Cardinality(S \cup {x}) <= Cardinality(S) + 1
<1>1. IsFiniteSet(S \cup {x})
  BY FS_AddElement
<1>2. Cardinality(S) \in Nat /\ Cardinality(S \cup {x}) \in Nat
  BY <1>1, FS_CardinalityType
<1>3. Cardinality(S \cup {x}) = IF x \in S THEN Cardinality(S) ELSE Cardinality(S) + 1
  BY FS_AddElement
<1>. QED
  BY <1>2, <1>3
\* Dispatch takes a slot only after can_run has seen one free.
LEMMA PickTakesFreeSlot ==
  ASSUME Typed, WithinLimits, Typed', NEW j \in Jobs, NEW s \in Sessions, PickJob(j, s)
  PROVE  WithinLimits'
<1>. DEFINE r0 == RepoOf[j]
<1>1. /\ Slots = ActiveJobs /\ Slots' = ActiveJobs \cup {j}
      /\ WriteReserves'
  BY DEF PickJob, Slots, ActiveJobs, Reserved, Dispatching, WriteReserves
<1>2. Slots \subseteq Jobs /\ IsFiniteSet(Slots) /\ r0 \in Repos
  BY <1>1, ConstantsAssumption, FS_Subset DEF ActiveJobs
<1>3. Cardinality(Slots) < GlobalMax /\ Cardinality(SlotsIn(r0)) < MaxConcurrency[r0]
  BY <1>1 DEF PickJob, Runnable, CanRun, ActiveIn, SlotsIn
<1>4. Cardinality(Slots') <= GlobalMax
  <2>1. /\ Cardinality(Slots) \in Nat /\ Cardinality(Slots \cup {j}) \in Nat
        /\ Cardinality(Slots \cup {j}) <= Cardinality(Slots) + 1
    BY <1>2, AddOne
  <2>2. Slots' = Slots \cup {j}
    BY <1>1
  <2>. QED
    BY <1>3, <2>1, <2>2, ConstantsAssumption
<1>5. ASSUME NEW r \in Repos PROVE Cardinality(SlotsIn(r)') <= MaxConcurrency[r]
  <2>1. IsFiniteSet(SlotsIn(r)) /\ Cardinality(SlotsIn(r)) \in Nat
    <3>1. SlotsIn(r) \subseteq Slots
      BY DEF SlotsIn
    <3>. QED
      BY <1>2, <3>1, FS_Subset, FS_CardinalityType
  <2>2. CASE r = r0
    <3>1. SlotsIn(r)' = SlotsIn(r) \cup {j}
      BY <1>1, <2>2 DEF SlotsIn
    <3>2. /\ Cardinality(SlotsIn(r) \cup {j}) \in Nat
          /\ Cardinality(SlotsIn(r) \cup {j}) <= Cardinality(SlotsIn(r)) + 1
      BY <2>1, AddOne
    <3>. QED
      BY <1>3, <2>1, <2>2, <3>1, <3>2, ConstantsAssumption
  <2>3. CASE r # r0
    <3>1. SlotsIn(r)' = SlotsIn(r)
      BY <1>1, <2>3 DEF SlotsIn
    <3>. QED
      BY <3>1 DEF WithinLimits
  <2>. QED
    BY <2>2, <2>3
<1>. QED
  BY <1>1, <1>4, <1>5 DEF WithinLimits

\* No other step takes one: the main thread moves the slot it holds on, or lets
\* it go, and the readers only free slots.
LEMMA SlotsStep ==
  ASSUME Typed, WithinLimits, [Next]_vars,
         ~ \E j \in Jobs, s \in Sessions : PickJob(j, s)
  PROVE  Slots' \subseteq Slots /\ WriteReserves'
<1>. DEFINE Fewer == Slots' \subseteq Slots /\ WriteReserves'
<1>1. TablesTyped /\ WriteReady /\ WriteReserves
  BY DEF Typed, TypeOK, WithinLimits
<1>. SUFFICES Fewer
  OBVIOUS
<1>. QED
  <2>. USE <1>1
  <2>1. CASE DaemonStarts \/ PollCommands \/ KillJob \/ ListRateLimited \/
            ListFailed \/ RecoveryDone \/ SpawnWorker \/ SpawnRefused \/
            SpawnRaises \/ RegisterProcess \/ DispatchDone \/ SkipWatchdog \/
            ListActive \/ CheckHealthy \/ ReleaseSlot \/ RetrySameSession \/
            GiveUp \/ ReportLost \/ RecoveriesApplied \/ StopRequested \/
            DaemonExits \/ Crash
    <3>1. state' = state /\ Reserved' = {} /\ WriteReserves'
      BY <2>1 DEF DaemonStarts, PollCommands, KillJob, ListRateLimited,
         ListFailed, RecoveryDone, SpawnWorker, SpawnRefused, SpawnRaises,
         RegisterProcess, DispatchDone, SkipWatchdog, ListActive,
         CheckHealthy, ReleaseSlot, RetrySameSession, GiveUp, ReportLost,
         RecoveriesApplied, StopRequested, DaemonExits, Crash, dbVars, Goto,
         ProcessEnds, TryTransition, ActiveStates, Reserved, Dispatching,
         WriteReserves
    <3>. QED
      BY <3>1 DEF Slots, ActiveJobs
  <2>2. CASE WriteState
    <3>1. \A i \in Jobs : state'[i] \in ActiveStates => i \in Slots
      BY <2>2 DEF WriteState, TablesTyped, Slots, ActiveJobs, Reserved
    <3>2. Reserved' \subseteq Reserved /\ WriteReserves'
      <4>1. /\ next # "write" /\ "write" \notin Dispatching
            /\ Dispatching \cap LoopHeads = {}
        BY <2>2 DEF WriteState, WriteReady, Dispatching, LoopHeads
      <4>. QED
        BY <2>2, <4>1 DEF WriteState, Goto, Reserved, WriteReserves
    <3>. QED
      BY <3>1, <3>2 DEF Slots, ActiveJobs
  <2>3. ASSUME NEW j \in Jobs, KillStop(j) PROVE Fewer
    <3>1. state' = state /\ Reserved' \subseteq Reserved /\ WriteReserves'
      BY <2>3 DEF KillStop, dbVars, ActiveStates, Reserved, Dispatching,
         WriteReserves
    <3>. QED
      BY <3>1 DEF Slots, ActiveJobs
  <2>4. ASSUME NEW j \in Jobs, RequeueLimited(j) PROVE Fewer
    <3>1. state' = state /\ Reserved' \subseteq Reserved /\ WriteReserves'
      BY <2>4 DEF RequeueLimited, dbVars, RequeueJob, TryTransition,
         ActiveStates, Reserved, Dispatching, WriteReserves
    <3>. QED
      BY <3>1 DEF Slots, ActiveJobs
  <2>5. ASSUME NEW j \in Jobs, RequeueFailed(j) PROVE Fewer
    <3>1. state' = state /\ Reserved' \subseteq Reserved /\ WriteReserves'
      BY <2>5 DEF RequeueFailed, dbVars, RequeueJob, TryTransition,
         ActiveStates, Reserved, Dispatching, WriteReserves
    <3>. QED
      BY <3>1 DEF Slots, ActiveJobs
  <2>6. CASE Requeue
    <3>1. state' = state /\ Reserved' = {} /\ WriteReserves'
      BY <2>6 DEF Requeue, dbVars, WriteReady, ActiveStates, Reserved,
         Dispatching, WriteReserves
    <3>. QED
      BY <3>1 DEF Slots, ActiveJobs
  <2>7. CASE EnterStarting
    <3>1. state' = state /\ Reserved' \subseteq Reserved /\ WriteReserves'
      BY <2>7 DEF EnterStarting, dbVars, TryTransition, ActiveStates,
         Reserved, Dispatching, WriteReserves
    <3>. QED
      BY <3>1 DEF Slots, ActiveJobs
  <2>8. CASE OccupySession
    <3>1. state' = state /\ Reserved' \subseteq Reserved /\ WriteReserves'
      BY <2>8 DEF OccupySession, dbVars, Goto, LoopHeads, ActiveStates,
         Reserved, Dispatching, WriteReserves
    <3>. QED
      BY <3>1 DEF Slots, ActiveJobs
  <2>9. CASE EnterRunning
    <3>1. state' = state /\ Reserved' \subseteq Reserved /\ WriteReserves'
      BY <2>9 DEF EnterRunning, dbVars, TryTransition, ActiveStates,
         Reserved, Dispatching, WriteReserves
    <3>. QED
      BY <3>1 DEF Slots, ActiveJobs
  <2>10. ASSUME NEW j \in Jobs, CheckTimeout(j) PROVE Fewer
    <3>1. state' = state /\ Reserved' = {} /\ WriteReserves'
      BY <2>10 DEF CheckTimeout, dbVars, TryTransition, ActiveStates,
         Reserved, Dispatching, WriteReserves
    <3>. QED
      BY <3>1 DEF Slots, ActiveJobs
  <2>11. ASSUME NEW j \in Jobs, CheckUnfinished(j) PROVE Fewer
    <3>1. state' = state /\ Reserved' \subseteq Reserved /\ WriteReserves'
      BY <2>11 DEF CheckUnfinished, dbVars, ActiveStates, Reserved,
         Dispatching, WriteReserves
    <3>. QED
      BY <3>1 DEF Slots, ActiveJobs
  <2>12. CASE CheckLost
    <3>1. state' = state /\ Reserved' = {} /\ WriteReserves'
      BY <2>12 DEF CheckLost, dbVars, TryTransition, ActiveStates, Reserved,
         Dispatching, WriteReserves
    <3>. QED
      BY <3>1 DEF Slots, ActiveJobs
  <2>13. ASSUME NEW j \in Jobs, ApplyRecovery(j) PROVE Fewer
    <3>1. state' = state /\ Reserved' \subseteq Reserved /\ WriteReserves'
      BY <2>13 DEF ApplyRecovery, dbVars, ActiveStates, Reserved,
         Dispatching, WriteReserves
    <3>. QED
      BY <3>1 DEF Slots, ActiveJobs
  <2>14. ASSUME NEW s \in Sessions, ForkSession(s) PROVE Fewer
    <3>1. state' = state /\ Reserved' = {} /\ WriteReserves'
      BY <2>14 DEF ForkSession, dbVars, TryTransition, ActiveStates,
         Reserved, Dispatching, WriteReserves
    <3>. QED
      BY <3>1 DEF Slots, ActiveJobs
  <2>15. ASSUME NEW a \in Attempts, ReaderSucceeds(a) PROVE Fewer
    <3>1. \A i \in Jobs : state'[i] \in ActiveStates => state[i] \in ActiveStates
      BY <2>15 DEF ReaderSucceeds, TablesTyped, ActiveStates
    <3>2. Reserved' = Reserved /\ WriteReserves'
      BY <2>15 DEF ReaderSucceeds, mainVars, Reserved, WriteReserves
    <3>. QED
      BY <3>1, <3>2 DEF Slots, ActiveJobs
  <2>16. ASSUME NEW a \in Attempts, ReaderRateLimited(a) PROVE Fewer
    <3>1. \A i \in Jobs : state'[i] \in ActiveStates => state[i] \in ActiveStates
      BY <2>16 DEF ReaderRateLimited, TablesTyped, ActiveStates
    <3>2. Reserved' = Reserved /\ WriteReserves'
      BY <2>16 DEF ReaderRateLimited, mainVars, Reserved, WriteReserves
    <3>. QED
      BY <3>1, <3>2 DEF Slots, ActiveJobs
  <2>17. ASSUME NEW a \in Attempts, ReaderWrites(a) PROVE Fewer
    <3>1. \A i \in Jobs : state'[i] \in ActiveStates => state[i] \in ActiveStates
      BY <2>17 DEF ReaderWrites, TablesTyped, ActiveStates
    <3>2. Reserved' = Reserved /\ WriteReserves'
      BY <2>17 DEF ReaderWrites, mainVars, Reserved, WriteReserves
    <3>. QED
      BY <3>1, <3>2 DEF Slots, ActiveJobs
  <2>18. ASSUME NEW j \in Jobs, CreateJob(j) PROVE Fewer
    <3>1. \A i \in Jobs : state'[i] \in ActiveStates => state[i] \in ActiveStates
      BY <2>18 DEF CreateJob, TablesTyped, ActiveStates
    <3>2. Reserved' = Reserved /\ WriteReserves'
      BY <2>18 DEF CreateJob, mainVars, Reserved, WriteReserves
    <3>. QED
      BY <3>1, <3>2 DEF Slots, ActiveJobs
  <2>19. ASSUME NEW c \in Commands,
              NextCommand(c) \/ RequestKill(c)
       PROVE  Fewer
    BY <2>19 DEF Reserved, WriteReserves, Slots, ActiveJobs, dbVars, mainVars,
       NextCommand, Targets, RequestKill
  <2>20. ASSUME NEW r \in Repos,
              ClearBackoff(r) \/ BackoffExpires(r)
       PROVE  Fewer
    BY <2>20 DEF Reserved, WriteReserves, Slots, ActiveJobs, dbVars, mainVars,
       ClearBackoff, BackoffExpires
  <2>21. ASSUME NEW j \in Jobs,
              CheckFinished(j)
       PROVE  Fewer
    BY <2>21 DEF Reserved, WriteReserves, Slots, ActiveJobs, dbVars, mainVars,
       CheckFinished
  <2>22. ASSUME NEW a \in Attempts,
              StopOne(a) \/ ReaderGuard(a) \/ ReaderFinish(a) \/
              ReaderRelease(a) \/ ReaderCheck(a) \/ ReaderFails(a)
              \/ WorkerExits(a)
       PROVE  Fewer
    BY <2>22 DEF Reserved, WriteReserves, Slots, ActiveJobs, dbVars, mainVars,
       StopOne, StopWorker, ReaderGuard, Move, ReaderFinish, ReaderRelease,
       ReaderCheck, ReaderFails, WorkerExits
  <2>23. CASE UNCHANGED vars
    BY <2>23 DEF Reserved, WriteReserves, Slots, ActiveJobs, dbVars, mainVars, vars
  <2>. QED
    BY <2>1, <2>2, <2>3, <2>4, <2>5, <2>6, <2>7, <2>8, <2>9, <2>10, <2>11,
       <2>12, <2>13, <2>14, <2>15, <2>16, <2>17, <2>18, <2>19, <2>20, <2>21,
       <2>22, <2>23 DEF Next, MainStep, ReaderStep, Environment

\* So the slots taken stay within both limits for ever.
LEMMA LimitsInvariant == Spec => []WithinLimits
<1>1. Init => WithinLimits
  <2>. SUFFICES ASSUME Init PROVE WithinLimits
    OBVIOUS
  <2>1. Slots = {} /\ \A r \in Repos : SlotsIn(r) = {}
    BY DEF Init, Slots, SlotsIn, ActiveJobs, Reserved, Dispatching, ActiveStates
  <2>2. WriteReserves
    BY DEF Init, WriteReserves
  <2>3. Cardinality(Slots) = 0 /\ \A r \in Repos : Cardinality(SlotsIn(r)) = 0
    BY <2>1, FS_EmptySet
  <2>4. 0 <= GlobalMax /\ \A r \in Repos : 0 <= MaxConcurrency[r]
    BY ConstantsAssumption
  <2>. QED
    BY <2>2, <2>3, <2>4 DEF WithinLimits
<1>2. Typed /\ Typed' /\ WithinLimits /\ [Next]_vars => WithinLimits'
  BY PickTakesFreeSlot, FewerSlots, SlotsStep
<1>. QED
  BY <1>1, <1>2, TypedInvariant, PTL DEF Spec

\* The jobs in starting or running never exceed the global limit, nor a repo's
\* own: check before act is safe here, because only the main thread takes slots.
THEOREM LimitsKept == Spec => []ConcurrencyBound
<1>1. Typed /\ WithinLimits => ConcurrencyBound
  <2>. SUFFICES ASSUME Typed, WithinLimits PROVE ConcurrencyBound
    OBVIOUS
  <2>1. Slots \subseteq Jobs
    BY DEF Typed, JobInHand, Slots, ActiveJobs, Reserved, Dispatching, LoopHeads
  <2>2. IsFiniteSet(Slots)
    BY <2>1, ConstantsAssumption, FS_Subset
  <2>3. Cardinality(ActiveJobs) <= GlobalMax
    <3>1. ActiveJobs \subseteq Slots
      BY DEF Slots
    <3>2. /\ Cardinality(ActiveJobs) <= Cardinality(Slots)
          /\ Cardinality(ActiveJobs) \in Nat /\ Cardinality(Slots) \in Nat
      BY <2>2, <3>1, FS_Subset, FS_CardinalityType
    <3>. QED
      BY <3>2, ConstantsAssumption DEF WithinLimits
  <2>4. ASSUME NEW r \in Repos PROVE Cardinality(ActiveIn(r)) <= MaxConcurrency[r]
    <3>1. ActiveIn(r) \subseteq SlotsIn(r) /\ SlotsIn(r) \subseteq Slots
      BY DEF ActiveIn, SlotsIn, Slots
    <3>2. IsFiniteSet(SlotsIn(r))
      BY <2>2, <3>1, FS_Subset
    <3>3. /\ Cardinality(ActiveIn(r)) <= Cardinality(SlotsIn(r))
          /\ Cardinality(ActiveIn(r)) \in Nat /\ Cardinality(SlotsIn(r)) \in Nat
      BY <3>1, <3>2, FS_Subset, FS_CardinalityType
    <3>4. Cardinality(SlotsIn(r)) <= MaxConcurrency[r] /\ MaxConcurrency[r] \in Nat
      BY ConstantsAssumption DEF WithinLimits
    <3>. QED
      BY <3>3, <3>4
  <2>. QED
    BY <2>3, <2>4 DEF ConcurrencyBound
<1>. QED
  BY <1>1, LimitsInvariant, TypedInvariant, PTL
=============================================================================
