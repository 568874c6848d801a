------------------------------ MODULE SystemProofs ------------------------------
(***************************************************************************)
(* Proofs about System, for any jobs and bounds: what the Supervisor wrote *)
(* about one run of a job never reaches the next run, a run is told once   *)
(* but for crashes and errors, and the composition implements Execution,   *)
(* so that what WorkerProofs proves of the Workers holds with the          *)
(* Supervisor and the Controller at work beside them.                      *)
(***************************************************************************)
EXTENDS System, TLAPS

LEMMA NoneIsNoJob == None \notin Jobs
BY SystemAssumption

\* Nothing of an earlier outcome is on the row but a report of the Controller.
Clean(j) == wakeState[j] = "null" /\ (reported[j] => replies[j] > 0)

\* The states from which a run is still to come, or is under way.
Begun == {"absent", "queued"} \cup ActiveStates
FreshRows == \A j \in Jobs : state[j] \in Begun => Clean(j)

\* The Controller's report follows its reply.
ReplyFirst == \A j \in Jobs : turn[j] = "replied" => replies[j] > 0

\* The two parts of the tick take turns, and between its drives the Supervisor
\* has nothing in hand.
TurnsTaken ==
  /\ part = "deliver" => pc = "commands"
  /\ part = "work" => place \in {"down", "idle"}
  /\ place \in {"down", "idle", "drive"} => driven = None
  /\ place \in {"down", "idle"} => list = {}

\* What the Supervisor has in hand has ended, or waits to be requeued.
HandsOff == \A j \in Jobs : j \in list \/ j = driven => state[j] \notin Begun

\* A job being launched is clean, although a late write of an earlier reader may
\* have taken its row out of the states above.
Dispatching == {"enter_starting", "occupy", "enter_running"}
LaunchesClean ==
  /\ pc \in Dispatching \/ (pc = "write" /\ goal \in ActiveStates)
       => (cur \in Jobs => Clean(cur))
  /\ pc = "write" => /\ next \notin {"write", "requeue"} /\ goal # "absent"
                     /\ next \in Dispatching => goal \in ActiveStates
  /\ pc = "requeue" => next \in {"requeue_limited", "requeue_failed"}

\* What is needed of the types.
Tables ==
  /\ DOMAIN state = Jobs /\ DOMAIN wakeState = Jobs /\ DOMAIN reported = Jobs
  /\ DOMAIN turn = Jobs /\ replies \in [Jobs -> Nat]

Apart ==
  /\ FreshRows /\ ReplyFirst /\ TurnsTaken /\ HandsOff /\ LaunchesClean /\ Tables

-----------------------------------------------------------------------------
(* What a step of either plane does to the rows.                            *)

\* Only transition_job's write changes a row in the main thread ...
LEMMA MainRows ==
  ASSUME E!MainStep
  PROVE  E!WriteState \/ state' = state
BY DEF E!MainStep, E!DaemonStarts, E!PollCommands, E!KillJob, E!NextCommand,
   E!KillStop, E!ListRateLimited, E!ListFailed, E!RecoveryDone, E!Requeue,
   E!RequeueLimited, E!RequeueFailed, E!ClearBackoff, E!PickJob, E!EnterStarting,
   E!OccupySession, E!EnterRunning, E!SpawnWorker, E!SpawnRefused, E!SpawnRaises,
   E!RegisterProcess, E!DispatchDone, E!SkipWatchdog, E!ListActive, E!CheckTimeout,
   E!CheckUnfinished, E!CheckFinished, E!ApplyRecovery, E!CheckLost, E!CheckHealthy,
   E!ReleaseSlot, E!RetrySameSession, E!GiveUp, E!ReportLost, E!RecoveriesApplied,
   E!ForkSession, E!StopRequested, E!DaemonExits, E!ProcessEnds, E!StopOne, E!dbVars

\* ... and a reader never writes a state of Begun.
LEMMA ReaderRows ==
  ASSUME Tables, NEW a, E!ReaderStep(a)
  PROVE  /\ DOMAIN state' = Jobs
         /\ \A j \in Jobs : state'[j] = state[j] \/ state'[j] \notin Begun
         /\ pc' = pc /\ cur' = cur /\ goal' = goal /\ next' = next
BY DEF Tables, Begun, ActiveStates, E!ReaderStep, E!ReaderGuard, E!ReaderFinish,
   E!ReaderRelease, E!ReaderCheck, E!ReaderSucceeds, E!ReaderRateLimited,
   E!ReaderFails, E!ReaderWrites, E!dbVars, E!mainVars

\* A requeue cleans the row it requeues and leaves the others alone.
LEMMA ResetCleans ==
  ASSUME Tables, ColumnsReset, UNCHANGED <<replies, turn>>
  PROVE  /\ DOMAIN wakeState' = Jobs /\ DOMAIN reported' = Jobs
         /\ \A j \in Jobs : /\ j \in Requeued => Clean(j)'
                            /\ Clean(j) => Clean(j)'
                            /\ j \notin Requeued =>
                                 wakeState'[j] = wakeState[j] /\ reported'[j] = reported[j]
BY DEF Tables, ColumnsReset, Except, Requeued, Clean

LEMMA WorkStep ==
  ASSUME Apart, Work PROVE Apart'
<1>1. /\ part = "work" /\ E!MainStep /\ ColumnsReset /\ UNCHANGED <<replies, turn>>
      /\ list = {} /\ driven = None
  BY DEF Work, Apart, TurnsTaken, D!Crash, D!ctlVars, ctlVars
<1>2. list' = {} /\ driven' = None /\ place' \in {"down", "idle"}
  BY <1>1 DEF Work, Apart, TurnsTaken, D!Crash, tickVars
<1>3. TurnsTaken'
  BY <1>1, <1>2 DEF Work, TurnsTaken
<1>4. HandsOff'
  BY <1>2, NoneIsNoJob DEF HandsOff
<1>5. ReplyFirst'
  BY <1>1 DEF Apart, ReplyFirst
<1>6. \A j \in Jobs : Clean(j) => Clean(j)'
  BY <1>1, ResetCleans DEF Apart
<1>7. CASE E!WriteState
  <2>1. /\ pc = "write" /\ state' = [state EXCEPT ![cur] = goal]
        /\ pc' = next /\ (cur' = None \/ cur' = cur)
    BY <1>7 DEF E!WriteState, E!Goto
  <2>2. FreshRows'
    <3>. SUFFICES ASSUME NEW j \in Jobs, state'[j] \in Begun PROVE Clean(j)'
      BY DEF FreshRows
    <3>1. CASE j # cur
      BY <1>6, <2>1, <3>1 DEF Apart, FreshRows, Tables
    <3>2. CASE j = cur /\ goal = "queued"
      <4>1. CASE state[j] = "queued"
        BY <1>6, <4>1 DEF Apart, FreshRows, Begun
      <4>2. CASE state[j] # "queued"
        BY <1>1, <2>1, <3>2, <4>2, ResetCleans DEF Apart, Requeued, Tables
      <4>. QED
        BY <4>1, <4>2
    <3>3. CASE j = cur /\ goal # "queued"
      <4>1. goal \in ActiveStates
        BY <2>1, <3>3 DEF Apart, LaunchesClean, Tables, Begun
      <4>. QED
        BY <1>6, <2>1, <3>3, <4>1 DEF Apart, LaunchesClean
    <3>. QED
      BY <3>1, <3>2, <3>3
  <2>3. LaunchesClean'
    <3>1. /\ pc' \notin {"write", "requeue"}
          /\ pc' \in Dispatching => goal \in ActiveStates
      BY <2>1 DEF Apart, LaunchesClean
    <3>. QED
      BY <1>6, <2>1, <3>1, NoneIsNoJob DEF Apart, LaunchesClean, Clean
  <2>4. Tables'
    BY <1>1, <2>1, ResetCleans DEF Apart, Tables
  <2>. QED
    BY <1>3, <1>4, <1>5, <2>2, <2>3, <2>4 DEF Apart
<1>8. CASE state' = state /\ ~ E!WriteState
  <2>1. FreshRows'
    BY <1>6, <1>8 DEF Apart, FreshRows
  <2>2. Tables'
    BY <1>1, <1>8, ResetCleans DEF Apart, Tables
  <2>3. LaunchesClean'
    <3>1. ASSUME NEW j \in Jobs, NEW s \in Sessions, E!PickJob(j, s) PROVE LaunchesClean'
      <4>1. Clean(j)
        BY <3>1 DEF E!PickJob, E!Runnable, Apart, FreshRows, Begun
      <4>. QED
        BY <1>6, <3>1, <4>1 DEF E!PickJob, LaunchesClean, Clean
    <3>2. CASE E!EnterStarting \/ E!OccupySession \/ E!EnterRunning
      BY <1>6, <3>2 DEF E!EnterStarting, E!OccupySession, E!EnterRunning, E!TryTransition,
         E!Goto, E!LoopHeads, Apart, LaunchesClean, Clean, Dispatching, ActiveStates
    <3>3. CASE /\ ~ E!EnterStarting /\ ~ E!OccupySession /\ ~ E!EnterRunning
               /\ \A j \in Jobs, s \in Sessions : ~ E!PickJob(j, s)
      <4>1. \/ UNCHANGED <<pc, cur, goal, next>>
            \/ /\ pc' \notin Dispatching
               /\ pc' = "write" => /\ goal' \notin ActiveStates \cup {"absent"}
                                   /\ next' \notin Dispatching \cup {"write", "requeue"}
               /\ pc' = "requeue" => next' \in {"requeue_limited", "requeue_failed"}
        BY <1>1, <1>8, <3>3 DEF E!MainStep, E!DaemonStarts, E!PollCommands, E!KillJob,
           E!NextCommand, E!KillStop, E!ListRateLimited, E!ListFailed, E!RecoveryDone,
           E!Requeue, E!RequeueLimited, E!RequeueFailed, E!RequeueJob, E!TryTransition,
           E!ClearBackoff, E!SpawnWorker, E!SpawnRefused, E!SpawnRaises,
           E!RegisterProcess, E!DispatchDone, E!SkipWatchdog, E!ListActive, E!CheckTimeout,
           E!CheckUnfinished, E!CheckFinished, E!ApplyRecovery, E!CheckLost,
           E!CheckHealthy, E!ReleaseSlot, E!RetrySameSession, E!GiveUp, E!ReportLost,
           E!RecoveriesApplied, E!ForkSession, E!StopRequested, E!DaemonExits,
           E!ProcessEnds, E!StopOne, E!Goto, E!mainVars, Dispatching, ActiveStates,
           Apart, LaunchesClean
      <4>. QED
        BY <1>6, <4>1 DEF Apart, LaunchesClean, Clean
    <3>. QED
      BY <3>1, <3>2, <3>3
  <2>. QED
    BY <1>3, <1>4, <1>5, <2>1, <2>2, <2>3 DEF Apart
<1>. QED
  BY <1>1, <1>7, <1>8, MainRows DEF E!WriteState

\* The Supervisor's turn leaves Execution alone, and writes only what it has in hand.
LEMMA DeliverStep ==
  ASSUME Apart, Deliver PROVE Apart'
<1>1. /\ part = "deliver" /\ D!TickStep /\ UNCHANGED execVars
      /\ part' = IF place' = "idle" THEN "work" ELSE "deliver"
  BY DEF Deliver
<1>2. state' = state /\ pc' = "commands" /\ pc = "commands"
  BY <1>1 DEF execVars, Apart, TurnsTaken
<1>3. /\ UNCHANGED <<replies, turn>>
      /\ DOMAIN wakeState' = Jobs /\ DOMAIN reported' = Jobs
      /\ \A j \in Jobs : \/ wakeState'[j] = wakeState[j] /\ reported'[j] = reported[j]
                         \/ j \in list \/ j = driven
  BY <1>1 DEF D!TickStep, D!DaemonStarts, D!ListUndelivered, D!TickEnds, D!SkipJob,
     D!RetryFallback, D!ClaimAndFallback, D!SendText, D!Driving, D!SendEnter, D!SendFails,
     D!CountWake, D!MarkWoken, D!PostAccepted, D!PostFails, D!PostRejected,
     D!SetUndeliverable, D!AckPost, D!DriveRaises, D!dbVars, D!ctlVars, D!histVars,
     Apart, Tables
<1>4. /\ place' \in {"down", "idle", "drive"} => driven' = None
      /\ place' \in {"down", "idle"} => list' = {}
      /\ part' = "work" => place' = "idle"
  BY <1>1 DEF D!TickStep, D!DaemonStarts, D!ListUndelivered, D!TickEnds, D!SkipJob,
     D!RetryFallback, D!ClaimAndFallback, D!SendText, D!Driving, D!SendEnter, D!SendFails,
     D!CountWake, D!MarkWoken, D!PostAccepted, D!PostFails, D!PostRejected,
     D!SetUndeliverable, D!AckPost, D!DriveRaises, D!Return, Apart, TurnsTaken
<1>5. HandsOff'
  <2>1. CASE D!ListUndelivered
    <3>1. \A j \in Jobs : j \in list' => state[j] \in DeliveryTerminalStates
      BY <2>1 DEF D!ListUndelivered, D!Undelivered
    <3>2. driven' = None
      BY <2>1, <1>4 DEF D!ListUndelivered
    <3>. QED
      BY <1>2, <3>1, <3>2, NoneIsNoJob DEF HandsOff, DeliveryTerminalStates, Begun, ActiveStates
  <2>2. CASE ~ D!ListUndelivered
    <3>1. list' \subseteq list /\ (driven' = driven \/ driven' = None \/ driven' \in list)
      BY <1>1, <2>2 DEF D!TickStep, D!DaemonStarts, D!TickEnds, D!SkipJob,
         D!RetryFallback, D!ClaimAndFallback, D!SendText, D!Driving, D!SendEnter, D!SendFails,
         D!CountWake, D!MarkWoken, D!PostAccepted, D!PostFails, D!PostRejected,
         D!SetUndeliverable, D!AckPost, D!DriveRaises, D!Return
    <3>. QED
      BY <1>2, <3>1, NoneIsNoJob DEF Apart, HandsOff
  <2>. QED
    BY <2>1, <2>2
<1>6. FreshRows' /\ ReplyFirst'
  BY <1>2, <1>3 DEF Apart, FreshRows, ReplyFirst, HandsOff, Clean
<1>7. TurnsTaken' /\ LaunchesClean' /\ Tables'
  BY <1>1, <1>2, <1>3, <1>4 DEF Apart, TurnsTaken, LaunchesClean, Dispatching, Tables
<1>. QED
  BY <1>5, <1>6, <1>7 DEF Apart

\* The Controller reports only what it has replied to.
LEMMA ControllerStep ==
  ASSUME Apart, Controller PROVE Apart'
<1>1. UNCHANGED <<state, pc, cur, goal, next, part>>
  BY DEF Controller, execVars
<1>2. PICK j \in Jobs : \/ D!UserAsks(j) \/ D!Collect(j) \/ D!Reply(j) \/ D!TurnDropped(j)
                        \/ D!ReportDone(j)
  BY DEF Controller
<1>3. UNCHANGED <<place, list, driven, wakeState>>
  BY <1>2 DEF D!UserAsks, D!Collect, D!Reply, D!TurnDropped, D!ReportDone, D!dbVars, D!tickVars
<1>4. /\ replies' \in [Jobs -> Nat]
      /\ \A i \in Jobs : replies[i] > 0 => replies'[i] > 0
  BY <1>2 DEF D!UserAsks, D!Collect, D!Reply, D!TurnDropped, D!ReportDone, D!histVars,
     Apart, Tables
<1>5. DOMAIN turn' = Jobs /\ ReplyFirst'
  BY <1>2, <1>4 DEF D!UserAsks, D!Collect, D!Reply, D!TurnDropped, D!ReportDone, D!histVars,
     Apart, Tables, ReplyFirst
<1>6. /\ DOMAIN reported' = Jobs
      /\ \A i \in Jobs : reported'[i] => reported[i] \/ replies'[i] > 0
  BY <1>2 DEF D!UserAsks, D!Collect, D!Reply, D!TurnDropped, D!ReportDone, D!dbVars,
     D!histVars, Apart, Tables, ReplyFirst
<1>7. \A i \in Jobs : Clean(i) => Clean(i)'
  BY <1>3, <1>4, <1>6 DEF Clean
<1>8. FreshRows' /\ TurnsTaken' /\ HandsOff' /\ Tables'
  BY <1>1, <1>3, <1>4, <1>5, <1>6, <1>7 DEF Apart, FreshRows, TurnsTaken, HandsOff, Tables
<1>9. LaunchesClean'
  BY <1>1, <1>7 DEF Apart, LaunchesClean, Clean
<1>. QED
  BY <1>5, <1>8, <1>9 DEF Apart

\* The reader threads, the CLI, and the ends of the process.
LEMMA OtherStep ==
  ASSUME Apart, Start \/ Crash \/ ReaderThread \/ Outside \/ UNCHANGED vars PROVE Apart'
<1>1. CASE ReaderThread
  <2>1. /\ ColumnsReset /\ UNCHANGED <<replies, turn, place, list, driven, part>>
    BY <1>1 DEF ReaderThread, ctlVars, tickVars
  <2>2. /\ DOMAIN state' = Jobs
        /\ \A j \in Jobs : state'[j] = state[j] \/ state'[j] \notin Begun
        /\ pc' = pc /\ cur' = cur /\ goal' = goal /\ next' = next
    BY <1>1, ReaderRows DEF ReaderThread, Apart
  <2>3. /\ DOMAIN wakeState' = Jobs /\ DOMAIN reported' = Jobs
        /\ \A j \in Jobs : Clean(j) => Clean(j)'
    BY <2>1, ResetCleans DEF Apart
  <2>4. FreshRows' /\ ReplyFirst' /\ HandsOff'
    BY <2>1, <2>2, <2>3 DEF Apart, FreshRows, ReplyFirst, HandsOff
  <2>5. TurnsTaken' /\ Tables'
    BY <2>1, <2>2, <2>3 DEF Apart, TurnsTaken, Tables
  <2>6. LaunchesClean'
    BY <2>2, <2>3 DEF Apart, LaunchesClean, Clean
  <2>. QED
    BY <2>4, <2>5, <2>6 DEF Apart
<1>2. CASE Outside
  <2>1. /\ UNCHANGED <<wakeState, reported, replies, turn, place, list, driven, part>>
        /\ UNCHANGED <<pc, cur, goal, next>> /\ DOMAIN state' = Jobs
        /\ \A j \in Jobs : state'[j] # state[j] => state[j] \in Begun
    BY <1>2 DEF Outside, columns, ctlVars, tickVars, E!WorkerExits, E!CreateJob, E!RequestKill,
       E!BackoffExpires, E!dbVars, E!mainVars, Apart, Tables, Begun
  <2>2. FreshRows' /\ ReplyFirst' /\ TurnsTaken' /\ Tables'
    BY <2>1 DEF Apart, FreshRows, ReplyFirst, TurnsTaken, Tables, Clean
  <2>3. HandsOff' /\ LaunchesClean'
    BY <2>1 DEF Apart, HandsOff, LaunchesClean, Clean
  <2>. QED
    BY <2>2, <2>3 DEF Apart
<1>3. CASE Crash \/ Start
  <2>1. /\ UNCHANGED <<state, wakeState, reported, replies, turn>> /\ part' = "work"
        /\ pc' \in {"down", "commands"} /\ place' \in {"down", "idle"}
        /\ list' = {} /\ driven' = None
    BY <1>3 DEF Crash, Start, E!Crash, E!ProcessEnds, E!Goto, E!DaemonStarts, D!Crash,
       D!DaemonStarts, E!dbVars, D!dbVars, D!ctlVars, D!histVars, Apart, TurnsTaken
  <2>2. FreshRows' /\ ReplyFirst' /\ TurnsTaken' /\ Tables'
    BY <2>1 DEF Apart, FreshRows, ReplyFirst, TurnsTaken, Tables, Clean
  <2>3. HandsOff' /\ LaunchesClean'
    BY <2>1, NoneIsNoJob DEF HandsOff, LaunchesClean, Dispatching
  <2>. QED
    BY <2>2, <2>3 DEF Apart
<1>4. CASE UNCHANGED vars
  BY <1>4 DEF vars, execVars, columns, tickVars, ctlVars, Apart, FreshRows, ReplyFirst,
     TurnsTaken, HandsOff, LaunchesClean, Tables, Clean
<1>. QED
  BY <1>1, <1>2, <1>3, <1>4

LEMMA ApartInvariant == Spec => []Apart
<1>1. Init => Apart
  BY NoneIsNoJob DEF Init, E!Init, D!Init, D!Never, D!Zero, Apart, FreshRows, ReplyFirst,
     TurnsTaken, HandsOff, LaunchesClean, Dispatching, Tables, Clean
<1>2. Apart /\ [Next]_vars => Apart'
  BY WorkStep, DeliverStep, ControllerStep, OtherStep DEF Next
<1>. QED
  BY <1>1, <1>2, PTL DEF Spec

\* A job that runs again starts with a clean slate, wherever the daemon dies and
\* however late a reader of the earlier run writes.
THEOREM RerunsAreClean == Spec => []RerunStartsClean
<1>1. Apart => RerunStartsClean
  BY DEF Apart, FreshRows, Clean, RerunStartsClean, Rerun, Begun
<1>. QED
  BY <1>1, ApartInvariant, PTL

-----------------------------------------------------------------------------
(* The parts and the whole.  The theorems about Execution and Delivery hold *)
(* of System's E and D: what they assume of their constants, System assumes.  *)

EP == INSTANCE WorkerProofs
DP == INSTANCE DeliveryProofs WITH
  terminal <- [j \in Jobs |-> state[j] \in DeliveryTerminalStates],
  cur <- driven,
  MaxWakeAttempts <- 0

\* What Execution assumes of its constants.
LEMMA ExecutionAssumed ==
  /\ EP!IsFiniteSet(Jobs)
  /\ RepoOf \in [Jobs -> Repos]
  /\ SessionRepo \in [Sessions -> Repos]
  /\ MaxConcurrency \in [Repos -> Nat]
  /\ GlobalMax \in Nat /\ MaxRetries \in Nat /\ MaxAttempts \in Nat
  /\ MaxTimeouts \in Nat /\ MaxKills \in Nat /\ MaxStops \in Nat
  /\ MaxOvertaken \in Nat
  /\ None \notin Jobs \cup Sessions \cup EP!JobStates
  /\ None \notin Jobs \X Nat
BY SystemAssumption DEF IsFiniteSet, EP!IsFiniteSet, JobStates, EP!JobStates

LEMMA NoneIsNoPlan == None \notin EP!RecoveryActions
BY NoneIsNoAction DEF E!RecoveryActions, EP!RecoveryActions

\* What Delivery assumes of its constants.
LEMMA DeliveryAssumed ==
  /\ HasChat \subseteq Jobs
  /\ 0 \in Nat /\ MaxAsks \in Nat
  /\ MaxCrashes \in Nat /\ MaxLost \in Nat
  /\ None \notin Jobs
BY SystemAssumption

\* E and EP are one module with the same substitution.
LEMMA SameExecution ==
  /\ EP!TypeOK <=> E!TypeOK
  /\ EP!vars = E!vars
  /\ E!Init => EP!Init
  /\ E!MainStep => EP!MainStep
  /\ \A a : E!ReaderStep(a) => EP!ReaderStep(a)
  /\ E!Crash => EP!Crash
  /\ \A a : E!WorkerExits(a) => EP!WorkerExits(a)
  /\ \A j : E!CreateJob(j) => EP!CreateJob(j)
  /\ \A c : E!RequestKill(c) => EP!RequestKill(c)
  /\ \A r : E!BackoffExpires(r) => EP!BackoffExpires(r)
<1>. USE DEF
       E!Init, EP!Init, E!Attempts, EP!Attempts, E!MainStep, EP!MainStep,
       E!DaemonStarts, EP!DaemonStarts, E!Goto, EP!Goto, E!LoopHeads, EP!LoopHeads,
       E!dbVars, EP!dbVars, E!procVars, EP!procVars, E!boundVars, EP!boundVars,
       E!PollCommands, EP!PollCommands, E!KillJob, EP!KillJob, E!TryTransition,
       EP!TryTransition, E!CanTransition, EP!CanTransition, E!JobStates,
       EP!JobStates, E!ValidTransitions, EP!ValidTransitions, E!FinalStates,
       EP!FinalStates, E!IsFiniteSet, EP!IsFiniteSet, E!WriteState, EP!WriteState,
       E!Commands, EP!Commands, E!NextCommand, EP!NextCommand, E!Targets,
       EP!Targets, E!KillStop, EP!KillStop, E!StopWorker, EP!StopWorker,
       E!ListRateLimited, EP!ListRateLimited, E!ListFailed, EP!ListFailed,
       E!RecoveryDone, EP!RecoveryDone, E!Requeue, EP!Requeue, E!RequeueLimited,
       EP!RequeueLimited, E!RequeueJob, EP!RequeueJob, E!RequeueFailed,
       EP!RequeueFailed, E!ClearBackoff, EP!ClearBackoff, E!RateLimitedIn,
       EP!RateLimitedIn, E!PickJob, EP!PickJob, E!Runnable, EP!Runnable, E!CanRun,
       EP!CanRun, E!Cardinality, EP!Cardinality, E!ActiveJobs, EP!ActiveJobs,
       E!ActiveStates, EP!ActiveStates, E!ActiveIn, EP!ActiveIn, E!Usable,
       EP!Usable, E!EnterStarting, EP!EnterStarting, E!OccupySession,
       EP!OccupySession, E!Latest, EP!Latest, E!EnterRunning, EP!EnterRunning,
       E!SpawnWorker, EP!SpawnWorker, E!SpawnRefused, EP!SpawnRefused,
       E!SpawnRaises, EP!SpawnRaises, E!RegisterProcess, EP!RegisterProcess,
       E!DispatchDone, EP!DispatchDone, E!SkipWatchdog, EP!SkipWatchdog,
       E!ListActive, EP!ListActive, E!CheckTimeout, EP!CheckTimeout,
       E!CheckUnfinished, EP!CheckUnfinished, E!CheckFinished, EP!CheckFinished,
       E!ApplyRecovery, EP!ApplyRecovery, E!NeedsCleanup, EP!NeedsCleanup,
       E!CheckLost, EP!CheckLost, E!CheckHealthy, EP!CheckHealthy, E!ReleaseSlot,
       EP!ReleaseSlot, E!RetrySameSession, EP!RetrySameSession, E!GiveUp, EP!GiveUp,
       E!ReportLost, EP!ReportLost, E!RecoveriesApplied, EP!RecoveriesApplied,
       E!ForkSession, EP!ForkSession, E!StopRequested, EP!StopRequested,
       E!DaemonExits, EP!DaemonExits, E!ProcessEnds, EP!ProcessEnds, E!StopOne,
       EP!StopOne, E!mainVars, EP!mainVars, E!ReaderStep, EP!ReaderStep,
       E!ReaderGuard, EP!ReaderGuard, E!Move, EP!Move, E!ReaderFinish,
       EP!ReaderFinish, E!ReaderRelease, EP!ReaderRelease, E!ReaderCheck,
       EP!ReaderCheck, E!ReaderSucceeds, EP!ReaderSucceeds, E!ReaderRateLimited,
       EP!ReaderRateLimited, E!ReaderFails, EP!ReaderFails, E!ReaderWrites,
       EP!ReaderWrites, E!Crash, EP!Crash, E!WorkerExits, EP!WorkerExits,
       E!CreateJob, EP!CreateJob, E!RequestKill, EP!RequestKill, E!BackoffExpires,
       EP!BackoffExpires, E!TypeOK, EP!TypeOK, E!TablesTyped, EP!TablesTyped,
       E!SessionStates, EP!SessionStates, E!ProcessesTyped, EP!ProcessesTyped,
       E!WorkerStates, EP!WorkerStates, E!ReaderPlaces, EP!ReaderPlaces, E!PastGuard, EP!PastGuard,
       E!MainTyped, EP!MainTyped, E!MainPlaces, EP!MainPlaces, E!RecoveryActions,
       EP!RecoveryActions, E!BoundsTyped, EP!BoundsTyped, E!vars, EP!vars
<1>1. (EP!TypeOK <=> E!TypeOK) /\ EP!vars = E!vars
  BY Zenon
<1>2. E!Init => EP!Init
  BY Zenon
<1>3. E!MainStep => EP!MainStep
  BY Zenon
<1>4. ASSUME NEW a PROVE E!ReaderStep(a) => EP!ReaderStep(a)
  BY Zenon
<1>5. E!Crash => EP!Crash
  BY Zenon
<1>6. ASSUME NEW a PROVE E!WorkerExits(a) => EP!WorkerExits(a)
  BY Zenon
<1>7. ASSUME NEW j PROVE E!CreateJob(j) => EP!CreateJob(j)
  BY Zenon
<1>8. ASSUME NEW c PROVE E!RequestKill(c) => EP!RequestKill(c)
  BY Zenon
<1>9. ASSUME NEW r PROVE E!BackoffExpires(r) => EP!BackoffExpires(r)
  BY Zenon
<1>. QED
  BY <1>1, <1>2, <1>3, <1>4, <1>5, <1>6, <1>7, <1>8, <1>9, Zenon

\* So are D and DP.
LEMMA SameDelivery ==
  /\ DP!TypeOK <=> D!TypeOK
  /\ D!Init => DP!Init
  /\ D!TickStep => DP!TickStep
  /\ D!Crash => DP!Crash
  /\ \A j : /\ D!UserAsks(j) => DP!UserAsks(j)
            /\ D!Collect(j) => DP!Collect(j)
            /\ D!Reply(j) => DP!Reply(j)
            /\ D!TurnDropped(j) => DP!TurnDropped(j)
            /\ D!ReportDone(j) => DP!ReportDone(j)
<1>. USE DEF
       D!Init, DP!Init, D!Never, DP!Never, D!Zero, DP!Zero, D!TickStep, DP!TickStep,
       D!DaemonStarts, DP!DaemonStarts, D!dbVars, DP!dbVars, D!ctlVars, DP!ctlVars,
       D!histVars, DP!histVars, D!ListUndelivered, DP!ListUndelivered,
       D!Undelivered, DP!Undelivered, D!TickEnds, DP!TickEnds, D!Forget, DP!Forget,
       D!SkipJob, DP!SkipJob, D!Driving, DP!Driving, D!RetryFallback,
       DP!RetryFallback, D!ClaimAndFallback, DP!ClaimAndFallback, D!MayWake,
       DP!MayWake, D!Claimable, DP!Claimable, D!SendText, DP!SendText, D!SendEnter,
       DP!SendEnter, D!Prompted, DP!Prompted, D!SendFails, DP!SendFails, D!Return,
       DP!Return, D!CountWake, DP!CountWake, D!MarkWoken, DP!MarkWoken,
       D!PostAccepted, DP!PostAccepted, D!PostFails, DP!PostFails, D!PostRejected,
       DP!PostRejected, D!SetUndeliverable, DP!SetUndeliverable, D!AckPost,
       DP!AckPost, D!DriveRaises, DP!DriveRaises, D!Crash, DP!Crash, D!UserAsks,
       DP!UserAsks, D!tickVars, DP!tickVars, D!Collect, DP!Collect, D!Reply,
       DP!Reply, D!TurnDropped, DP!TurnDropped, D!ReportDone, DP!ReportDone,
       D!TypeOK, DP!TypeOK, D!WakeStates, DP!WakeStates, D!Places, DP!Places
<1>1. DP!TypeOK <=> D!TypeOK
  BY Zenon
<1>2. D!Init => DP!Init
  BY Zenon
<1>3. D!TickStep => DP!TickStep
  BY Zenon
<1>4. D!Crash => DP!Crash
  BY Zenon
<1>5. ASSUME NEW j PROVE /\ D!UserAsks(j) => DP!UserAsks(j)
                         /\ D!Collect(j) => DP!Collect(j)
                         /\ D!Reply(j) => DP!Reply(j)
                         /\ D!TurnDropped(j) => DP!TurnDropped(j)
                         /\ D!ReportDone(j) => DP!ReportDone(j)
  BY Zenon
<1>. QED
  BY <1>1, <1>2, <1>3, <1>4, <1>5, Zenon

-----------------------------------------------------------------------------
(* What a step of System is to Execution.                                    *)

\* The Supervisor, the Controller and their turns are nothing to Execution.
LEMMA ExecutionStep ==
  [Next]_vars => [EP!Next]_(EP!vars)
<1>. SUFFICES ASSUME [Next]_vars PROVE EP!Next \/ UNCHANGED EP!vars
  OBVIOUS
<1>1. CASE Start \/ Work
  <2>1. E!MainStep
    BY <1>1 DEF Start, Work, E!MainStep
  <2>. QED
    BY <2>1, SameExecution DEF EP!Next
<1>2. CASE Crash
  BY <1>2, SameExecution DEF Crash, EP!Next, EP!Environment
<1>3. CASE ReaderThread
  BY <1>3, SameExecution DEF ReaderThread, EP!Next, E!Attempts, EP!Attempts
<1>4. CASE Outside
  <2>1. CASE \E a \in E!Attempts : E!WorkerExits(a)
    BY <2>1, SameExecution DEF EP!Next, EP!Environment, E!Attempts, EP!Attempts
  <2>2. CASE \E j \in Jobs : E!CreateJob(j)
    BY <2>2, SameExecution DEF EP!Next, EP!Environment
  <2>3. CASE \E j \in Jobs : E!RequestKill(<<"job", j>>)
    <3>1. PICK j \in Jobs : EP!RequestKill(<<"job", j>>)
      BY <2>3, SameExecution
    <3>2. <<"job", j>> \in EP!Commands
      BY DEF EP!Commands
    <3>. QED
      BY <3>1, <3>2 DEF EP!Next, EP!Environment
  <2>4. CASE \E r \in Repos : E!BackoffExpires(r)
    BY <2>4, SameExecution DEF EP!Next, EP!Environment
  <2>. QED
    BY <1>4, <2>1, <2>2, <2>3, <2>4 DEF Outside
<1>5. CASE Deliver \/ Controller \/ UNCHANGED vars
  <2>1. UNCHANGED execVars
    BY <1>5 DEF Deliver, Controller, vars
  <2>2. EP!vars' = EP!vars
    BY <2>1 DEF execVars, EP!vars, EP!dbVars, EP!procVars, EP!mainVars, EP!boundVars
  <2>. QED
    BY <2>2
<1>. QED
  BY <1>1, <1>2, <1>3, <1>4, <1>5 DEF Next

\* Whatever the Supervisor and the Controller do, the jobs, the Workers and the
\* main thread behave as Execution says: Delivery writes no state that the
\* Scheduler, the Runner or the watchdog read.
THEOREM ImplementsExecution == Spec => EP!Spec
<1>1. Init => EP!Init
  BY SameExecution DEF Init
<1>. QED
  BY <1>1, ExecutionStep, PTL DEF Spec, EP!Spec

\* No more jobs run than the limits allow, in the whole daemon too.
THEOREM LimitsHold == Spec => []EP!ConcurrencyBound
BY ImplementsExecution, EP!LimitsKept, ExecutionAssumed, NoneIsNoPlan, PTL

\* Nor do its Workers exceed the global limit, those of timed-out jobs included,
\* whatever was killed, timed out or crashed before: but for the Workers of jobs to
\* which a completion that nobody waited for came.
THEOREM StaffHolds == Spec => []EP!StaffWithinLimit
<1>1. EP!Spec => []EP!StaffWithinLimit
  BY EP!StaffKept, ExecutionAssumed, NoneIsNoPlan
<1>. QED
  BY <1>1, ImplementsExecution, PTL

\* No job that ended has a Worker left running, whatever is delivered meanwhile, except
\* an orphan of a daemon that was killed, and the Worker of another run than the one
\* whose completion came late and ended the job.
THEOREM OrphansOutlive == Spec => []OnlyOrphansOutlive
<1>1. EP!Watched => OnlyOrphansOutlive
  <2>. SUFFICES ASSUME EP!Watched, NEW a \in E!Attempts, worker[a] = "alive",
                       state[a[1]] \in FinalStates,
                       ~ (reader[a] = "done" /\ stops > 0)
                PROVE  \E b \in overtaken : b[1] = a[1] /\ b # a /\ reader[b] = "done"
    BY DEF OnlyOrphansOutlive
  <2>1. a \in EP!Attempts
    BY DEF E!Attempts, EP!Attempts
  <2>2. EP!Manned(a)
    BY <2>1 DEF EP!Watched, EP!Known, EP!OrphansCounted, EP!Manned
  <2>3. ~ EP!Held(a[1])
    BY DEF EP!Held, FinalStates
  <2>4. EP!Late(a[1])
    BY <2>1, <2>2, <2>3 DEF EP!Watched, EP!WorkersHeld
  <2>. QED
    BY <2>2, <2>4 DEF EP!Late, EP!Manned
<1>2. EP!Spec => []EP!Watched
  BY EP!WatchedInvariant, ExecutionAssumed, NoneIsNoPlan
<1>. QED
  BY <1>1, <1>2, ImplementsExecution, PTL

-----------------------------------------------------------------------------
(* What a step of System is to Delivery.  It does not implement Delivery: a   *)
(* requeue takes columns back that Delivery never takes back.                 *)

\* A step outside the tick and the Controller's turn writes the columns of requeued
\* jobs at most.
BesideDelivery ==
  /\ UNCHANGED <<tickVars, ctlVars, crashes>>
  /\ \/ /\ ColumnsReset
        /\ Requeued = {} \/ (part = "work" /\ E!MainStep)
     \/ UNCHANGED columns

LEMMA DeliveryStep ==
  ASSUME Apart, [Next]_vars PROVE [DP!Next]_(DP!vars) \/ BesideDelivery
<1>1. CASE Start \/ Deliver
  BY <1>1, SameDelivery DEF Start, Deliver, D!TickStep, DP!Next
<1>2. CASE Controller
  BY <1>2, SameDelivery DEF Controller, DP!Next
<1>3. CASE Crash \/ (Work /\ pc' = "down")
  BY <1>3, SameDelivery DEF Crash, Work, DP!Next
<1>4. CASE Work /\ pc' # "down"
  BY <1>4 DEF Work, BesideDelivery
<1>5. CASE ReaderThread
  <2>1. \A j \in Jobs : state'[j] = state[j] \/ state'[j] \notin Begun
    BY <1>5, ReaderRows DEF ReaderThread, Apart
  <2>2. Requeued = {}
    BY <2>1 DEF Requeued, Begun
  <2>. QED
    BY <1>5, <2>2 DEF ReaderThread, BesideDelivery
<1>6. CASE Outside \/ UNCHANGED vars
  BY <1>6 DEF Outside, vars, BesideDelivery
<1>. QED
  BY <1>1, <1>2, <1>3, <1>4, <1>5, <1>6 DEF Next

\* It keeps the columns' types ...
LEMMA BesideTyped ==
  ASSUME D!TypeOK, BesideDelivery PROVE D!TypeOK'
<1>1. [j \in Jobs |-> state[j] \in DeliveryTerminalStates]' \in [Jobs -> BOOLEAN]
  OBVIOUS
<1>2. /\ reported' \in [Jobs -> BOOLEAN] /\ wakeState' \in [Jobs -> D!WakeStates]
      /\ wakeAttempts' \in [Jobs -> Nat] /\ overdue' \in [Jobs -> BOOLEAN]
  <2>1. CASE ColumnsReset
    BY <2>1 DEF D!TypeOK, D!WakeStates, ColumnsReset, Except
  <2>2. CASE UNCHANGED columns
    BY <2>2 DEF columns, D!TypeOK
  <2>. QED
    BY <2>1, <2>2 DEF BesideDelivery
<1>. QED
  BY <1>1, <1>2 DEF BesideDelivery, tickVars, ctlVars, D!TypeOK

\* ... takes no claim from a tick under way, and reports nothing.
LEMMA BesideSound ==
  ASSUME Apart, D!TypeOK, DP!TickInv, DP!ToldFirst, BesideDelivery
  PROVE  DP!TickInv' /\ DP!ToldFirst'
<1>. USE DEF DP!TickInv, DP!TickShape, DP!RowsFresh, DP!ClaimHeld, DP!Between,
       DP!ToldFirst, DP!ReportedWasTold, tickVars, ctlVars
<1>1. CASE UNCHANGED columns
  BY <1>1 DEF BesideDelivery, columns
<1>2. CASE ColumnsReset /\ Requeued = {}
  <2>1. UNCHANGED columns
    BY <1>2 DEF ColumnsReset, Except, columns, D!TypeOK
  <2>. QED
    BY <1>1, <2>1
<1>3. CASE ColumnsReset /\ part = "work"
  <2>1. place \in {"down", "idle"} /\ list = {} /\ driven = None
    BY <1>3 DEF Apart, TurnsTaken
  <2>2. \A j \in Jobs : reported'[j] => reported[j]
    BY <1>3 DEF ColumnsReset, Except
  <2>. QED
    BY <2>1, <2>2 DEF BesideDelivery
<1>. QED
  BY <1>1, <1>2, <1>3 DEF BesideDelivery

LEMMA DeliverySound ==
  Spec => [](D!TypeOK /\ DP!TickInv /\ DP!ToldFirst)
<1>. DEFINE Sound == D!TypeOK /\ DP!TickInv /\ DP!ToldFirst
<1>1. Init => Sound
  <2>. SUFFICES ASSUME Init PROVE Sound
    OBVIOUS
  <2>1. DP!Init
    BY SameDelivery DEF Init
  <2>2. DP!TypeOK
    BY <2>1, DP!TypeInit, DeliveryAssumed
  <2>3. DP!TickInv /\ DP!ToldFirst
    BY <2>1 DEF DP!Init, DP!Never, DP!TickInv, DP!TickShape, DP!RowsFresh, DP!ClaimHeld,
       DP!Between, DP!ToldFirst, DP!ReportedWasTold
  <2>. QED
    BY <2>2, <2>3, SameDelivery
<1>2. Apart /\ Sound /\ [Next]_vars => Sound'
  <2>. SUFFICES ASSUME Apart, Sound, [Next]_vars PROVE Sound'
    OBVIOUS
  <2>1. CASE [DP!Next]_(DP!vars)
    <3>1. DP!TypeOK
      BY SameDelivery
    <3>2. DP!TypeOK' /\ DP!TickInv' /\ DP!ToldFirst'
      BY <2>1, <3>1, DP!TypeStep, DP!TickInvStep, DP!ToldFirstStep, DeliveryAssumed
    <3>3. DP!TypeOK' => D!TypeOK'
      BY SameDelivery, PTL
    <3>. QED
      BY <3>2, <3>3
  <2>2. CASE BesideDelivery
    BY <2>2, BesideTyped, BesideSound
  <2>. QED
    BY <2>1, <2>2, DeliveryStep
<1>. QED
  BY <1>1, <1>2, ApartInvariant, PTL DEF Spec

\* In the whole daemon too a job counts as reported only after a message reached
\* Discord, and what is about to be POSTed is claimed: no requeue takes the claim
\* back between the two.
ClaimsHeld == place \in {"post", "ack", "give_up"} => wakeState[driven] = "fallback"

THEOREM ReportsFollowMessages == Spec => [](D!ReportedWasTold /\ ClaimsHeld)
<1>1. DP!TickInv /\ DP!ToldFirst => D!ReportedWasTold /\ ClaimsHeld
  BY DEF DP!TickInv, DP!ClaimHeld, DP!ToldFirst, DP!ReportedWasTold, D!ReportedWasTold,
     ClaimsHeld
<1>. QED
  BY <1>1, DeliverySound, PTL

-----------------------------------------------------------------------------
(* The types.                                                                *)

\* The tables, the processes and both parts of the tick keep their types.
THEOREM TypeCorrect == Spec => []TypeOK
<1>1. Spec => []E!TypeOK
  <2>1. EP!Spec => []EP!TypeOK
    BY EP!TypeCorrect, ExecutionAssumed, NoneIsNoPlan
  <2>. QED
    BY <2>1, ImplementsExecution, SameExecution, PTL
<1>2. Spec => [](part \in {"work", "deliver"})
  <2>1. Init => part \in {"work", "deliver"}
    BY DEF Init
  <2>2. part \in {"work", "deliver"} /\ [Next]_vars => (part \in {"work", "deliver"})'
    BY DEF Next, Start, Work, Crash, Deliver, ReaderThread, Outside, Controller, vars
  <2>. QED
    BY <2>1, <2>2, PTL DEF Spec
<1>. QED
  BY <1>1, <1>2, DeliverySound, PTL DEF TypeOK

-----------------------------------------------------------------------------
(* How often the fallback speaks.  In Delivery a job ends once; here it may    *)
(* run again, and every run has its outcome told.                              *)

\* A job's messages are no more than its attempts, one for an end that came before
\* a launch (a kill in the queue), and one for every crash of the daemon and every
\* error: but for the jobs to which a completion came that nobody waited for, which
\* may end an attempt twice.
PostsPerRun ==
  \A j \in Jobs : EP!Late(j) \/ posts[j] <= attempts[j] + 1 + crashes + lost

\* A message is paid for by an attempt, a crash or an error, but for the one the row
\* vouches for.  While the job may be requeued one of its attempts is unspent: it
\* pays when the requeue takes the row's word away.
RunsPaid ==
  \A j \in Jobs : ~ EP!Late(j) =>
    /\ posts[j] <= attempts[j] + crashes + lost + DP!Paid(j)
    /\ EP!MayRequeue(j) => posts[j] + 1 <= attempts[j] + crashes + lost + DP!Paid(j)

\* No run is taken back.
LEMMA RunsOnly ==
  ASSUME EP!Typed, [EP!Next]_(EP!vars), NEW j \in Jobs
  PROVE  attempts'[j] \in Nat /\ (attempts'[j] = attempts[j] \/ attempts'[j] = attempts[j] + 1)
<1>1. attempts[j] \in Nat
  BY SystemAssumption DEF EP!Typed, EP!TypeOK, EP!TablesTyped
<1>2. attempts'[j] = attempts[j] \/ attempts'[j] = attempts[j] + 1
  BY EP!AttemptsGrow, ExecutionAssumed, NoneIsNoPlan
<1>. QED
  BY <1>1, <1>2

\* The columns of a job that is not requeued say what they said.
LEMMA PaidStays ==
  ASSUME D!TypeOK, BesideDelivery, NEW j \in Jobs, j \notin Requeued \/ UNCHANGED columns
  PROVE  DP!Paid(j)' = DP!Paid(j)
<1>1. reported'[j] = reported[j]
  BY DEF BesideDelivery, ColumnsReset, Except, columns
<1>. QED
  BY <1>1 DEF BesideDelivery, tickVars, DP!Paid, DP!Closed

\* A requeue that takes columns back is the end of a run.
LEMMA RequeueEndsRun ==
  ASSUME Apart, EP!Typed, EP!Watched, EP!WritesSafe, [Next]_vars,
         BesideDelivery, NEW j \in Requeued, ~ EP!Late(j), ~ UNCHANGED columns
  PROVE  EP!MayRequeue(j) /\ ~ EP!MayRequeue(j)'
<1>1. E!MainStep /\ state' # state
  BY DEF BesideDelivery, Requeued
<1>2. E!WriteState
  BY <1>1, MainRows
<1>3. EP!WriteState
  BY <1>2 DEF E!WriteState, EP!WriteState, E!Goto, EP!Goto, E!LoopHeads, EP!LoopHeads,
     E!procVars, EP!procVars, E!boundVars, EP!boundVars
<1>4. j \in Jobs /\ cur = j /\ goal = "queued"
  BY <1>2 DEF E!WriteState, Requeued, Apart, Tables
<1>. QED
  BY <1>3, <1>4, EP!RunsEnd, ExecutionStep, ExecutionAssumed, NoneIsNoPlan

LEMMA RunsPaidStep ==
  ASSUME Apart, D!TypeOK, DP!TickInv, EP!Typed, EP!Watched, EP!WritesSafe, RunsPaid,
         [Next]_vars, D!TypeOK'
  PROVE  RunsPaid'
<1>1. [EP!Next]_(EP!vars)
  BY ExecutionStep
<1>. SUFFICES ASSUME NEW j \in Jobs, ~ EP!Late(j)'
              PROVE  /\ posts'[j] <= attempts'[j] + crashes' + lost' + DP!Paid(j)'
                     /\ EP!MayRequeue(j)' =>
                          posts'[j] + 1 <= attempts'[j] + crashes' + lost' + DP!Paid(j)'
  BY DEF RunsPaid
<1>0. ~ EP!Late(j)
  BY <1>1, EP!LateStays, ExecutionAssumed, NoneIsNoPlan DEF EP!Watched
<1>2. /\ attempts[j] \in Nat /\ attempts'[j] \in Nat
      /\ attempts'[j] = attempts[j] \/ attempts'[j] = attempts[j] + 1
  BY <1>1, RunsOnly, SystemAssumption DEF EP!Typed, EP!TypeOK, EP!TablesTyped
<1>3. EP!MayRequeue(j)' => EP!MayRequeue(j) \/ attempts'[j] = attempts[j] + 1
  BY <1>0, <1>1, EP!RunsBegin, ExecutionAssumed, NoneIsNoPlan
<1>4. posts[j] \in Nat /\ crashes \in Nat /\ lost \in Nat
  BY SystemAssumption DEF D!TypeOK
<1>5. posts'[j] \in Nat /\ crashes' \in Nat /\ lost' \in Nat
  BY SystemAssumption DEF D!TypeOK
<1>6. DP!Paid(j) \in {0, 1} /\ DP!Paid(j)' \in {0, 1}
  BY DEF DP!Paid
<1>7. /\ posts[j] <= attempts[j] + crashes + lost + DP!Paid(j)
      /\ EP!MayRequeue(j) => posts[j] + 1 <= attempts[j] + crashes + lost + DP!Paid(j)
  BY <1>0 DEF RunsPaid
<1>8. CASE [DP!Next]_(DP!vars)
  <2>1. DP!TypeOK
    BY SameDelivery
  <2>2. ASSUME NEW m \in Nat, posts[j] + m <= attempts[j] + crashes + lost + DP!Paid(j)
        PROVE  posts'[j] + m <= attempts[j] + crashes' + lost' + DP!Paid(j)'
    BY <1>2, <1>8, <2>1, <2>2, DP!PostsPaidStep, DeliveryAssumed
  <2>3. posts'[j] + 0 <= attempts[j] + crashes' + lost' + DP!Paid(j)'
    BY <1>4, <1>7, <2>2
  <2>4. EP!MayRequeue(j) => posts'[j] + 1 <= attempts[j] + crashes' + lost' + DP!Paid(j)'
    BY <1>7, <2>2
  <2>. QED
    BY <1>2, <1>3, <1>5, <1>6, <2>3, <2>4
<1>9. CASE BesideDelivery
  <2>1. posts' = posts /\ crashes' = crashes /\ lost' = lost
    BY <1>9 DEF BesideDelivery, ctlVars
  <2>2. CASE j \in Requeued /\ ~ UNCHANGED columns
    BY <1>0, <1>2, <1>4, <1>6, <1>7, <1>9, <2>1, <2>2, RequeueEndsRun
  <2>3. CASE j \notin Requeued \/ UNCHANGED columns
    <3>1. DP!Paid(j)' = DP!Paid(j)
      BY <1>9, <2>3, PaidStays
    <3>. QED
      BY <1>2, <1>3, <1>4, <1>6, <1>7, <2>1, <3>1
  <2>. QED
    BY <2>2, <2>3
<1>. QED
  BY <1>8, <1>9, DeliveryStep

\* A job that runs again is told again, and never more often than that: no requeue,
\* kill, timeout or retry of a drive adds a message of its own.
THEOREM MessagesPerRun == Spec => []PostsPerRun
<1>1. EP!Spec => [](EP!Typed /\ EP!Watched /\ EP!WritesSafe)
  <2>1. EP!Spec => []EP!Typed
    BY EP!TypedInvariant, ExecutionAssumed, NoneIsNoPlan
  <2>2. EP!Spec => []EP!Watched
    BY EP!WatchedInvariant, ExecutionAssumed, NoneIsNoPlan
  <2>3. EP!Spec => []EP!WritesSafe
    BY EP!WritesSafeInvariant, ExecutionAssumed, NoneIsNoPlan
  <2>. QED
    BY <2>1, <2>2, <2>3, PTL
<1>2. Init => RunsPaid
  <2>. SUFFICES ASSUME Init, NEW j \in Jobs
                PROVE  /\ posts[j] = 0 /\ attempts[j] = 0 /\ crashes = 0 /\ lost = 0
                       /\ ~ EP!MayRequeue(j)
    BY DEF RunsPaid, DP!Paid
  <2>1. EP!Init /\ DP!Init
    BY SameExecution, SameDelivery DEF Init
  <2>2. ~ EP!MayRequeue(j)
    BY <2>1, NoneIsNoJob DEF EP!Init, EP!MayRequeue, EP!Idle, EP!Busy, EP!Quiet
  <2>. QED
    BY <2>1, <2>2 DEF EP!Init, DP!Init, DP!Zero
<1>3. E!TypeOK /\ D!TypeOK /\ RunsPaid => PostsPerRun
  <2>. SUFFICES ASSUME E!TypeOK, D!TypeOK, RunsPaid, NEW j \in Jobs, ~ EP!Late(j)
                PROVE  posts[j] <= attempts[j] + 1 + crashes + lost
    BY DEF PostsPerRun
  <2>1. attempts[j] \in Nat /\ posts[j] \in Nat /\ crashes \in Nat /\ lost \in Nat
    BY SystemAssumption DEF E!TypeOK, E!TablesTyped, D!TypeOK
  <2>. QED
    BY <2>1 DEF RunsPaid, DP!Paid
<1>. QED
  BY <1>1, <1>2, <1>3, RunsPaidStep, ImplementsExecution, DeliverySound, ApartInvariant,
     TypeCorrect, PTL DEF Spec, TypeOK
=============================================================================
