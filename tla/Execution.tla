------------------------------ MODULE Execution ------------------------------
(***************************************************************************)
(* The execution plane of the daemon: Scheduler, Runner, Watchdog and the  *)
(* kill commands, over the jobs, attempts, sessions and repos tables.      *)
(*                                                                         *)
(* Three kinds of processes interleave.  The daemon's MAIN thread repeats  *)
(* _tick: commands, recovery, dispatch, watchdog (pc names its place).     *)
(* One READER thread per Worker runs on_complete when the Worker ends.     *)
(* The CLI inserts jobs and commands from processes of its own.            *)
(*                                                                         *)
(* A SQL statement is a step, and so is the body of transaction().  The    *)
(* statement transition_job reads the row with is followed by a write      *)
(* without a condition, and another thread may come between.  Statements   *)
(* are one step only where no other thread changes what they read or       *)
(* looks at what they write in between.                                    *)
(*                                                                         *)
(* A process that dies loses its threads and Runner._processes; the tables *)
(* and the Worker processes, which nobody kills, survive it.               *)
(***************************************************************************)
EXTENDS JobStore, Naturals, FiniteSets

CONSTANTS
  Jobs, Repos, Sessions, None,
  RepoOf,           \* the repo of each job
  SessionRepo,      \* the repo each session row may be created for
  MaxConcurrency,   \* repos.max_concurrency, per repo
  GlobalMax,        \* Scheduler.global_max_concurrency
  MaxRetries,       \* jobs.max_retries
  MaxAttempts,      \* bound: attempts per job
  MaxOvertaken,     \* bound: cleanups that go on without a completion
  MaxTimeouts,      \* bound: watchdog timeouts in a behaviour
  MaxKills,         \* bound: kill commands in a behaviour
  MaxStops          \* bound: crashes and shutdowns of the daemon

ASSUME ConstantsAssumption ==
  /\ IsFiniteSet(Jobs)
  /\ RepoOf \in [Jobs -> Repos]
  /\ SessionRepo \in [Sessions -> Repos]
  /\ MaxConcurrency \in [Repos -> Nat]
  /\ GlobalMax \in Nat /\ MaxRetries \in Nat /\ MaxAttempts \in Nat
  /\ MaxTimeouts \in Nat /\ MaxKills \in Nat /\ MaxStops \in Nat
  /\ MaxOvertaken \in Nat
  /\ None \notin Jobs \cup Sessions \cup JobStates
  /\ None \notin Jobs \X Nat

VARIABLES
  \* the database
  state,        \* jobs.state, or "absent" before the INSERT
  attempts,     \* how many attempt rows the job has; attempt k is <<j, k>>
  finished,     \* the attempts with finished_at set
  onSession,    \* attempts.session_id
  session,      \* sessions.state, or "absent"
  holder,       \* sessions.current_attempt_id
  backedOff,    \* repos.backoff_until lies in the future
  backoffCount, \* repos.backoff_count
  commands,     \* daemon_commands rows with processed = 0
  \* the processes
  worker,       \* the claude process of an attempt
  reader,       \* the place of the attempt's stdout reader thread
  registered,   \* Runner._processes
  \* the main thread
  pc, cur,      \* its place, and the job it works on
  goal, next,   \* the state transition_job is about to write, and the place after
  todo,         \* what is left of the list it iterates over
  plan,         \* the RecoveryAction check_all found for a job
  batch,        \* the commands polled and not yet executed
  touched,      \* the repos whose backoff drive_recovery has still to look at
  \* history, which no guard of the code reads
  overtaken,    \* the attempts the main thread did not wait for: their completion was
                \* under way when the watchdog's cleanup of the attempt went on, or
                \* when the job's next attempt began
  \* the bounds
  timeouts, kills, stops

dbVars    == <<state, attempts, finished, onSession, session, holder,
               backedOff, backoffCount, commands>>
procVars  == <<worker, reader, registered>>
mainVars  == <<pc, cur, goal, next, todo, plan, batch, touched>>
boundVars == <<overtaken, timeouts, kills, stops>>
vars == <<dbVars, procVars, mainVars, boundVars>>

Attempts == Jobs \X (1..MaxAttempts)
Latest(j) == <<j, attempts[j]>>
Commands == ({"job"} \X Jobs) \cup ({"repo"} \X Repos)

WorkerStates == {"none", "alive", "ended"}
ReaderPlaces ==
  {"none", "reading", "finish", "release", "check", "commit",
   "write_retryable", "write_permanent", "done"}
\* The completion, once its stale guard has let it pass.
PastGuard ==
  {"finish", "release", "check", "commit", "write_retryable", "write_permanent"}
SessionStates == {"absent", "idle", "busy", "dead"}
RecoveryActions == {"retry_same_session", "fork_session", "report_lost"}
ASSUME NoneIsNoAction == None \notin RecoveryActions

\* The heads of the main thread's loops, where no job is being worked on.
LoopHeads ==
  {"down", "commands", "command", "requeue_limited", "requeue_failed",
   "dispatch", "watchdog", "check", "stopping"}
MainPlaces ==
  LoopHeads \cup {"write", "killing", "requeue", "enter_starting", "occupy",
                  "enter_running", "spawn", "register", "look", "join", "act", "give_up"}

ActiveJobs == {j \in Jobs : state[j] \in ActiveStates}
ActiveIn(r) == {j \in ActiveJobs : RepoOf[j] = r}
\* Mutant: a clear does not look for jobs still waiting.
RateLimitedIgnored(r) == {}
RateLimitedIn(r) == {j \in Jobs : RepoOf[j] = r /\ state[j] = "rate_limited"}

TablesTyped ==
  /\ state \in [Jobs -> JobStates \cup {"absent"}]
  /\ attempts \in [Jobs -> 0..MaxAttempts]
  /\ finished \in SUBSET Attempts
  /\ onSession \in [Attempts -> Sessions \cup {None}]
  /\ session \in [Sessions -> SessionStates]
  /\ holder \in [Sessions -> Attempts \cup {None}]
  /\ backedOff \in [Repos -> BOOLEAN]
  /\ backoffCount \in [Repos -> Nat]
  /\ commands \in SUBSET Commands

ProcessesTyped ==
  /\ worker \in [Attempts -> WorkerStates]
  /\ reader \in [Attempts -> ReaderPlaces]
  /\ registered \in SUBSET Attempts

MainTyped ==
  /\ pc \in MainPlaces
  /\ cur \in Jobs \cup {None}
  /\ goal \in JobStates \cup {None}
  /\ next \in MainPlaces \cup {None}
  /\ todo \in SUBSET Jobs
  /\ plan \in [Jobs -> RecoveryActions \cup {None}]
  /\ batch \in SUBSET Commands
  /\ touched \in SUBSET Repos

BoundsTyped ==
  /\ overtaken \in SUBSET Attempts
  /\ timeouts \in 0..MaxTimeouts
  /\ kills \in 0..MaxKills
  /\ stops \in 0..MaxStops

TypeOK == TablesTyped /\ ProcessesTyped /\ MainTyped /\ BoundsTyped

Init ==
  /\ state = [j \in Jobs |-> "absent"]
  /\ attempts = [j \in Jobs |-> 0]
  /\ finished = {}
  /\ onSession = [a \in Attempts |-> None]
  /\ session = [s \in Sessions |-> "absent"]
  /\ holder = [s \in Sessions |-> None]
  /\ backedOff = [r \in Repos |-> FALSE]
  /\ backoffCount = [r \in Repos |-> 0]
  /\ commands = {}
  /\ worker = [a \in Attempts |-> "none"]
  /\ reader = [a \in Attempts |-> "none"]
  /\ registered = {}
  /\ pc = "down" /\ cur = None /\ goal = None /\ next = None
  /\ todo = {} /\ plan = [j \in Jobs |-> None] /\ batch = {} /\ touched = {}
  /\ overtaken = {} /\ timeouts = 0 /\ kills = 0 /\ stops = 0

-----------------------------------------------------------------------------
(* The main thread's moves.                                                 *)

Goto(place) ==
  /\ pc' = place
  /\ cur' = IF place \in LoopHeads THEN None ELSE cur

\* The first half of transition_job(j, to): get_job and the check.  The write
\* follows as a step of its own; ValueError leads to the place "bad".
TryTransition(j, to, good, bad) ==
  IF CanTransition(state[j], to)
    THEN /\ pc' = "write" /\ cur' = j /\ goal' = to /\ next' = good
    ELSE /\ pc' = bad /\ UNCHANGED <<goal, next>>
         /\ cur' = IF bad \in LoopHeads THEN None ELSE j

\* The second half of transition_job: UPDATE jobs SET state = ? WHERE id = ?.
WriteState ==
  /\ pc = "write"
  /\ state' = [state EXCEPT ![cur] = goal]
  /\ goal' = None /\ next' = None
  /\ Goto(next)
  /\ UNCHANGED <<attempts, finished, onSession, session, holder, backedOff,
                 backoffCount, commands, procVars, todo, plan, batch, touched,
                 boundVars>>

\* ClaudeProcess.stop: SIGTERM, then SIGKILL, and wait.  It returns with the
\* process ended; the process may have ended by itself just before.
StopWorker(a) == worker' = [worker EXCEPT ![a] = "ended"]

DaemonStarts ==
  /\ pc = "down"
  /\ Goto("commands")
  /\ UNCHANGED <<dbVars, procVars, goal, next, todo, plan, batch, touched, boundVars>>

-----------------------------------------------------------------------------
(* _process_commands: the rows are marked processed before they are run.    *)

PollCommands ==
  /\ pc = "commands"
  /\ batch' = commands /\ commands' = {}
  /\ Goto("command")
  /\ UNCHANGED <<state, attempts, finished, onSession, session, holder, backedOff,
                 backoffCount, procVars, goal, next, todo, plan, touched, boundVars>>

\* The jobs a command kills; kill_repo skips every state but these three.
Targets(c) ==
  IF c[1] = "job"
    THEN {c[2]}
    ELSE {j \in Jobs : /\ RepoOf[j] = c[2]
                       /\ state[j] \in {"queued", "starting", "running"}}

NextCommand(c) ==
  /\ pc = "command" /\ todo = {} /\ c \in batch
  /\ batch' = batch \ {c}
  /\ todo' = Targets(c)
  /\ UNCHANGED <<dbVars, procVars, pc, cur, goal, next, plan, touched, boundVars>>

\* Mutant: only the row is changed.
KillStopRowOnly(j) ==
  /\ pc = "command" /\ j \in todo
  /\ todo' = todo \ {j}
  /\ pc' = "killing" /\ cur' = j
  /\ UNCHANGED <<dbVars, procVars, goal, next, plan, batch, touched, boundVars>>

\* _cmd_kill_job: stop the newest attempt Runner knows a process of ...
KillStop(j) ==
  /\ pc = "command" /\ j \in todo
  /\ todo' = todo \ {j}
  /\ pc' = "killing" /\ cur' = j
  /\ LET known == {a \in registered : a[1] = j}
     IN  IF known = {} THEN UNCHANGED worker
         ELSE \E a \in known : /\ \A b \in known : b[2] <= a[2]
                               /\ StopWorker(a)
  /\ UNCHANGED <<dbVars, reader, registered, goal, next, plan, batch, touched, boundVars>>

\* ... and fail the job, whatever stop found.
KillJob ==
  /\ pc = "killing"
  /\ TryTransition(cur, "failed_permanent", "command", "command")
  /\ UNCHANGED <<dbVars, procVars, todo, plan, batch, touched, boundVars>>

-----------------------------------------------------------------------------
(* Scheduler.drive_recovery                                                 *)

\* requeue_job: the retry budget is enforced here and nowhere else.  It reads
\* the row; its transitions are not guarded: ValueError leaves _tick and ends
\* the daemon.
RequeueJob(j, back) ==
  IF attempts[j] >= MaxRetries
    THEN TryTransition(j, "failed_permanent", back, "stopping")
    ELSE IF CanTransition(state[j], "queued")
      THEN pc' = "requeue" /\ cur' = j /\ next' = back /\ UNCHANGED goal
      ELSE pc' = back /\ cur' = None /\ UNCHANGED <<goal, next>>

\* ... and transition_job reads the row once more.
Requeue ==
  /\ pc = "requeue"
  /\ IF CanTransition(state[cur], "queued")
       THEN pc' = "write" /\ goal' = "queued" /\ UNCHANGED <<cur, next>>
       ELSE pc' = "stopping" /\ cur' = None /\ next' = None /\ UNCHANGED goal
  /\ UNCHANGED <<dbVars, procVars, todo, plan, batch, touched, boundVars>>

ListRateLimited ==
  /\ pc = "command" /\ todo = {} /\ batch = {}
  /\ todo' = {j \in Jobs : state[j] = "rate_limited"}
  /\ touched' = {RepoOf[j] : j \in todo'}
  /\ Goto("requeue_limited")
  /\ UNCHANGED <<dbVars, procVars, goal, next, plan, batch, boundVars>>

RequeueLimited(j) ==
  /\ pc = "requeue_limited" /\ j \in todo
  /\ todo' = todo \ {j}
  /\ IF backedOff[RepoOf[j]]
       THEN UNCHANGED <<pc, cur, goal, next>>
       ELSE RequeueJob(j, "requeue_limited")
  /\ UNCHANGED <<dbVars, procVars, plan, batch, touched, boundVars>>

\* Mutant: the backoff decays instead of being reset.
ClearBackoffDecays(r) ==
  /\ pc = "requeue_limited" /\ todo = {} /\ r \in touched
  /\ touched' = touched \ {r}
  /\ IF RateLimitedIn(r) = {}
       THEN /\ backedOff' = [backedOff EXCEPT ![r] = FALSE]
            /\ backoffCount' = [backoffCount EXCEPT ![r] = @ - 1]
       ELSE UNCHANGED <<backedOff, backoffCount>>
  /\ UNCHANGED <<state, attempts, finished, onSession, session, holder, commands,
                 procVars, pc, cur, goal, next, todo, plan, batch, boundVars>>

\* The count and the clear are one transaction.
ClearBackoff(r) ==
  /\ pc = "requeue_limited" /\ todo = {} /\ r \in touched
  /\ touched' = touched \ {r}
  /\ IF RateLimitedIn(r) = {}
       THEN /\ backedOff' = [backedOff EXCEPT ![r] = FALSE]
            /\ backoffCount' = [backoffCount EXCEPT ![r] = 0]
       ELSE UNCHANGED <<backedOff, backoffCount>>
  /\ UNCHANGED <<state, attempts, finished, onSession, session, holder, commands,
                 procVars, pc, cur, goal, next, todo, plan, batch, boundVars>>

ListFailed ==
  /\ pc = "requeue_limited" /\ todo = {} /\ touched = {}
  /\ todo' = {j \in Jobs : state[j] = "failed_retryable"}
  /\ Goto("requeue_failed")
  /\ UNCHANGED <<dbVars, procVars, goal, next, plan, batch, touched, boundVars>>

RequeueFailed(j) ==
  /\ pc = "requeue_failed" /\ j \in todo
  /\ todo' = todo \ {j}
  /\ RequeueJob(j, "requeue_failed")
  /\ UNCHANGED <<dbVars, procVars, plan, batch, touched, boundVars>>

RecoveryDone ==
  /\ pc = "requeue_failed" /\ todo = {}
  /\ Goto("dispatch")
  /\ UNCHANGED <<dbVars, procVars, goal, next, todo, plan, batch, touched, boundVars>>

-----------------------------------------------------------------------------
(* _dispatch_queued_jobs and Runner.run_job                                 *)

\* Mutant: off by one.
CanRunOffByOne(r) ==
  /\ ~ backedOff[r]
  /\ Cardinality(ActiveJobs) <= GlobalMax
  /\ Cardinality(ActiveIn(r)) <= MaxConcurrency[r]

\* can_run.  Several statements, but only this thread raises the counts.
CanRun(r) ==
  /\ ~ backedOff[r]
  /\ Cardinality(ActiveJobs) < GlobalMax
  /\ Cardinality(ActiveIn(r)) < MaxConcurrency[r]

\* next_job may return it.  Priority and enqueue_at only order the candidates.
Runnable(j) ==
  /\ state[j] = "queued" /\ CanRun(RepoOf[j])
  /\ attempts[j] < MaxAttempts

\* An idle session of the repo, or a new row when there is none.
Usable(s, r) ==
  /\ SessionRepo[s] = r
  /\ \/ session[s] = "idle"
     \/ /\ session[s] = "absent"
        /\ \A t \in Sessions : SessionRepo[t] = r => session[t] # "idle"

\* The choice of job and session, create_session, create_attempt.  A completion of
\* an earlier attempt that is past its stale guard goes on beside the new one.
PickJob(j, s) ==
  /\ pc = "dispatch" /\ Runnable(j) /\ Usable(s, RepoOf[j])
  /\ session' = [session EXCEPT ![s] = "idle"]
  /\ attempts' = [attempts EXCEPT ![j] = @ + 1]
  /\ onSession' = [onSession EXCEPT ![<<j, attempts[j] + 1>>] = s]
  /\ pc' = "enter_starting" /\ cur' = j
  /\ overtaken' = overtaken \cup {a \in Attempts : a[1] = j /\ reader[a] \in PastGuard}
  /\ UNCHANGED <<state, finished, holder, backedOff, backoffCount, commands,
                 procVars, goal, next, todo, plan, batch, touched, timeouts, kills, stops>>

EnterStarting ==
  /\ pc = "enter_starting"
  /\ TryTransition(cur, "starting", "occupy", "dispatch")
  /\ UNCHANGED <<dbVars, procVars, todo, plan, batch, touched, boundVars>>

OccupySession ==
  /\ pc = "occupy"
  /\ LET s == onSession[Latest(cur)]
     IN  /\ session' = [session EXCEPT ![s] = "busy"]
         /\ holder' = [holder EXCEPT ![s] = Latest(cur)]
  /\ Goto("enter_running")
  /\ UNCHANGED <<state, attempts, finished, onSession, backedOff, backoffCount, commands,
                 procVars, goal, next, todo, plan, batch, touched, boundVars>>

EnterRunning ==
  /\ pc = "enter_running"
  /\ TryTransition(cur, "running", "spawn", "dispatch")
  /\ UNCHANGED <<dbVars, procVars, todo, plan, batch, touched, boundVars>>

\* ClaudeProcess.start: Popen and the reader thread.
SpawnWorker ==
  /\ pc = "spawn"
  /\ worker' = [worker EXCEPT ![Latest(cur)] = "alive"]
  /\ reader' = [reader EXCEPT ![Latest(cur)] = "reading"]
  /\ Goto("register")
  /\ UNCHANGED <<dbVars, registered, goal, next, todo, plan, batch, touched, boundVars>>

\* The process enters _processes after it started: its reader may have popped
\* the entry already, and then it stays.
RegisterProcess ==
  /\ pc = "register"
  /\ registered' = registered \cup {Latest(cur)}
  /\ Goto("dispatch")
  /\ UNCHANGED <<dbVars, worker, reader, goal, next, todo, plan, batch, touched, boundVars>>

\* claude is not installed: RunnerError, caught and undone.
SpawnRefused ==
  /\ pc = "spawn"
  /\ finished' = finished \cup {Latest(cur)}
  /\ session' = [session EXCEPT ![onSession[Latest(cur)]] = "idle"]
  /\ TryTransition(cur, "failed_retryable", "dispatch", "dispatch")
  /\ UNCHANGED <<state, attempts, onSession, holder, backedOff, backoffCount, commands,
                 procVars, todo, plan, batch, touched, boundVars>>

\* Any other OSError of Popen (permissions, memory) is logged by the caller.
SpawnRaises ==
  /\ pc = "spawn"
  /\ Goto("dispatch")
  /\ UNCHANGED <<dbVars, procVars, goal, next, todo, plan, batch, touched, boundVars>>

DispatchDone ==
  /\ pc = "dispatch" /\ \A j \in Jobs : ~ Runnable(j)
  /\ Goto("watchdog")
  /\ UNCHANGED <<dbVars, procVars, goal, next, todo, plan, batch, touched, boundVars>>

-----------------------------------------------------------------------------
(* _run_watchdog: check_all over all jobs, then apply_recovery per action.  *)

\* check_interval has not passed since the last check.
SkipWatchdog ==
  /\ pc = "watchdog"
  /\ Goto("commands")
  /\ UNCHANGED <<dbVars, procVars, goal, next, todo, plan, batch, touched, boundVars>>

ListActive ==
  /\ pc = "watchdog"
  /\ todo' = ActiveJobs
  /\ Goto("check")
  /\ UNCHANGED <<dbVars, procVars, goal, next, plan, batch, touched, boundVars>>

\* _handle_timeout: the attempt is older than job_timeout, or its process is
\* silent for heartbeat_timeout.  The action stands even when the job ended
\* meanwhile and the transition raises.
CheckTimeout(j) ==
  /\ timeouts < MaxTimeouts
  /\ timeouts' = timeouts + 1
  /\ pc = "check" /\ j \in todo /\ attempts[j] > 0
  /\ todo' = todo \ {j}
  /\ plan' = [plan EXCEPT ![j] = IF attempts[j] <= 1 THEN "retry_same_session"
                                                     ELSE "fork_session"]
  /\ TryTransition(j, "timed_out", "check", "check")
  /\ UNCHANGED <<dbVars, procVars, batch, touched, overtaken, kills, stops>>

\* _check_job reads the attempt's row first ...
CheckUnfinished(j) ==
  /\ pc = "check" /\ j \in todo
  /\ attempts[j] > 0 /\ Latest(j) \notin finished
  /\ todo' = todo \ {j}
  /\ pc' = "look" /\ cur' = j
  /\ UNCHANGED <<dbVars, procVars, goal, next, plan, batch, touched, boundVars>>

CheckFinished(j) ==
  /\ pc = "check" /\ j \in todo
  /\ attempts[j] = 0 \/ Latest(j) \in finished
  /\ todo' = todo \ {j}
  /\ UNCHANGED <<dbVars, procVars, pc, cur, goal, next, plan, batch, touched, boundVars>>

\* ... and asks Runner for the process then, which a completion may have taken
\* out meanwhile: _handle_lost, on a row that says unfinished.
CheckLost ==
  /\ pc = "look" /\ Latest(cur) \notin registered
  /\ plan' = [plan EXCEPT ![cur] = "report_lost"]
  /\ TryTransition(cur, "lost", "check", "check")
  /\ UNCHANGED <<dbVars, procVars, todo, batch, touched, boundVars>>

CheckHealthy ==
  /\ pc = "look" /\ Latest(cur) \in registered
  /\ Goto("check")
  /\ UNCHANGED <<dbVars, procVars, goal, next, todo, plan, batch, touched, boundVars>>

\* Mutant: cleanup only of jobs that are still active, which a job whose timeout
\* was already written is not.
NeedsCleanupIfActive(j) == state[j] \in ActiveStates
NeedsCleanup(j) == state[j] \in ActiveStates \cup {"timed_out", "lost"}

\* apply_recovery: stop the process first, whatever the action.
ApplyRecovery(j) ==
  /\ pc = "check" /\ todo = {} /\ plan[j] # None
  /\ cur' = j
  /\ IF NeedsCleanup(j)
       THEN /\ pc' = "join"
            /\ IF Latest(j) \in registered THEN StopWorker(Latest(j)) ELSE UNCHANGED worker
       ELSE pc' = "act" /\ UNCHANGED worker
  /\ UNCHANGED <<dbVars, reader, registered, goal, next, todo, plan, batch, touched, boundVars>>

\* The rest of _cleanup_running_process.  It joins the reader thread for 5 s, and
\* not at all once the process is popped, and goes on whether or not the completion
\* is through: the attempt is finished, and the session is idle whoever holds it.
ReleaseSlot ==
  /\ pc = "join"
  /\ LET a == Latest(cur)
     IN  /\ IF reader[a] \in {"none", "done"}
              THEN UNCHANGED overtaken
              ELSE /\ overtaken' = overtaken \cup {a}
                   /\ Cardinality(overtaken') <= MaxOvertaken
         /\ finished' = finished \cup {a}
         /\ session' = [session EXCEPT ![onSession[a]] = "idle"]
  /\ Goto("act")
  /\ UNCHANGED <<state, attempts, onSession, holder, backedOff, backoffCount, commands,
                 procVars, goal, next, todo, plan, batch, touched, timeouts, kills, stops>>

RetrySameSession ==
  /\ pc = "act" /\ plan[cur] = "retry_same_session"
  /\ plan' = [plan EXCEPT ![cur] = None]
  /\ TryTransition(cur, "queued", "check", "check")
  /\ UNCHANGED <<dbVars, procVars, todo, batch, touched, boundVars>>

\* _mark_old_session_dead, create_session, and the requeue.
ForkSession(s) ==
  /\ pc = "act" /\ plan[cur] = "fork_session"
  /\ session[s] = "absent" /\ SessionRepo[s] = RepoOf[cur]
  /\ session' = [session EXCEPT ![onSession[Latest(cur)]] = "dead", ![s] = "idle"]
  /\ plan' = [plan EXCEPT ![cur] = None]
  /\ TryTransition(cur, "queued", "check", "give_up")
  /\ UNCHANGED <<state, attempts, finished, onSession, holder, backedOff, backoffCount,
                 commands, procVars, todo, batch, touched, boundVars>>

GiveUp ==
  /\ pc = "give_up"
  /\ TryTransition(cur, "failed_permanent", "check", "check")
  /\ UNCHANGED <<dbVars, procVars, todo, plan, batch, touched, boundVars>>

ReportLost ==
  /\ pc = "act" /\ plan[cur] = "report_lost"
  /\ plan' = [plan EXCEPT ![cur] = None]
  /\ TryTransition(cur, "needs_controller", "check", "check")
  /\ UNCHANGED <<dbVars, procVars, todo, batch, touched, boundVars>>

RecoveriesApplied ==
  /\ pc = "check" /\ todo = {} /\ \A j \in Jobs : plan[j] = None
  /\ Goto("commands")
  /\ UNCHANGED <<dbVars, procVars, goal, next, todo, plan, batch, touched, boundVars>>

-----------------------------------------------------------------------------
(* The end of the process.  The Supervisor's part of the tick is in Delivery. *)

\* SIGTERM, SIGINT or the shutdown command came: _running is read between ticks.
StopRequested ==
  /\ pc = "commands" /\ stops < MaxStops
  /\ stops' = stops + 1
  /\ Goto("stopping")
  /\ UNCHANGED <<dbVars, procVars, goal, next, todo, plan, batch, touched,
                 overtaken, timeouts, kills>>

\* Runner.stop_all, one process at a time.
StopOne(a) ==
  /\ pc = "stopping" /\ a \in registered /\ worker[a] = "alive"
  /\ StopWorker(a)
  /\ UNCHANGED <<dbVars, reader, registered, mainVars, boundVars>>

\* The reader threads are daemon threads: they die wherever they are.
ProcessEnds ==
  /\ reader' = [a \in Attempts |-> IF reader[a] = "none" THEN "none" ELSE "done"]
  /\ registered' = {}
  /\ Goto("down")
  /\ goal' = None /\ next' = None
  /\ todo' = {} /\ plan' = [j \in Jobs |-> None] /\ batch' = {} /\ touched' = {}
  /\ UNCHANGED <<dbVars, worker>>

DaemonExits ==
  /\ pc = "stopping" /\ \A a \in registered : worker[a] # "alive"
  /\ ProcessEnds
  /\ UNCHANGED boundVars

\* SIGKILL at any point: the Workers go on as orphans.
Crash ==
  /\ pc # "down" /\ stops < MaxStops
  /\ stops' = stops + 1
  /\ ProcessEnds
  /\ UNCHANGED <<overtaken, timeouts, kills>>

-----------------------------------------------------------------------------
(* The Workers and their reader threads (_read_stdout, on_complete).  How a *)
(* Worker ended (exit 0, a rate-limit message, SIGTERM, another failure) is *)
(* chosen at "commit", where on_complete first lets it matter.              *)

WorkerExits(a) ==
  /\ worker[a] = "alive"
  /\ worker' = [worker EXCEPT ![a] = "ended"]
  /\ UNCHANGED <<dbVars, reader, registered, mainVars, boundVars>>

Move(a, from, to) == reader[a] = from /\ reader' = [reader EXCEPT ![a] = to]

\* The stale guard: a newer attempt row means this completion is dropped.
ReaderGuard(a) ==
  /\ worker[a] = "ended"
  /\ IF a = Latest(a[1])
       THEN Move(a, "reading", "finish") /\ UNCHANGED registered
       ELSE Move(a, "reading", "done") /\ registered' = registered \ {a}
  /\ UNCHANGED <<dbVars, worker, mainVars, boundVars>>

ReaderFinish(a) ==
  /\ Move(a, "finish", "release")
  /\ finished' = finished \cup {a}
  /\ UNCHANGED <<state, attempts, onSession, session, holder, backedOff, backoffCount,
                 commands, worker, registered, mainVars, boundVars>>

\* cas_update_session, then the pop from _processes.
ReaderRelease(a) ==
  /\ Move(a, "release", "check")
  /\ LET s == onSession[a]
     IN  session' = IF holder[s] = a THEN [session EXCEPT ![s] = "idle"] ELSE session
  /\ registered' = registered \ {a}
  /\ UNCHANGED <<state, attempts, finished, onSession, holder, backedOff, backoffCount,
                 commands, worker, mainVars, boundVars>>

ReaderCheck(a) ==
  /\ Move(a, "check", IF state[a[1]] \in ActiveStates THEN "commit" ELSE "done")
  /\ UNCHANGED <<dbVars, worker, registered, mainVars, boundVars>>

\* Scheduler.on_success: one transaction, which checks the state again.
ReaderSucceeds(a) ==
  /\ Move(a, "commit", "done")
  /\ IF CanTransition(state[a[1]], "succeeded")
       THEN /\ state' = [state EXCEPT ![a[1]] = "succeeded"]
            /\ IF RateLimitedIn(RepoOf[a[1]]) = {}
                 THEN /\ backedOff' = [backedOff EXCEPT ![RepoOf[a[1]]] = FALSE]
                      /\ backoffCount' = [backoffCount EXCEPT ![RepoOf[a[1]]] = 0]
                 ELSE UNCHANGED <<backedOff, backoffCount>>
       ELSE UNCHANGED <<state, backedOff, backoffCount>>
  /\ UNCHANGED <<attempts, finished, onSession, session, holder, commands,
                 worker, registered, mainVars, boundVars>>

\* Scheduler.on_rate_limit: one transaction; it raises when the check fails.
ReaderRateLimited(a) ==
  /\ Move(a, "commit", "done")
  /\ IF CanTransition(state[a[1]], "rate_limited")
       THEN /\ state' = [state EXCEPT ![a[1]] = "rate_limited"]
            /\ backedOff' = [backedOff EXCEPT ![RepoOf[a[1]]] = TRUE]
            /\ backoffCount' = [backoffCount EXCEPT ![RepoOf[a[1]]] = @ + 1]
       ELSE UNCHANGED <<state, backedOff, backoffCount>>
  /\ UNCHANGED <<attempts, finished, onSession, session, holder, commands,
                 worker, registered, mainVars, boundVars>>

\* transition_job("failed_permanent") after SIGTERM, "failed_retryable" after
\* any other failure: the read, then the write.
ReaderFails(a) ==
  /\ \/ /\ CanTransition(state[a[1]], "failed_permanent")
        /\ Move(a, "commit", "write_permanent")
     \/ /\ CanTransition(state[a[1]], "failed_retryable")
        /\ Move(a, "commit", "write_retryable")
     \/ /\ ~ CanTransition(state[a[1]], "failed_retryable")
        /\ Move(a, "commit", "done")
  /\ UNCHANGED <<dbVars, worker, registered, mainVars, boundVars>>

ReaderWrites(a) ==
  /\ \/ /\ Move(a, "write_permanent", "done")
        /\ state' = [state EXCEPT ![a[1]] = "failed_permanent"]
     \/ /\ Move(a, "write_retryable", "done")
        /\ state' = [state EXCEPT ![a[1]] = "failed_retryable"]
  /\ UNCHANGED <<attempts, finished, onSession, session, holder, backedOff, backoffCount,
                 commands, worker, registered, mainVars, boundVars>>

-----------------------------------------------------------------------------
(* The CLI, and time.                                                       *)

CreateJob(j) ==
  /\ state[j] = "absent"
  /\ state' = [state EXCEPT ![j] = "queued"]
  /\ UNCHANGED <<attempts, finished, onSession, session, holder, backedOff, backoffCount,
                 commands, procVars, mainVars, boundVars>>

RequestKill(c) ==
  /\ kills < MaxKills
  /\ kills' = kills + 1
  /\ commands' = commands \cup {c}
  /\ UNCHANGED <<state, attempts, finished, onSession, session, holder, backedOff,
                 backoffCount, procVars, mainVars, overtaken, timeouts, stops>>

BackoffExpires(r) ==
  /\ backedOff[r]
  /\ backedOff' = [backedOff EXCEPT ![r] = FALSE]
  /\ UNCHANGED <<state, attempts, finished, onSession, session, holder, backoffCount,
                 commands, procVars, mainVars, boundVars>>

-----------------------------------------------------------------------------
MainStep ==
  \/ DaemonStarts \/ PollCommands \/ KillJob \/ WriteState
  \/ \E c \in Commands : NextCommand(c)
  \/ \E j \in Jobs : KillStop(j)
  \/ ListRateLimited \/ ListFailed \/ RecoveryDone \/ Requeue
  \/ \E j \in Jobs : RequeueLimited(j) \/ RequeueFailed(j)
  \/ \E r \in Repos : ClearBackoff(r)
  \/ \E j \in Jobs, s \in Sessions : PickJob(j, s)
  \/ EnterStarting \/ OccupySession \/ EnterRunning
  \/ SpawnWorker \/ SpawnRefused \/ SpawnRaises \/ RegisterProcess \/ DispatchDone
  \/ SkipWatchdog \/ ListActive
  \/ \E j \in Jobs : \/ CheckTimeout(j) \/ CheckUnfinished(j) \/ CheckFinished(j)
                    \/ ApplyRecovery(j)
  \/ CheckLost \/ CheckHealthy
  \/ ReleaseSlot \/ RetrySameSession \/ GiveUp \/ ReportLost \/ RecoveriesApplied
  \/ \E s \in Sessions : ForkSession(s)
  \/ StopRequested \/ DaemonExits
  \/ \E a \in Attempts : StopOne(a)

ReaderStep(a) ==
  \/ ReaderGuard(a) \/ ReaderFinish(a) \/ ReaderRelease(a) \/ ReaderCheck(a)
  \/ ReaderSucceeds(a) \/ ReaderRateLimited(a) \/ ReaderFails(a) \/ ReaderWrites(a)

Environment ==
  \/ Crash
  \/ \E a \in Attempts : WorkerExits(a)
  \/ \E j \in Jobs : CreateJob(j)
  \/ \E c \in Commands : RequestKill(c)
  \/ \E r \in Repos : BackoffExpires(r)

Next ==
  \/ MainStep
  \/ \E a \in Attempts : ReaderStep(a)
  \/ Environment

Spec == Init /\ [][Next]_vars

-----------------------------------------------------------------------------
(* Properties.                                                              *)

\* Scheduler.can_run is a check before an act, on counts the reader threads
\* change meanwhile: the jobs in starting or running never exceed the global
\* limit, nor a repo's own limit.
ConcurrencyBound ==
  /\ Cardinality(ActiveJobs) <= GlobalMax
  /\ \A r \in Repos : Cardinality(ActiveIn(r)) <= MaxConcurrency[r]

\* The reason on_rate_limit is one transaction: a job waiting in rate_limited
\* always has its repo's backoff on record, whichever of on_success and
\* drive_recovery cleared it last.
BackoffRecorded ==
  \A j \in Jobs : state[j] = "rate_limited" => backoffCount[RepoOf[j]] > 0

LiveAttempts == {a \in Attempts : worker[a] = "alive"}

\* The limit is about processes, and a job has one Worker at a time: orphans and
\* Workers of timed-out jobs included, the claude processes alive at a time exceed
\* the global limit, and those of a job exceed one, only where a daemon was killed
\* and left its own behind, or a completion that was not waited for ended the run of
\* a later attempt: by one process each.
Overtaken(J) == {a \in overtaken : a[1] \in J}
LiveOf(J) == {a \in LiveAttempts : a[1] \in J}
WorkersWithinLimit ==
  /\ Cardinality(LiveAttempts) <= GlobalMax * (1 + stops) + Cardinality(overtaken)
  /\ \A j \in Jobs :
       Cardinality(LiveOf({j})) <= 1 + stops + Cardinality(Overtaken({j}))

\* A job that ended (succeeded, failed, killed) has no Worker left running, but for
\* the same two: an orphan, which nobody reads and nobody can stop, or the Worker of
\* a run that the completion of an earlier attempt ended.
EndedJobHasNoWorker ==
  \A a \in LiveAttempts : state[a[1]] \in FinalStates =>
    \/ reader[a] = "done" /\ stops > 0
    \/ \E b \in Overtaken({a[1]}) : reader[b] = "done"

\* VALID_TRANSITIONS, "Terminal states - no transitions out".
TerminalIsFinal ==
  [][\A j \in Jobs : state[j] \in FinalStates => state'[j] = state[j]]_vars

\* The count of consecutive rate limits, which the exponential backoff grows with,
\* is taken back "on success": no step but a job's success resets it.
ResetOnSuccess ==
  [][\A r \in Repos :
       backoffCount[r] > 0 /\ backoffCount'[r] = 0
         => \E j \in Jobs : RepoOf[j] = r /\ state[j] # "succeeded" /\ state'[j] = "succeeded"]_vars
=============================================================================
