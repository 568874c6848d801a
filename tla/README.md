# Verification of claude-discord-agent

TLA+ models of the job controller in this repository, checked with TLC and proved
about with TLAPS. The models are read from `lib/*.py` and `orchestrator.py`; every
definition that stands for code is listed with its lines in `PROJECT.json` under `map`.

## 1. The system

| Component | State it keeps | Operations |
| --- | --- | --- |
| Job store, `lib/db.py` | SQLite: repos (names, aliases, limits, backoff), jobs (state, chain, delivery columns), attempts, sessions, daemon_commands | `transition_job` over `VALID_TRANSITIONS`, compare-and-swaps on sessions and on the delivery columns, short transactions, `list_jobs` with its order and LIMIT |
| Scheduler, BackoffTracker, `lib/scheduler.py` | none of its own | `can_run`, `next_job`, `on_success`, `on_rate_limit`, `requeue_job`, `drive_recovery`, `_dispatch_chain_next` |
| Runner and Workers, `lib/runner.py` | `_processes`; one `claude` process and one reader thread per attempt | `run_job`, `on_complete`, `stop_job`, `stop_all` |
| Watchdog, `lib/watchdog.py` | none | `check_all`, `apply_recovery` |
| Daemon, `lib/daemon.py` | `_running`, the PID file | start, stop, `is_daemon_running`; `_tick`: commands, recovery, dispatch, watchdog, Supervisor |
| Supervisor, Notifier, `lib/supervisor.py`, `lib/notifier.py` | `controller.pane` | `tick`: wake the Controller, or claim and POST |
| Chain dispatch, `lib/scheduler.py`, `orchestrator.py` | `jobs.chain_next`, `chain_depth` | dispatch of a chain file, dispatch of the next job, `chain-resume` |
| Registry, `lib/registry.py` | the repos table, `repos.json` | create-repo, update-repo, name resolution, export |
| CLI, `orchestrator.py` | none | dispatch, kill, collect, report-done, chain-resume, daemon start and stop, ... in processes of their own |
| Controller, `skills/discord-agent/SKILL.md` | a Claude Code session | collect, reply on Discord, report-done |
| Pure parts | none | `result_parser`, `timeparse`, `spec`, `paths` |

The components meet in the database. The daemon's main thread repeats `_tick`; each
Worker's reader thread runs `on_complete` on its own when the Worker ends, on a SQLite
connection of its own; CLI commands and the Controller write from other processes; and
a crash of the daemon leaves the tables, the PID file and the Worker processes behind.

What makes it hard:

- `transition_job` is a read and an unconditional write, and two threads call it.
- A completion runs through six statements, and the watchdog's timeout, the kill command
  and the requeue of the same job can come between any two of them.
- The watchdog stops a Worker, waits for its completion for 5 s, or not at all once the process
  was popped, and then goes on: a completion can come to the job's next attempt.
- A Worker survives the daemon; the registry of processes does not.
- A delivery crosses three systems (SQLite, tmux, Discord) without a transaction, and the
  Controller is an agent that may be slow, silent, or answer unprompted.
- A chain's next job is enqueued after the commit of the success that earned it, and
  `chain-resume` enqueues it from another process.
- Starting and stopping the daemon go by a file that is checked, read, removed and
  written in separate steps, without a lock.

What makes each part correct:

- Execution: the concurrency limits hold for rows and for processes; a job that waits for
  a rate limit has its backoff on record; a job's row and its Worker agree; a terminal state
  is final; a job is not requeued for ever, nor forgotten.
- Queue: the best job that can run is run, a backoff grows, nobody starves behind the LIMIT.
- Delivery: reported means told; repeats only for a reason the code cannot see through;
  the fallback does not overtake a Controller within its grace; every ended job is reported
  or given up. Across a requeue: what the columns say of an earlier outcome does not silence
  the next one.
- Chain: every success that has a next step is answered once, and steps run twice only for a reason.
- Daemon process: one daemon, found through its file, unless a command came too early, and a start
  that works after any crash.
- Registry: a name goes on meaning the same repo, and `repos.json` can be trusted.

`PROJECT.json` lists the hazards line by line with the property that would catch each.

## 2. The modules

| Module | Content |
| --- | --- |
| `JobStore` | job states, `ValidTransitions`, delivery-terminal and active states |
| `Execution` | main thread, reader threads, Workers, kill commands, crash and restart |
| `DeliveryPromise` | abstract: who may speak for an ended job, was the user told, how was it closed |
| `Delivery` | the Supervisor's tick against the Controller, the clock, errors and crashes |
| `System` | `Execution` and `Delivery` over one jobs table, in the order of `_tick` |
| `ChainPromise` | abstract: which steps of a chain have started and passed, how often a hand stepped in |
| `Chain` | chain file, `_dispatch_chain_next`, `chain-resume`, the end of the process in between |
| `Dispatch` | the order and LIMIT of the queue, the clock, the length of a backoff |
| `Lifecycle` | daemon processes, `daemon.pid`, the commands start, stop and status |
| `Registry` | create-repo and update-repo side by side, name resolution, the export |
| `MCExecution`, `MCDelivery`, `MCSystem`, `MCChain`, `MCDispatch`, `MCLifecycle`, `MCRegistry` | instances for TLC |
| `ExecutionProofs`, `WorkerProofs`, `DeliveryProofs`, `SystemProofs`, `ChainProofs`, `DispatchProofs`, `LifecycleProofs`, `RegistryProofs` | theorems and their proofs |

`System` instantiates `Execution` and `Delivery`; `Delivery` implements `DeliveryPromise` and `Chain`
implements `ChainPromise`. `Chain` and `Dispatch` look at parts of the scheduler that `Execution`
leaves open, with an abstraction of the rest: `Chain` sees a job run, fail, be requeued, succeed and
be rewritten, with late readers, which is what `Execution` can do to one; `Dispatch` takes each scheduler operation as one step.

### Execution

The main thread is a program counter `pc`. Its places are the heads of `_tick`'s loops and
the points inside a handler between two statements another thread can see or disturb.
`cur` is the job in hand, `todo` what is left of the list a loop iterates over, `plan` the
list of `RecoveryAction`s, `batch` the polled commands. `transition_job` is two steps:
`TryTransition` reads and checks, `WriteState` writes whatever the state is by then.
`transaction()` blocks (`on_success`, `on_rate_limit`, the clear in `drive_recovery`) are one step.

| Code | Actions |
| --- | --- |
| `_process_commands`, `_cmd_kill_job`, `_cmd_kill_repo` | `PollCommands`, `NextCommand`, `KillStop`, `KillJob` |
| `drive_recovery`, `requeue_job` | `ListRateLimited`, `RequeueLimited`, `ClearBackoff`, `ListFailed`, `RequeueFailed`, `RecoveryDone`, with `RequeueJob` and `Requeue` |
| `_dispatch_queued_jobs`, `run_job` | `PickJob`, `EnterStarting`, `OccupySession`, `EnterRunning`, `SpawnWorker`, `RegisterProcess`, `SpawnRefused`, `SpawnRaises`, `DispatchDone` |
| `check_all` | `SkipWatchdog`, `ListActive`, `CheckTimeout`, `CheckUnfinished`, `CheckFinished`, `CheckLost`, `CheckHealthy` |
| `apply_recovery` | `ApplyRecovery`, `ReleaseSlot`, `RetrySameSession`, `ForkSession`, `GiveUp`, `ReportLost`, `RecoveriesApplied` |
| `on_complete` | `ReaderGuard`, `ReaderFinish`, `ReaderRelease`, `ReaderCheck`, then one of `ReaderSucceeds`, `ReaderRateLimited`, `ReaderFails` and `ReaderWrites` |
| shutdown, crash | `StopRequested`, `StopOne`, `DaemonExits`, `Crash` |
| CLI, Workers, clock | `CreateJob`, `RequestKill`, `WorkerExits`, `BackoffExpires` |

Attempt `k` of job `j` is the pair `<<j, k>>`. `worker` is the operating-system process, `reader`
the place of its thread, `registered` is `Runner._processes`, `holder` is `sessions.current_attempt_id`.

Abstractions: priorities and `enqueue_at` only order or delay candidates, so any runnable
job may be picked. Which of an idle repo's sessions is taken is open. A backoff's length
is "some time". (Both are in `Dispatch`.) A timeout may strike any active job with an attempt. `ListActive` takes
the running and the starting jobs in one step, although the code lists them one after the
other: within the daemon only the main thread moves a job from starting to running, and a
job a completion takes out in between is met again by the step that checks it.

`ReleaseSlot` is the rest of `_cleanup_running_process`. The code joins the reader thread for 5 s, and not at all
when the process has been popped already (`on_complete` pops it in `ReaderRelease` and has its writes
still before it); then it goes on. So does the action, wherever the reader is. A completion that is under way when
the cleanup of its attempt goes on, or when the job is launched again (`PickJob`), is `overtaken`, which
is history: no guard of the code reads it. `MaxOvertaken` bounds how many cleanups go on that way. The properties
that speak of Workers name the overtaken completions, and nothing else, beside the orphans.

### Delivery

`tick` copies the rows of all undelivered jobs (`list`, `seen`, `seenAttempts`) and drives one after
the other (`cur`, `place`). Send-keys of the text, Enter, the count, the mark, the POST and
`mark_reported` are separate steps. `SendFails` and `PostFails` have a case where the request
took effect and its answer was lost; `DriveRaises` is the `except Exception` of `tick`.
`overdue` says that a job's grace period is over; `autoWake` is chosen anew by every start of the
daemon. The Controller has a number of prompts waiting and a place in its turn
(`collected`, `replied`); it may drop a turn anywhere and may be asked by a user
as well as woken. `posts`, `replies` and `wakes` are history: what reached Discord and the pane.

`terminal` is set once here; a requeue, which takes it back and resets the columns, is in `System`.

`DeliveryPromise` is what a reader of the columns may rely on: ownership moves from
Controller to daemon once, and only while the job is open; reported means told and is
final; only the owner of the fallback gives up, and a late report overrides that.
`Delivery` implements it under the mapping written at `Promise`.

### System

`E` and `D` are the two modules on the same `state`: Delivery's `terminal` is defined as "the row is in
a state of `_DELIVERY_TERMINAL`". `part` says which half of `_tick` runs; `Work` hands over to
`Deliver` when the watchdog is through, and `TickEnds` hands back. Reader threads, the CLI and the
Controller (`ReaderThread`, `Outside`, `Controller`) come between any two steps of either half. Every step
that changes `state` is conjoined with `ColumnsReset`: what `transition_job("queued")` writes besides the
state. `--auto-wake` is off, as it is by default. `MaxEvents` bounds kills, timeouts, stops and questions
together, each of which the instance allows once.

### Chain

| Code | Actions |
| --- | --- |
| `cmd_dispatch --chain-file`, `create-repo` | `DispatchChainFile`, `RegisterRepo` |
| `cmd_chain_resume` | `ResumeChain` |
| `on_success`, the transaction | `CommitSuccess`, `SuccessRefused` |
| `_dispatch_chain_next` | `DispatchNext`, `ChainHalts`, `InsertRaises` |
| the execution plane | `Runs`, `Requeued`, `Fails`, `Rewritten` |
| start, crash or shutdown | `DaemonStarts`, `DaemonEnds` |

Entry `k` of the file is a number; a job's payload is what follows its own entry, so `step[j]` and `length`
stand for the linked list of `chain_next`. `Broken` are the entries that fail the checks of an
entry itself, `known` the entries whose repo is registered. `pending[j]` counts reader threads
between the commit and the end of the dispatch, which may be several after a rewrite. `readers[j]` counts the
reader threads that may still come to `on_success`: a run that was requeued, killed or timed out may leave its
own behind (`RunEnds`; `MaxLate` bounds how many), and that one can report a success while the next run is
under way, or after it. Whoever comes first finds the row running and commits, the other is refused
by the check of the state (`SuccessRefused`). A job that `Execution` leaves in `lost` or `timed_out`, where nothing moves it
on, is here one that failed. `Rewritten` is
`transition_job` writing over `succeeded` (`execution_terminal`). `earned`, `halted`, `dropped`,
`parent` and `byHand` are history.

### Dispatch

`Before` is the `ORDER BY`, `Listed` the `LIMIT`, `Due` the comparison with the clock, `NextJob` the loop of
`next_job` over `can_run`. `Doubled`, `Delay` and `Jittered` are the arithmetic of `on_rate_limit` in whole
seconds (`Doubled` is the power of two, a recursive function that proofs can unfold); of the jitter the two ends are taken, because every property compares times and is worst
at an end. `Recover` is one pass of `drive_recovery`, with the retry budget as a choice. Each operation
is one step here; their interleavings are in `Execution`.

### Lifecycle

| Code | Actions |
| --- | --- |
| `is_daemon_running` | `LookForFile`, `ReadFile`, `Probe`, `UnlinkStale` |
| `start`, `daemonize` | `Fork`, `OpenFile`, `WritePid`, `SetupSignals`, `EnterLoop` |
| `run`, the loop's end and `_remove_pid` | `LeaveLoop`, `RemovePid` |
| `stop` | `Signal`, then `is_daemon_running` again, `GiveUp` |
| the operating system | `Dies`, `StrangerAppears`, `StrangerLeaves` |

A process id holds nothing, a daemon at some place of its life, or a program that has
nothing to do with it: a `stranger` of the same user, which answers the probe and dies of the signal,
or a `foreign` one, which `os.kill` refuses. `handles` are the daemons whose open file still has
the name `daemon.pid`; who writes through another descriptor writes into a file without a name.
A command may begin at any time. Nothing makes it wait for another command, nor for a daemon that was forked and has
not written its file: the parent of `start` returns right after the fork. `crossings` (history) counts the
commands that did begin so; `Quiet` is the test for it, and no guard of the code. `MaxCrossings` bounds them.

### Registry

A process runs one command: `check` (the name is free, or resolves), `act` (insert or update, after the
preflight, which may refuse), then the export: `list` the rows, `open` the file for writing, which
truncates it, `dump`. `Resolve` is `get_repo_by_alias`. `garbled` says that a longer text written
by another process shows behind a shorter one. A process may die anywhere. `known`,
`overlapped` and `disturbed` are history.

## 3. The runs

Passing runs (bounds in the `.cfg`). The safety properties mention no bound of the instance, only the
counters of failures, resumes and rewrites they are about. `OutcomeDelivered` excuses a job that waits
for an attempt or a timeout which the instance does not have (`BeyondBounds`):

| Run | Instance | Checks | Distinct states |
| --- | --- | --- | --- |
| `execution` | 2 jobs, one repo with limit 2, global limit 1, 2 session rows, 2 attempts each and 3 in all, 2 retries, two of: a timeout, a kill, a crash or shutdown, a late completion | `TypeOK`, `ConcurrencyBound`, `BackoffRecorded`, `WorkersWithinLimit`, `EndedJobHasNoWorker` | 2.2 million |
| `delivery` | 1 job, 2 wakes, 1 unprompted turn, 2 crashes, 1 lost answer, under `FairSpec` | `TypeOK`, `ReportedWasTold`, `FallbackPostsBounded`, `WakesBounded`, `GraceRespected`, `KeepsPromise`, `DeliverySettles` | 0.3 million |
| `system` | 1 job, 2 attempts, a late completion, two of: a timeout, a kill, a crash or shutdown, a question; under `FairSpec` | `TypeOK`, `RerunStartsClean`, `OnlyOrphansOutlive`, `OutcomeDelivered` | 0.32 million |
| `chain` | chains of 1 to 3 entries, depth limit 1, 5 rows, a resume, a rewrite, a crash, a failing insert, a late reader per job, under `FairSpec` | `TypeOK`, `SuccessAccounted`, `CopiesExplained`, `DepthGuards`, `KeepsPromise`, `ChainSettles` | 0.11 million |
| `dispatch` | 4 jobs with priorities and times, 2 repos, LIMIT 2, 2 rate limits, an update, under `FairSpec` | `TypeOK`, `NextJobIsBest`, `BackoffExtends`, `DueJobsEnd` | 0.1 million |
| `lifecycle` | 3 process ids, 2 callers, a crossing, a stop, 2 deaths, a stranger, under `FairSpec` | `TypeOK`, `DaemonsExplained`, `HiddenExplained`, `ServiceComesBack` | 0.26 million |
| `registry` | 2 commands at a time, 4 in all, 3 names with clashing aliases | `TypeOK`, `NameReachesRepo`, `ExportTrusted`, `ResolutionStable`, `UpdateHitsResolved` | 0.1 million |

Why these bounds are enough to show something:

- Execution: the interactions are between a job and its own earlier attempt (two attempts), and
  between two jobs over one slot, one session and one backoff record (two jobs, one repo). The global limit is the
  tight one; a repo's own limit below it is left to the theorem `LimitsKept`. `MaxAttempts` and the number of session
  rows bound the instance, not the code: a job is only picked while an attempt is left, and a fork waits for a free
  row. `MaxRetries` does not exceed `MaxAttempts`, so the retry budget, and not the bound, decides. The constraint
  `RareEvents` ends a behaviour at the third of timeouts, kills, stops and late completions, and at the fourth
  attempt; any two events may come, in any order.
- Delivery: rows meet only in the order of the tick. What the safety properties say of several
  jobs is proved for any number of them.
- System: one job goes through both planes twice, which is what the composition adds. Of the
  four disturbances any two may come, in any order.
- Chain: three entries over a limit of one reach past the limit, with a step before and a step after it.
  A late reader per job is enough for a success that is reported twice.
- Dispatch: with a LIMIT of two and four jobs, two rows of a repo that cannot run hide two that can,
  and the delay is doubled once, to the cap.
- Lifecycle: a daemon, its successor and a stranger on a used process id, and a command that crosses another one
  or a start.
- Registry: two repos share an alias, which is the third one's name.

Runs that end in a violation, each a disagreement between the code and something the
repository says (quoted in `PROJECT.json`, `findings`):

| Run | Property | What happens |
| --- | --- | --- |
| `execution_terminal` | `TerminalIsFinal` | the watchdog reads `running`, `on_success` commits `succeeded`, the watchdog writes `timed_out` over it; likewise a kill |
| `execution_backoff` | `ResetOnSuccess` | `drive_recovery` clears the count of rate limits when it requeues the last waiting job: the backoff never grows |
| `delivery_duplicate` | `AtMostOnceTold` | reply and fallback POST both go out, without any failure |
| `lifecycle_duplicate` | `OneDaemon` | one shell gives `daemon start` twice, one after the other: the second finds no file, or one that is opened and empty, because the first daemon is forked and has not written it, and forks another |
| `system_undelivered` | `OutcomeGuaranteed` | `_check_job` reads an attempt that is unfinished, the completion finishes it and leaves the registry, `_check_job` finds no process and writes `lost`; `lost` to `needs_controller` is no valid transition, the error is dropped, and the outcome is never delivered |

What the passing properties excuse:

- `WorkersWithinLimit`, `EndedJobHasNoWorker` and `OnlyOrphansOutlive` name two causes. After a crash a kill fails the
  row and leaves the orphaned Worker running; nobody reads it and nobody can stop it. And a completion that the
  watchdog did not wait for may end the row of the job's next attempt, whose Worker runs on while another job gets
  its slot. A daemon that was killed leaves as many Workers as the limit allows, a late completion one. TLC refutes
  `WorkersWithinLimit` without either term and `EndedJobHasNoWorker` without either disjunct on the instance of `execution`.
  A third attempt of a job, and with it two Workers of one job by way of a late completion, lies beyond the instance.
  `StaffKept` (proved) says that the Workers of the new daemon still keep the limit.
- `DaemonsExplained` and `HiddenExplained` allow one daemon for each command that crossed another command or a start,
  and one whose file is gone. That a crossing does make a second daemon is `lifecycle_duplicate`. A status or stop given right
  after a start can read the empty file and remove it, after which the daemon writes into a file without a
  name: it lives and no command finds it. That is the one daemon that `HiddenExplained` allows
  for one crossing.
- `OutcomeDelivered` has two ways out that are not a bound: a job that is `lost`, and one that a crash left
  in `timed_out`, which `check_all` does not list. `OutcomeGuaranteed` has neither.
- `BackoffExtends` speaks of delays below the cap. At the cap the jitter alone can let the
  next backoff end before the one it replaces.

Deadlock is checked in every run but `chain`, `dispatch` and `registry`, where all jobs may
have ended and all commands been given.

## 4. Fairness

`Execution` states no fairness: what must eventually happen to a job is asked in `System`, together with its delivery.

`Delivery!FairSpec`: the daemon runs or is restarted by its supervisor and its tick goes on (weak
fairness of `TickStep`); time passes; and a POST that is tried for ever is
at some time answered by a success or a permanent refusal (strong fairness): against a Discord
that answers 5xx for ever, no client delivers. The Controller gets no fairness at all, so
`DeliverySettles` says the fallback alone suffices.

`System!FairSpec`: the operating system runs the main thread and every reader thread (weak fairness of
`Start \/ Work \/ Deliver` and of `ReaderThread`); `check_all` runs every 30 s, so a main loop that passes it again and
again takes it again and again (strong fairness of `ListActive`); Workers end, if only by the timeout (weak
fairness of `WorkerExits`), and backoffs expire; Discord answers at some time, as in `Delivery`; and
`job_timeout` comes to pass: an attempt that is active check after check is timed out in the end (strong fairness of
`CheckTimeout`), which is what finds a job whose completion a crash cut off. Nothing is assumed of how a Worker ends, or
of the CLI and the Controller. `OutcomeDelivered` relies on `MaxTimeouts`: the watchdog's requeues never look at `max_retries`,
so a job that times out for ever is retried for ever.

`Chain!FairSpec`: the daemon is started, queued jobs get their turn, a job that runs again and again ends
at some time for good (strong fairness of its success or failure; the retry budget sees to it), and a
reader thread in its dispatch goes on.

`Dispatch!FairSpec`: the daemon ticks, Workers end, time passes. No fairness is asked for a particular job.

`Lifecycle!FairSpec`: programs that run go on; a stop looks twenty times at most (strong fairness of
`GiveUp`); and somebody, a process supervisor say, gives the start command again and again (strong
fairness of that command, because other commands hold it up).

## 5. The proofs

All theorems hold for every value of the constants that satisfies `ConstantsAssumption`
(finitely many jobs, limits that are natural numbers, ...), `DeliveryAssumption`, `ChainAssumption`,
`LifecycleAssumption`, `RegistryAssumption`, `DispatchAssumption` (whose bounds are sets of natural numbers)
or `SystemAssumption`, the assumption of its module. `SystemAssumption` says of `System`'s constants what
`Execution` and `Delivery` say of theirs.

`ExecutionProofs`

- `TypeCorrect`. `TypeOK` is not inductive: `WriteState` writes `goal` at `cur`, and `ReleaseSlot` looks
  at the latest attempt of `cur`. The invariant `Typed` adds `JobInHand` (a place inside a handler
  has a job in hand, and an attempt where it uses one), `WriteReady` (a pending write has a goal and a
  place to return to) and `PlansReady` (a planned recovery is for a job with an attempt).
- `BackoffKept`. The argument for the transactions of `on_rate_limit`, `on_success` and `drive_recovery`:
  the write of `rate_limited` and of its backoff are one step, both clears look for waiting jobs
  in the step that clears, and no other write has `rate_limited` as its goal (`WriteReady`).
- `LimitsKept`. `ConcurrencyBound` alone is not inductive: between `can_run` and the write of
  `starting` the slot is promised and not taken, and in that window a completion, a kill or
  a late write changes the counts. The invariant `WithinLimits` counts `Slots`, the active jobs and the
  one the main thread is dispatching, and adds that only the write of an active state
  returns to a place of the dispatch (`WriteReserves`). Only `PickJob` adds a slot, and it tests
  the limits.

`DeliveryProofs`

All but `TypeCorrect` rest on `TickInv`: a job is in hand exactly inside a drive and has left the list
by then (`TickShape`); the rows not driven yet are still what the table says of `wake_state` and
`wake_attempts`, because only the tick writes these (`RowsFresh`); and whoever POSTs or
gives up holds the claim (`ClaimHeld`). That nothing of the kind holds of `reported_at` is why the
claim tests it again.

- `Told` (`ToldFirst`): the tick reaches `mark_reported`, and the Controller its report, only after a
  message about that job.
- `PostsBounded` (`PostsPaid`): every post is paid for by a crash or an error, but for the one of a job
  the tick has closed or is about to (`Paid`). The step, `PostsPaidStep`, is stated for any sum paid before, so
  that `SystemProofs` can use it.
- `WakesLimited` (`WakesCounted`): the count never passes the limit, and every wake is counted, paid for
  by a crash or an error, or the one in hand.
- `GraceKept`: the tick claims within the grace period only for a row that was listed with attempts left,
  and `RowsFresh` says that the table has attempts left too.
- `Refinement`: with `TypeOK`, `TickInv` and `ToldFirst`, every step of `Delivery` is a step of
  `DeliveryPromise` or changes nothing it shows. `Telling` and `Reporting` are the two cases
  in which several steps map to the same abstract action.

`ChainProofs`

- `Types`, and with it that no reader thread counts itself off twice.
- `CopiesAreExplained` counts rows against reruns and resumes. `Lineage`: every row but the first
  comes from a row of the step before. Unless a hand added them, the second and later children of a row go
  one to one, by their rank, into its second and later successes (`Again`), and for each of those a rewrite
  has paid (`RerunsPaid`). So the copies of step `k + 1` are no more than those of step `k`, the
  reruns at `k` and the resumes at `k + 1` (`CopiesOfNext`); the sum over `k` is taken by a least
  counterexample, since an induction theorem cannot be instantiated here.
- `DepthIsGuarded`: rows are only added, at the end, one deeper than the job they come from; a row the
  daemon adds has passed the test of the limit.
- `SuccessesAreAccounted` needs that a row that has not been made has no children, no history and no
  thread (`Unborn`): a new row adds exactly one child, to the job whose thread is counted off.
- `Refinement` needs that a thread only dispatches for a job that has succeeded (`AfterSuccess`), since
  the promise advances only from a step that passed.

`WorkerProofs`: crashes and late completions are allowed in all of it. A Worker is `Manned` while its reader lives; one whose
reader died with an earlier daemon is an orphan, which nobody counts and nobody can stop. A job is `Late` from the
moment on at which an overtaken completion of it is through (or died with its daemon, which the
model does not tell apart): what it wrote may have been the row of the next run, which nothing in the
code prevents, so the theorems leave such a job out, and only such a job. While the completion is
still under way they do speak of it.

- The invariant `Watched` says where a manned Worker can be while each thread is where it is. What holds of every job
  is `Known`: Workers are registered, whom the main thread does not wait for has no Worker any more
  (`OvertakenStarted`), and a Worker that is alive and not manned is the leftover of a daemon that stopped
  (`OrphansCounted`). Of a job that is not late: a reader that is at work and was not overtaken belongs to the
  latest attempt of a job that is not waiting (`ReadersCurrent`), so a launch starts from an idle job
  (`LaunchesIdle`). The pending write of a waiting state has an idle job, and only `timed_out` is
  written over a job whose Worker may live (`WritesSettled`). Kills and recoveries reach the row after the
  Worker's end (`ActsSettled`). `drive_recovery` works on rows that stay as it listed them (`RequeuesParked`). And
  the job of a manned Worker is running, or timed out and in the watchdog's plan (`WorkersHeld`).
- `NoWorkerAfterEnd`, which is `EndedJobHasNoWorker`, is read off `WorkersHeld` and `OrphansCounted`.
- `StaffKept`: outside the watchdog the manned Workers of jobs that are not late map one to one into the active jobs,
  which `LimitsKept` bounds; a Worker only starts outside the watchdog, and every other step ends
  Workers or none. `WorkersWithinLimit`, which counts the orphans and the Workers of late jobs too, is model-checked only.
- `OutcomesStand` and `OverwritesAreVerdicts` say how far the race of `execution_terminal` goes.
  `transition_job` reads, checks, and writes without a condition. Between the two nobody else writes the row
  of an idle job, and `Watched` has the job idle for every goal but `timed_out`, `lost` and
  `failed_permanent` (`WritesSafe`). A completion under way finds its job running or with such a verdict on
  it (`CompletionsMeetVerdicts`). So what `VALID_TRANSITIONS` does not allow is a verdict over an outcome, or
  the `failed_retryable` of a completion over a verdict, or comes of a late completion; and a job that
  succeeded goes back to the queue by way of these only.
- `RunsBegin` and `RunsEnd` are the two ends of a run, for `SystemProofs`, of a job that is not late: only a new attempt brings a job to where
  it may be requeued (`MayRequeue`: it is launched, a completion works on it, or it ended without an end), and a
  requeue takes it away from there.

`DispatchProofs`

- `BestIsNext`: the order of the queue is a strict total order (`BeforeIsOrder`), so a list has a first
  row (`FirstExists`, by the number of rows ahead) and what `list_jobs` returns is a prefix of the due jobs
  (`ListIsPrefix`). A job outside the prefix has a full page of due jobs before it.
- `TypeCorrect` needs that a count of rate limits stays within what `Doubled` is defined for (`Counted`).
- `WaitsAreBounded` (`WaitsBounded`): a repo waits no longer than the delay of its last count with
  the longest jitter.
- `WaitsExtend`, the action property `BackoffExtends`: the delay doubles (`DelayDoubles`), the longest jitter of
  one delay stays below the shortest of its double (`JitterNeverCatchesUp`), and `WaitsBounded` says
  what there is to overtake. `DoubledDef` derives the recursion of `Doubled` from the existence of its
  finite pieces (`DoublingExists`).

`SystemProofs`

- `RerunsAreClean`, over both planes at once. The invariant `Apart`: the Supervisor has only ended or
  waiting jobs in hand (`HandsOff`), and while it has any the main thread writes no row (`TurnsTaken`);
  readers never write a state from which a run is to come. A launch under way is clean although a late
  reader may have overwritten its row meanwhile (`LaunchesClean`), since the pending `running` is then
  written over that outcome.
- `ImplementsExecution`: every step of the whole daemon is a step of `Execution` or leaves its variables alone,
  so `Spec => E!Spec` and all that is proved of `Execution` holds here. The module instantiates
  `WorkerProofs` as `EP` and `DeliveryProofs` as `DP`, proves that their assumptions are met (`ExecutionAssumed`,
  `NoneIsNoPlan`, `DeliveryAssumed`) and that they speak of the same formulas as `E` and `D` (`SameExecution`,
  `SameDelivery`). From it come `LimitsHold`, `StaffHolds` and `OrphansOutlive`
  (`OnlyOrphansOutlive`, which also says that the late completion was another attempt's).
- `System` does not implement `Delivery`, which never takes a column back. Its step is one of `Delivery`
  or lies beside it (`DeliveryStep`): it writes no more than the columns of requeued jobs, and requeues only
  while the tick is not at deliveries. Either keeps `DP!TickInv` and `DP!ToldFirst`, which
  gives `ReportsFollowMessages`.
- `MessagesPerRun`: the fallback's messages about a job are no more than its attempts, one
  for an end without a launch (a kill in the queue), and one for every crash and every error. A job that is
  late is left out: a late completion may end the same attempt twice. `RunsPaid`
  counts them: `DP!Paid` is the message the row vouches for, a requeue takes the row's word away, and as long as
  a requeue is possible (`EP!MayRequeue`) one attempt is still unspent. So the requeue can pay (`RequeueEndsRun`),
  and the next one cannot come before a new attempt (`EP!RunsBegin`). TLC agrees on the instance of `system`,
  and refutes the same bound without the attempts and without the 1. No run checks it.
- `TypeCorrect` joins the types of the two.

`LifecycleProofs`

- `Types`, and that a stop signals a process id that it read (`SignalsPid`).
- `StartsAreAccounted` and `HiddenAreAccounted`. The invariant is a balance: daemons and commands together are never more
  than the crossings, one for a daemon that the file leads to (`Named`: the file has its id, or will once it is
  written) and one for the commands (`Allowance`). A command that believes there is no daemon (`Misled`: it is about to
  remove the file or to fork, or it probes an id that is not in the file any more) can still take the
  file from a daemon that is named; while there is one, and while a daemon is born beside a command, the
  balance has one to spare (`Spare`), which the crossing that brought them together has paid.

`RegistryProofs`

- `NamesReachRepos`: names stay unique although two commands find the same name free, because the insert
  compares again (`UniqueNames`).
- `UpdatesHit`: `UpdatesAimed` says of every update under way that a row with its name is the one it resolved
  or newer. It uses that names never change and rows are only added.
- `MeaningsStable`: `Resolve` is a least element; an added row is greater than all others.
- `ExportIsTrusted`: a command that had no company is alone, so the rows it holds and the file it
  truncated are as it left them (`LoneWriter`); the file is right when nobody is between his change and
  the end of his export (`QuietFile`).

Model-checked only: liveness (`DeliverySettles`, `OutcomeDelivered`, `ChainSettles`,
`ServiceComesBack`, `DueJobsEnd`), because the prover does not reason about fairness, the five violations,
and `WorkersWithinLimit`. Every other invariant, action property and refinement that a passing run checks is also a theorem.

## 6. Not modelled

- `result_parser`, `timeparse` and `spec`: pure functions of text, without state, within the reach of unit tests.
- SQLite errors in the execution plane. In the Supervisor they are `DriveRaises`, in the chain
  dispatch `InsertRaises`.
- The contents of messages, prompts and results; credentials, redaction and file permissions;
  migrations and the cleanup of old rows.
- The tmux pane check beyond its three outcomes, and the registration of the pane.
- Code nobody calls: the watchdog's `backoff` and `escalate`, `unregister`, `import_json` and `validate` of
  the registry, `notify_chain_halt`, `record_rate_limit` and `clear_all`.

## 7. Plan

Done: all modules above. Next, most important first:

1. `System` with two jobs, where the delivery of one and the run of the other share a tick.
2. SQLite errors in reader threads: a completion that is lost leaves its job to the `job_timeout`.
