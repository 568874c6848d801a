------------------------------- MODULE Dispatch -------------------------------
(***************************************************************************)
(* Which job runs next, and when: the queue as list_jobs orders and cuts   *)
(* it, and the length of the rate-limit backoff (lib/scheduler.py).        *)
(*                                                                         *)
(* Execution lets next_job pick any runnable job and a backoff last as     *)
(* long as it likes, and has the interleavings of the daemon with its      *)
(* reader threads; here each of next_job, on_success, on_rate_limit and    *)
(* drive_recovery is one step, and priorities, times and rows count.       *)
(***************************************************************************)
EXTENDS Naturals, Sequences, FiniteSets, FiniteSetsExt

CONSTANTS
  Repos, NoRepo,
  Concurrency,  \* the values of max_concurrency
  MaxUpdates,   \* bound: updates
  MaxJobs,      \* bound: jobs, numbered in the order of their creation
  Priority,     \* job -> priority
  EnqueueAt,    \* job -> the time before which it is not to run
  GlobalMax,    \* global_max_concurrency
  Limit,        \* the rows list_jobs returns at most (50)
  BaseDelay, MaxDelay,  \* seconds (30 and 300)
  MaxLimits,    \* bound: rate limits
  TimeStep,     \* bound: the clock is looked at in steps
  MaxTime       \* bound: the clock; no backoff reaches past it

Jobs == 1..MaxJobs

ASSUME DispatchAssumption ==
  /\ NoRepo \notin Repos
  /\ {MaxJobs, MaxLimits, MaxUpdates, MaxTime} \subseteq Nat
  /\ Priority \in [Jobs -> Nat] /\ EnqueueAt \in [Jobs -> Nat]
  /\ Concurrency \subseteq Nat \ {0} /\ 1 \in Concurrency
  /\ {GlobalMax, Limit, BaseDelay, MaxDelay, TimeStep} \subseteq Nat \ {0}

VARIABLES
  conc,      \* repos.max_concurrency
  repoOf,    \* jobs.repo_id, NoRepo before the job is created
  state,     \* jobs.state; "active" is starting or running, "ended" is final
  until,     \* repos.backoff_until
  count,     \* repos.backoff_count
  now,       \* time.time()
  limits, updates   \* what has been used of the bounds

vars == <<conc, repoOf, state, until, count, now, limits, updates>>

TypeOK ==
  /\ conc \in [Repos -> Concurrency]
  /\ repoOf \in [Jobs -> Repos \cup {NoRepo}]
  /\ state \in [Jobs -> {"absent", "queued", "active", "rate_limited", "ended"}]
  /\ until \in [Repos -> Nat] /\ count \in [Repos -> 0..MaxLimits]
  /\ now \in 0..MaxTime /\ limits \in 0..MaxLimits /\ updates \in 0..MaxUpdates
  /\ \A j \in Jobs : state[j] = "absent" <=> repoOf[j] = NoRepo

Init ==
  /\ conc = [r \in Repos |-> 1]
  /\ repoOf = [j \in Jobs |-> NoRepo]
  /\ state = [j \in Jobs |-> "absent"]
  /\ until = [r \in Repos |-> 0] /\ count = [r \in Repos |-> 0]
  /\ now = 0 /\ limits = 0 /\ updates = 0

-----------------------------------------------------------------------------
(* The command line; Registry has the names.                                *)

\* Mutant: the repo is looked up when the job runs, its row does not name it.
DispatchUnresolved(j, r) ==
  /\ state[j] = "absent" /\ \A i \in 1..(j - 1) : state[i] # "absent"
  /\ state' = [state EXCEPT ![j] = "queued"]
  /\ UNCHANGED <<conc, repoOf, until, count, now, limits, updates>>

\* cmd_dispatch, cmd_run_spec: the job keeps the repo that its name stood for.
DispatchJob(j, r) ==
  /\ state[j] = "absent" /\ \A i \in 1..(j - 1) : state[i] # "absent"
  /\ state' = [state EXCEPT ![j] = "queued"]
  /\ repoOf' = [repoOf EXCEPT ![j] = r]
  /\ UNCHANGED <<conc, until, count, now, limits, updates>>

\* cmd_update_repo, while jobs of the repo run or wait.
UpdateRepo(r, c) ==
  /\ updates < MaxUpdates /\ c # conc[r]
  /\ conc' = [conc EXCEPT ![r] = c]
  /\ updates' = updates + 1
  /\ UNCHANGED <<repoOf, state, until, count, now, limits>>

-----------------------------------------------------------------------------
(* The queue.                                                               *)

\* ORDER BY priority DESC, enqueue_at ASC, created_at ASC
Before(i, j) ==
  \/ Priority[i] > Priority[j]
  \/ /\ Priority[i] = Priority[j]
     /\ \/ EnqueueAt[i] < EnqueueAt[j]
        \/ EnqueueAt[i] = EnqueueAt[j] /\ i < j

\* ... LIMIT: the rows with fewer than Limit before them.
Listed(S) == {j \in S : Cardinality({i \in S : Before(i, j)}) < Limit}

In(s) == {j \in Jobs : state[j] = s}
Due == {j \in In("queued") : EnqueueAt[j] <= now}

\* Mutant: the rows are cut first and compared with the clock afterwards.
CutThenDue == Listed(In("queued")) \cap Due

\* list_jobs(state="queued", now=now)
QueueRows == Listed(Due)

\* Mutant: a repo is backed off until its count is cleared.
CountedOut(r) == count[r] > 0

BackedOff(r) == now < until[r]

CanRun(r) ==
  /\ ~ BackedOff(r)
  /\ Cardinality(In("active")) < GlobalMax
  /\ Cardinality({j \in In("active") : repoOf[j] = r}) < conc[r]

\* Scheduler.next_job: the first of the listed rows whose repo can run, if any.
NextJob ==
  LET C == {j \in QueueRows : CanRun(repoOf[j])}
  IN  {j \in C : \A i \in C \ {j} : Before(j, i)}

Enter(j, s) == state' = [state EXCEPT ![j] = s]

RunNext ==
  /\ \E j \in NextJob : Enter(j, "active")
  /\ UNCHANGED <<conc, repoOf, until, count, now, limits, updates>>

-----------------------------------------------------------------------------
(* The backoff.                                                             *)

\* 2^n, for the counts there can be.
Doubled[n \in 0..MaxLimits] == IF n = 0 THEN 1 ELSE 2 * Doubled[n - 1]

Delay(c) == Min({BaseDelay * Doubled[c - 1], MaxDelay})

\* Mutant: a jitter of half the delay.
WideJitter(c) == {Delay(c) - Delay(c) \div 2, Delay(c) + Delay(c) \div 2}

\* The delay with the ends of its jitter of 30 %.
Jittered(c) == {Delay(c) - (3 * Delay(c)) \div 10, Delay(c) + (3 * Delay(c)) \div 10}

LimitedIn(r) == {j \in In("rate_limited") : repoOf[j] = r}

Cleared(f, R) == [r \in Repos |-> IF r \in R THEN 0 ELSE f[r]]

\* Scheduler.on_rate_limit
RateLimited(j) ==
  LET r == repoOf[j] IN
  /\ state[j] = "active" /\ limits < MaxLimits
  /\ Enter(j, "rate_limited")
  /\ count' = [count EXCEPT ![r] = @ + 1]
  /\ \E d \in Jittered(count[r] + 1) :
       now + d <= MaxTime /\ until' = [until EXCEPT ![r] = now + d]
  /\ limits' = limits + 1
  /\ UNCHANGED <<conc, repoOf, now, updates>>

\* Scheduler.on_success clears the backoff unless a job of the repo waits for it.
Succeeds(j) ==
  LET R == IF LimitedIn(repoOf[j]) = {} THEN {repoOf[j]} ELSE {} IN
  /\ state[j] = "active"
  /\ Enter(j, "ended")
  /\ until' = Cleared(until, R) /\ count' = Cleared(count, R)
  /\ UNCHANGED <<conc, repoOf, now, limits, updates>>

\* Every other end leaves the backoff alone.
Fails(j) ==
  /\ state[j] = "active"
  /\ Enter(j, "ended")
  /\ UNCHANGED <<conc, repoOf, until, count, now, limits, updates>>

\* Scheduler.drive_recovery: of the listed rows those whose repo is not backed
\* off any more go back to the queue, or end when their retries are used up;
\* a listed repo without a rate-limited job left is cleared.
Recover ==
  LET rows == Listed(In("rate_limited"))
      back == {j \in rows : ~ BackedOff(repoOf[j])}
      done == {r \in {repoOf[j] : j \in rows} : LimitedIn(r) \subseteq back}
  IN  /\ back # {}
      /\ \E over \in SUBSET back :
           state' = [j \in Jobs |-> IF j \in over THEN "ended"
                                    ELSE IF j \in back THEN "queued" ELSE state[j]]
      /\ until' = Cleared(until, done) /\ count' = Cleared(count, done)
      /\ UNCHANGED <<conc, repoOf, now, limits, updates>>

Tick ==
  /\ now + TimeStep <= MaxTime
  /\ now' = now + TimeStep
  /\ UNCHANGED <<conc, repoOf, state, until, count, limits, updates>>

-----------------------------------------------------------------------------
Next ==
  \/ \E j \in Jobs, r \in Repos : DispatchJob(j, r)
  \/ \E r \in Repos, c \in Concurrency : UpdateRepo(r, c)
  \/ \E j \in Jobs : RateLimited(j) \/ Succeeds(j) \/ Fails(j)
  \/ RunNext \/ Recover \/ Tick

Spec == Init /\ [][Next]_vars

\* The daemon ticks, Workers end, and time passes.
FairSpec ==
  /\ Spec
  /\ WF_vars(RunNext) /\ WF_vars(Recover) /\ WF_vars(Tick)
  /\ \A j \in Jobs : WF_vars(RateLimited(j) \/ Succeeds(j) \/ Fails(j))

-----------------------------------------------------------------------------
(* Properties.                                                              *)

\* What next_job returns is the first of all due jobs that can run, not only of
\* the rows it was given; and it returns none while one could run only if the
\* LIMIT hides it: so many due jobs of repos that cannot run stand before it.
NextJobIsBest ==
  LET able == {j \in Due : CanRun(repoOf[j])} IN
  /\ \A j \in NextJob : \A i \in able \ {j} : Before(j, i)
  /\ NextJob = {} =>
       \A j \in able : Cardinality({i \in Due \ able : Before(i, j)}) >= Limit

\* The delay grows faster than its jitter: until the cap is reached, another
\* rate limit of a repo that is waiting never lets it run earlier than before.
BackoffExtends ==
  [][\A r \in Repos :
       count'[r] = count[r] + 1 /\ BaseDelay * Doubled[count[r]] <= MaxDelay
         => until'[r] >= until[r]]_vars

\* Behind whatever priorities, backoffs and hidden rows: a job that falls due, or
\* waits for a backoff, ends.
DueJobsEnd ==
  \A j \in Jobs : j \in Due \/ state[j] = "rate_limited" ~> state[j] = "ended"
=============================================================================
