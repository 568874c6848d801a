-------------------------------- MODULE Chain --------------------------------
(***************************************************************************)
(* A chain of jobs: the file dispatch --chain-file reads, the linked list  *)
(* of payloads it stores in the first job, the dispatch of the next job by *)
(* the reader thread of the one that succeeded (Scheduler.on_success and   *)
(* _dispatch_chain_next), and chain-resume from the CLI.                   *)
(*                                                                         *)
(* on_success commits the state first and dispatches the next job outside  *)
(* its transaction: a crash, an error and chain-resume come in between.    *)
(* And a job may have more than one reader thread: that of a run which was *)
(* timed out or killed can come to on_success late, when the job runs for  *)
(* the second time or has ended; the state check there is what stops it.   *)
(*                                                                         *)
(* Of the execution plane only what a chain can see is left: a job runs,   *)
(* is requeued, fails, succeeds, or is rewritten after it had succeeded    *)
(* (transition_job writes over a terminal state, see Execution).           *)
(***************************************************************************)
EXTENDS Naturals, FiniteSets

CONSTANTS
  MaxLength,    \* bound: entries of a chain file
  MaxDepth,     \* MAX_CHAIN_DEPTH
  Broken,       \* entries without repo or task, or with a bad enqueue_at
  MaxJobs,      \* bound: rows of the jobs table
  MaxResumes,   \* bound: chain-resume commands
  MaxRewrites,  \* bound: succeeded jobs that were put back into the queue
  MaxLate,      \* bound: reader threads of a job that an earlier run left behind
  MaxEnds,      \* bound: crashes and shutdowns of the daemon
  MaxErrors     \* bound: inserts that raise (a locked database)

ASSUME ChainAssumption ==
  /\ MaxLength \in Nat \ {0} /\ MaxDepth \in Nat /\ MaxJobs \in Nat
  /\ Broken \subseteq 2..MaxLength
  /\ MaxResumes \in Nat /\ MaxRewrites \in Nat /\ MaxLate \in Nat
  /\ MaxEnds \in Nat /\ MaxErrors \in Nat

VARIABLES
  \* the database
  made,        \* the rows of the jobs table are 1..made
  state,       \* jobs.state, as far as a chain tells them apart
  step,        \* the entry the job was made from
  depth,       \* jobs.chain_depth
  known,       \* the entries whose repo is in the registry
  length,      \* the entries of the file; a job's payload is what follows its own
  \* the daemon
  up,          \* the process lives
  readers,     \* the job's reader threads in this process that may call on_success
  pending,     \* reader threads between the commit and the end of the dispatch
  \* history, and the bounds
  parent,      \* the job a job was dispatched or resumed from, 0 for the first
  byHand,      \* the jobs made by chain-resume
  earned,      \* commits of succeeded
  halted,      \* dispatches that ended with "Chain halt" in the log
  dropped,     \* dispatches a crash or a shutdown cut off
  resumes, rewrites, ends, errors

dbVars     == <<made, state, step, depth, known, length>>
daemonVars == <<up, readers, pending>>
boundVars  == <<resumes, rewrites, ends, errors>>
vars == <<dbVars, daemonVars, parent, byHand, earned, halted, dropped, boundVars>>

Ids == 1..MaxJobs
Rows == 1..made
ChainStates == {"absent", "queued", "running", "succeeded", "failed"}

TypeOK ==
  /\ made \in 0..MaxJobs
  /\ state \in [Ids -> ChainStates]
  /\ step \in [Ids -> 1..MaxLength]
  /\ depth \in [Ids -> Nat]
  /\ known \in SUBSET (1..MaxLength) /\ length \in 1..MaxLength
  /\ up \in BOOLEAN
  /\ readers \in [Ids -> Nat]
  /\ pending \in [Ids -> Nat]
  /\ parent \in [Ids -> 0..MaxJobs]
  /\ byHand \in SUBSET Ids
  /\ earned \in [Ids -> Nat] /\ halted \in [Ids -> Nat] /\ dropped \in [Ids -> Nat]
  /\ resumes \in 0..MaxResumes /\ rewrites \in 0..MaxRewrites
  /\ ends \in 0..MaxEnds /\ errors \in 0..MaxErrors

None == [j \in Ids |-> 0]

Init ==
  /\ made = 0
  /\ state = [j \in Ids |-> "absent"]
  /\ step = [j \in Ids |-> 1]
  /\ depth = None
  /\ known \in SUBSET (1..MaxLength) /\ length \in 1..MaxLength
  /\ up = FALSE /\ readers = None /\ pending = None
  /\ parent = None /\ byHand = {}
  /\ earned = None /\ halted = None /\ dropped = None
  /\ resumes = 0 /\ rewrites = 0 /\ ends = 0 /\ errors = 0

-----------------------------------------------------------------------------
(* The CLI.                                                                 *)

\* create_job for entry k at depth d; the row remembers where it came from.
CreateJob(k, d, from) ==
  /\ made < MaxJobs
  /\ made' = made + 1
  /\ state' = [state EXCEPT ![made + 1] = "queued"]
  /\ step' = [step EXCEPT ![made + 1] = k]
  /\ depth' = [depth EXCEPT ![made + 1] = d]
  /\ parent' = [parent EXCEPT ![made + 1] = from]

HasNext(j) == step[j] < length

\* The first entry is checked at once, the others when their turn comes.
DispatchChainFile ==
  /\ made = 0 /\ 1 \in known
  /\ CreateJob(1, 0, 0)
  /\ UNCHANGED <<known, length, daemonVars, byHand, earned, halted, dropped, boundVars>>

\* create-repo
RegisterRepo(k) ==
  /\ k \notin known
  /\ known' = known \cup {k}
  /\ UNCHANGED <<made, state, step, depth, length, daemonVars, parent, byHand,
                 earned, halted, dropped, boundVars>>

\* What both the dispatch and chain-resume test of the next entry.
Dispatchable(j) == step[j] + 1 \in known \ Broken

\* chain-resume: whatever the state of the job, whether or not its next job
\* exists, and without a look at the depth.
ResumeChain(j) ==
  /\ resumes < MaxResumes /\ j \in Rows /\ HasNext(j) /\ Dispatchable(j)
  /\ CreateJob(step[j] + 1, depth[j] + 1, j)
  /\ byHand' = byHand \cup {made + 1}
  /\ resumes' = resumes + 1
  /\ UNCHANGED <<known, length, daemonVars, earned, halted, dropped, rewrites, ends, errors>>

-----------------------------------------------------------------------------
(* The execution plane, as a chain sees it.                                 *)

DaemonStarts ==
  /\ ~ up /\ up' = TRUE
  /\ UNCHANGED <<dbVars, readers, pending, parent, byHand, earned, halted, dropped, boundVars>>

Runs(j) ==
  /\ up /\ state[j] = "queued"
  /\ state' = [state EXCEPT ![j] = "running"]
  /\ readers' = [readers EXCEPT ![j] = @ + 1]
  /\ UNCHANGED <<made, step, depth, known, length, up, pending, parent, byHand,
                 earned, halted, dropped, boundVars>>

\* A run is over without success: its reader has ended with it, or is late.
RunEnds(j) ==
  \E n \in 0..MaxLate : /\ n \in {readers[j], readers[j] - 1}
                        /\ readers' = [readers EXCEPT ![j] = n]

\* A retry, a rate limit or a timeout, with the requeue that follows.
Requeued(j) ==
  /\ up /\ state[j] = "running"
  /\ state' = [state EXCEPT ![j] = "queued"]
  /\ RunEnds(j)
  /\ UNCHANGED <<made, step, depth, known, length, up, pending, parent, byHand,
                 earned, halted, dropped, boundVars>>

\* Mutant: the chain goes on after a failure too.
FailsAndGoesOn(j) ==
  /\ up /\ state[j] \in {"queued", "running"}
  /\ state' = [state EXCEPT ![j] = "failed"]
  /\ RunEnds(j)
  /\ pending' = IF HasNext(j) THEN [pending EXCEPT ![j] = @ + 1] ELSE pending
  /\ UNCHANGED <<made, step, depth, known, length, up, parent, byHand,
                 earned, halted, dropped, boundVars>>

\* A failure for good, a kill, or a loss or a timeout that nobody resolves.
Fails(j) ==
  /\ up /\ state[j] \in {"queued", "running"}
  /\ state' = [state EXCEPT ![j] = "failed"]
  /\ RunEnds(j)
  /\ UNCHANGED <<made, step, depth, known, length, up, pending, parent, byHand,
                 earned, halted, dropped, boundVars>>

\* A late write over succeeded: the watchdog's, and the requeue that follows, or
\* a kill's.
Rewritten(j) ==
  /\ up /\ state[j] = "succeeded" /\ rewrites < MaxRewrites
  /\ \E s \in {"queued", "failed"} : state' = [state EXCEPT ![j] = s]
  /\ rewrites' = rewrites + 1
  /\ UNCHANGED <<made, step, depth, known, length, daemonVars, parent, byHand,
                 earned, halted, dropped, resumes, ends, errors>>

-----------------------------------------------------------------------------
(* on_success and _dispatch_chain_next, in the reader thread.               *)

\* Mutant: the payload is not read.
CommitForgetsNext(j) ==
  /\ readers[j] > 0 /\ state[j] = "running"
  /\ state' = [state EXCEPT ![j] = "succeeded"]
  /\ readers' = [readers EXCEPT ![j] = @ - 1]
  /\ earned' = [earned EXCEPT ![j] = @ + 1]
  /\ UNCHANGED <<made, step, depth, known, length, up, pending, parent, byHand, halted,
                 dropped, boundVars>>

\* Mutant: the state is not checked.
CommitUnchecked(j) ==
  /\ readers[j] > 0
  /\ state' = [state EXCEPT ![j] = "succeeded"]
  /\ readers' = [readers EXCEPT ![j] = @ - 1]
  /\ earned' = [earned EXCEPT ![j] = @ + 1]
  /\ pending' = IF HasNext(j) THEN [pending EXCEPT ![j] = @ + 1] ELSE pending
  /\ UNCHANGED <<made, step, depth, known, length, up, parent, byHand, halted, dropped, boundVars>>

\* The transaction: only "running" has "succeeded" among its transitions.  The payload
\* and the depth are read for later.  The thread may be a late one of an earlier run.
CommitSuccess(j) ==
  /\ readers[j] > 0 /\ state[j] = "running"
  /\ state' = [state EXCEPT ![j] = "succeeded"]
  /\ readers' = [readers EXCEPT ![j] = @ - 1]
  /\ earned' = [earned EXCEPT ![j] = @ + 1]
  /\ pending' = IF HasNext(j) THEN [pending EXCEPT ![j] = @ + 1] ELSE pending
  /\ UNCHANGED <<made, step, depth, known, length, up, parent, byHand, halted, dropped, boundVars>>

\* The success comes twice, or to a row that has changed: on_success returns.
SuccessRefused(j) ==
  /\ readers[j] > 0 /\ state[j] # "running"
  /\ readers' = [readers EXCEPT ![j] = @ - 1]
  /\ UNCHANGED <<dbVars, up, pending, parent, byHand, earned, halted, dropped, boundVars>>

\* Mutant: the thread counts itself off twice.
ServedTwice(j) == pending' = [pending EXCEPT ![j] = @ - 2]
\* The dispatch of one success is over.
Served(j) == pending' = [pending EXCEPT ![j] = @ - 1]

\* Mutant: off by one.
WithinDepthOffByOne(j) == depth[j] <= MaxDepth
\* new_depth > MAX_CHAIN_DEPTH halts.
WithinDepth(j) == depth[j] + 1 <= MaxDepth

\* Mutant: the thread does not notice that it has dispatched.
DispatchNextAgain(j) ==
  /\ pending[j] > 0 /\ Dispatchable(j) /\ WithinDepth(j)
  /\ CreateJob(step[j] + 1, depth[j] + 1, j)
  /\ UNCHANGED <<known, length, daemonVars, byHand, earned, halted, dropped, boundVars>>

DispatchNext(j) ==
  /\ pending[j] > 0 /\ Dispatchable(j) /\ WithinDepth(j)
  /\ CreateJob(step[j] + 1, depth[j] + 1, j)
  /\ Served(j)
  /\ UNCHANGED <<known, length, up, readers, byHand, earned, halted, dropped, boundVars>>

\* Every other end is a line in the log and nothing else.
Halt(j) == Served(j) /\ halted' = [halted EXCEPT ![j] = @ + 1]

ChainHalts(j) ==
  /\ pending[j] > 0 /\ ~ (Dispatchable(j) /\ WithinDepth(j))
  /\ Halt(j)
  /\ UNCHANGED <<dbVars, up, readers, parent, byHand, earned, dropped, boundVars>>

InsertRaises(j) ==
  /\ pending[j] > 0 /\ Dispatchable(j) /\ WithinDepth(j) /\ errors < MaxErrors
  /\ errors' = errors + 1
  /\ Halt(j)
  /\ UNCHANGED <<dbVars, up, readers, parent, byHand, earned, dropped,
                 resumes, rewrites, ends>>

\* A crash, or a shutdown, which does not wait for the reader threads either.
DaemonEnds ==
  /\ up /\ ends < MaxEnds
  /\ ends' = ends + 1
  /\ up' = FALSE /\ readers' = None /\ pending' = None
  /\ dropped' = [j \in Ids |-> dropped[j] + pending[j]]
  /\ UNCHANGED <<dbVars, parent, byHand, earned, halted, resumes, rewrites, errors>>

-----------------------------------------------------------------------------
Dispatch(j) == DispatchNext(j) \/ ChainHalts(j) \/ InsertRaises(j)
Ends(j) == CommitSuccess(j) \/ Fails(j)

Next ==
  \/ DispatchChainFile \/ DaemonStarts \/ DaemonEnds
  \/ \E k \in 1..MaxLength : RegisterRepo(k)
  \/ \E j \in Ids : \/ ResumeChain(j) \/ Runs(j) \/ Requeued(j) \/ Rewritten(j)
                    \/ Ends(j) \/ SuccessRefused(j) \/ Dispatch(j)

Spec == Init /\ [][Next]_vars

\* The daemon runs, queued jobs get their turn, a job that is run again and
\* again ends at some time, and a reader thread is not stopped.
FairSpec ==
  /\ Spec
  /\ WF_vars(DaemonStarts)
  /\ \A j \in Ids : WF_vars(Runs(j)) /\ SF_vars(Ends(j)) /\ WF_vars(Dispatch(j))

-----------------------------------------------------------------------------
(* Properties.                                                              *)

Children(j) == {c \in Rows \ byHand : parent[c] = j}

\* Every success of a job with a rest of the chain is answered exactly once: by
\* the next job, by a halt in the log, by a dispatch under way, or by one that
\* the end of the process cut off.  None is answered twice, and a failed or
\* requeued job starts nothing.
SuccessAccounted ==
  \A j \in Rows :
    HasNext(j) => Cardinality(Children(j)) + pending[j] + halted[j] + dropped[j] = earned[j]

\* A step runs twice only for a reason: it was resumed by hand, or a job that
\* had succeeded was run again.  A success that two readers of the job report, the late
\* one of a run that was timed out and that of the next, counts once.
CopiesExplained ==
  \A k \in 1..MaxLength :
    Cardinality({j \in Rows : step[j] = k}) <= 1 + resumes + rewrites

\* chain_depth is the distance from the first job, over halts, repeats and
\* resumes; so the daemon on its own goes MAX_CHAIN_DEPTH jobs deep, and what
\* lies deeper was resumed by hand.
DepthGuards ==
  \A j \in Rows : /\ depth[j] + 1 = step[j]
                  /\ depth[j] > MaxDepth => j \in byHand

\* The jobs of a chain keep the promise of ChainPromise.
Promise == INSTANCE ChainPromise WITH
  Length  <- MaxLength,
  started <- {step[j] : j \in Rows},
  passed  <- {step[j] : j \in {i \in Rows : earned[i] > 0}},
  hands   <- resumes
KeepsPromise == Promise!PromiseSpec

\* "Remaining N job(s) will auto-dispatch on success": a chain that was started
\* reaches its last entry, unless a job fails, a halt is logged, or the daemon
\* ends between a commit and the dispatch.
ChainSettles ==
  made > 0 ~> \/ \E j \in Rows : step[j] = length
              \/ \E j \in Rows : state[j] = "failed" \/ halted[j] + dropped[j] > 0
=============================================================================
