------------------------------- MODULE Delivery -------------------------------
(***************************************************************************)
(* The delivery plane: the Supervisor's tick (lib/supervisor.py) over the  *)
(* delivery columns of the jobs table, against the Controller session that *)
(* runs collect, replies on Discord and calls report-done.                 *)
(*                                                                         *)
(* tick lists the undelivered terminal jobs once and drives each from the  *)
(* row it read then.  Keystrokes, POSTs and UPDATEs are separate steps, so *)
(* the Controller, the clock and a crash come between any two of them.     *)
(*                                                                         *)
(* Discord, tmux and the Controller are external: their steps are the      *)
(* outcomes lib/supervisor.py and lib/notifier.py tell apart, and the      *)
(* protocol of skills/discord-agent/SKILL.md.                              *)
(***************************************************************************)
EXTENDS Naturals, FiniteSets

CONSTANTS
  Jobs, None,
  HasChat,          \* the jobs with a notify_chat_id
  MaxWakeAttempts,  \* Supervisor.max_wake_attempts
  MaxAsks,          \* bound: replies the Controller starts unprompted, per job
  MaxCrashes,       \* bound: ends of the daemon process
  MaxLost           \* bound: requests and statements that raised, or timed out
                    \* after they took effect

ASSUME DeliveryAssumption ==
  /\ HasChat \subseteq Jobs
  /\ MaxWakeAttempts \in Nat /\ MaxAsks \in Nat
  /\ MaxCrashes \in Nat /\ MaxLost \in Nat
  /\ None \notin Jobs

VARIABLES
  \* the database
  terminal,      \* state is in DELIVERY_TERMINAL_STATES
  reported,      \* reported_at is set
  wakeState,     \* wake_state, "null" for NULL
  wakeAttempts,  \* wake_attempts
  overdue,       \* terminal_at lies more than wake_grace_seconds back
  \* the Supervisor
  place,         \* where the tick stands
  autoWake,      \* the --auto-wake flag of this daemon process
  list,          \* the rows of the tick's list not driven yet
  seen,          \* wake_state in the row as listed
  seenAttempts,  \* wake_attempts in the row as listed
  cur,           \* the job being driven
  \* the Controller
  prompts,       \* turns the Controller was asked for and has not started
  turn,          \* its place in the turn about a job
  \* history, and the bounds
  posts,         \* fallback messages that reached Discord
  replies,       \* Controller replies that reached Discord
  wakes,         \* wake messages entered into the pane
  asks, crashes, lost

dbVars   == <<terminal, reported, wakeState, wakeAttempts, overdue>>
tickVars == <<place, autoWake, list, seen, seenAttempts, cur>>
ctlVars  == <<prompts, turn>>
histVars == <<posts, replies, wakes, asks, crashes, lost>>
vars == <<dbVars, tickVars, ctlVars, histVars>>

WakeStates == {"null", "woken", "fallback", "undeliverable"}
Places == {"down", "idle", "drive", "enter", "count", "mark", "post", "ack", "give_up"}

TypeOK ==
  /\ terminal \in [Jobs -> BOOLEAN]
  /\ reported \in [Jobs -> BOOLEAN]
  /\ wakeState \in [Jobs -> WakeStates]
  /\ wakeAttempts \in [Jobs -> Nat]
  /\ overdue \in [Jobs -> BOOLEAN]
  /\ place \in Places
  /\ autoWake \in BOOLEAN
  /\ list \in SUBSET Jobs
  /\ seen \in [Jobs -> WakeStates]
  /\ seenAttempts \in [Jobs -> Nat]
  /\ cur \in Jobs \cup {None}
  /\ prompts \in [Jobs -> Nat]
  /\ turn \in [Jobs -> {"idle", "collected", "replied"}]
  /\ posts \in [Jobs -> Nat] /\ replies \in [Jobs -> Nat] /\ wakes \in [Jobs -> Nat]
  /\ asks \in [Jobs -> Nat] /\ crashes \in Nat /\ lost \in Nat

Zero == [j \in Jobs |-> 0]
Never == [j \in Jobs |-> FALSE]

Init ==
  /\ terminal = Never /\ reported = Never /\ overdue = Never
  /\ wakeState = [j \in Jobs |-> "null"] /\ wakeAttempts = Zero
  /\ place = "down" /\ autoWake = FALSE /\ list = {} /\ cur = None
  /\ seen = [j \in Jobs |-> "null"] /\ seenAttempts = Zero
  /\ prompts = Zero /\ turn = [j \in Jobs |-> "idle"]
  /\ posts = Zero /\ replies = Zero /\ wakes = Zero /\ asks = Zero
  /\ crashes = 0 /\ lost = 0

-----------------------------------------------------------------------------
(* The tick.                                                                *)

\* daemon start [--auto-wake]
DaemonStarts ==
  /\ place = "down"
  /\ place' = "idle"
  /\ autoWake' \in BOOLEAN
  /\ UNCHANGED <<dbVars, list, seen, seenAttempts, cur, ctlVars, histVars>>

\* Mutant: a claimed job counts as taken care of.
UndeliveredUnclaimed == {j \in Jobs : terminal[j] /\ ~ reported[j] /\ wakeState[j] # "fallback"}
Undelivered == {j \in Jobs : terminal[j] /\ ~ reported[j]}

\* list_undelivered_terminal_jobs: the rows are copies from here on.
ListUndelivered ==
  /\ place = "idle"
  /\ place' = "drive"
  /\ list' = Undelivered
  /\ seen' = wakeState /\ seenAttempts' = wakeAttempts
  /\ UNCHANGED <<dbVars, autoWake, cur, ctlVars, histVars>>

\* _drive_delivery takes up the next row and leads to a place.
Driving(j, to) ==
  /\ place = "drive" /\ j \in list
  /\ list' = list \ {j}
  /\ place' = to
  /\ cur' = IF to = "drive" THEN None ELSE j
  /\ UNCHANGED <<autoWake, seen, seenAttempts>>

\* The row is done with; tick goes on to the next one.
Return == place' = "drive" /\ cur' = None /\ UNCHANGED <<autoWake, list, seen, seenAttempts>>

\* The listed rows are garbage once the tick is over.
Forget == seen' = [j \in Jobs |-> "null"] /\ seenAttempts' = Zero

\* Mutant: the attempts are not counted against the limit.
MayWakeForever(j) == autoWake /\ ~ overdue[j] /\ seen[j] \in {"null", "woken"}

\* The row may still be woken: wake mode, within grace, attempts left.
MayWake(j) ==
  /\ autoWake /\ ~ overdue[j]
  /\ seen[j] \in {"null", "woken"} /\ seenAttempts[j] < MaxWakeAttempts

\* Given up, or waiting for the grace period, or the pane is busy.
SkipJob(j) ==
  /\ \/ seen[j] = "undeliverable"
     \/ autoWake /\ ~ overdue[j] /\ seen[j] # "fallback"
  /\ Driving(j, "drive")
  /\ UNCHANGED <<dbVars, ctlVars, histVars>>

\* Claimed by an earlier tick: straight to the POST, on the listed row.
RetryFallback(j) ==
  /\ seen[j] = "fallback"
  /\ Driving(j, "post")
  /\ UNCHANGED <<dbVars, ctlVars, histVars>>

\* Mutant: claim_for_fallback does not look at reported_at.
ClaimableWhenReported(j) == wakeState[j] # "fallback"

\* The test and the update of claim_for_fallback are one transaction.
Claimable(j) == ~ reported[j] /\ wakeState[j] # "fallback"

\* _claim_and_fallback: wake is off, grace is over, or there is no pane.
ClaimAndFallback(j) ==
  /\ seen[j] \in {"null", "woken"}
  /\ ~ autoWake \/ overdue[j] \/ MayWake(j)
  /\ IF Claimable(j)
       THEN /\ wakeState' = [wakeState EXCEPT ![j] = "fallback"]
            /\ Driving(j, "post")
       ELSE /\ UNCHANGED wakeState
            /\ Driving(j, "drive")
  /\ UNCHANGED <<terminal, reported, wakeAttempts, overdue, ctlVars, histVars>>

\* _try_wake with an idle pane: the text first, Enter as a second command.
SendText(j) ==
  /\ MayWake(j)
  /\ Driving(j, "enter")
  /\ UNCHANGED <<dbVars, ctlVars, histVars>>

Prompted == /\ prompts' = [prompts EXCEPT ![cur] = @ + 1]
            /\ wakes' = [wakes EXCEPT ![cur] = @ + 1]

SendEnter ==
  /\ place = "enter"
  /\ Prompted
  /\ place' = "count"
  /\ UNCHANGED <<dbVars, autoWake, list, seen, seenAttempts, cur, turn,
                 posts, replies, asks, crashes, lost>>

\* tmux fails or times out: nothing is recorded.  After a timeout the prompt
\* may have gone in all the same.
SendFails ==
  /\ place = "enter"
  /\ \/ UNCHANGED <<prompts, wakes, lost>>
     \/ lost < MaxLost /\ Prompted /\ lost' = lost + 1
  /\ Return
  /\ UNCHANGED <<dbVars, turn, posts, replies, asks, crashes>>

\* Mutant: attempts left are counted down.
CountWakeDown ==
  /\ place = "count"
  /\ wakeAttempts' = [wakeAttempts EXCEPT ![cur] = @ - 1]
  /\ place' = "mark"
  /\ UNCHANGED <<terminal, reported, wakeState, overdue, autoWake, list, seen,
                 seenAttempts, cur, ctlVars, histVars>>

\* Mutant: a wake is not recorded.
CountWakeForgets ==
  /\ place = "count"
  /\ place' = "mark"
  /\ UNCHANGED <<dbVars, autoWake, list, seen, seenAttempts, cur, ctlVars, histVars>>

\* incr_wake_attempts
CountWake ==
  /\ place = "count"
  /\ wakeAttempts' = [wakeAttempts EXCEPT ![cur] = @ + 1]
  /\ place' = "mark"
  /\ UNCHANGED <<terminal, reported, wakeState, overdue, autoWake, list, seen,
                 seenAttempts, cur, ctlVars, histVars>>

\* mark_woken
MarkWoken ==
  /\ place = "mark"
  /\ wakeState' = IF wakeState[cur] = "null" THEN [wakeState EXCEPT ![cur] = "woken"]
                                             ELSE wakeState
  /\ Return
  /\ UNCHANGED <<terminal, reported, wakeAttempts, overdue, ctlVars, histVars>>

\* notify_discord_result: 200 or 201.  No look at reported_at before the POST.
PostAccepted ==
  /\ place = "post" /\ cur \in HasChat
  /\ posts' = [posts EXCEPT ![cur] = @ + 1]
  /\ place' = "ack"
  /\ UNCHANGED <<dbVars, autoWake, list, seen, seenAttempts, cur, ctlVars,
                 replies, wakes, asks, crashes, lost>>

\* 429, 5xx or the network: the next tick retries.  When the answer was lost
\* the message is on Discord already.
PostFails ==
  /\ place = "post" /\ cur \in HasChat
  /\ \/ UNCHANGED <<posts, lost>>
     \/ lost < MaxLost /\ lost' = lost + 1 /\ posts' = [posts EXCEPT ![cur] = @ + 1]
  /\ Return
  /\ UNCHANGED <<dbVars, ctlVars, replies, wakes, asks, crashes>>

\* Mutant: a message that can never be sent counts as sent.
PostRejectedAcks ==
  /\ place = "post"
  /\ place' = "ack"
  /\ UNCHANGED <<dbVars, autoWake, list, seen, seenAttempts, cur, ctlVars, histVars>>

\* Another 4xx, no token, or no chat id: permanent.
PostRejected ==
  /\ place = "post"
  /\ place' = "give_up"
  /\ UNCHANGED <<dbVars, autoWake, list, seen, seenAttempts, cur, ctlVars, histVars>>

\* set_undeliverable: an UPDATE without a condition.
SetUndeliverable ==
  /\ place = "give_up"
  /\ wakeState' = [wakeState EXCEPT ![cur] = "undeliverable"]
  /\ Return
  /\ UNCHANGED <<terminal, reported, wakeAttempts, overdue, ctlVars, histVars>>

\* Mutant: the POST is not recorded.
AckPostForgets == place = "ack" /\ Return /\ UNCHANGED <<dbVars, ctlVars, histVars>>

\* mark_reported after an accepted POST.
AckPost ==
  /\ place = "ack"
  /\ reported' = [reported EXCEPT ![cur] = TRUE]
  /\ Return
  /\ UNCHANGED <<terminal, wakeState, wakeAttempts, overdue, ctlVars, histVars>>

\* A statement of the drive raises (the database is locked, tmux is gone): tick
\* logs it and goes on with the next row.
DriveRaises ==
  /\ cur # None /\ lost < MaxLost
  /\ lost' = lost + 1
  /\ Return
  /\ UNCHANGED <<dbVars, ctlVars, posts, replies, wakes, asks, crashes>>

TickEnds ==
  /\ place = "drive" /\ list = {}
  /\ place' = "idle"
  /\ Forget
  /\ UNCHANGED <<dbVars, autoWake, list, cur, ctlVars, histVars>>

\* SIGKILL, or a graceful stop between ticks: the tables stay, the tick is lost.
Crash ==
  /\ place # "down" /\ crashes < MaxCrashes
  /\ crashes' = crashes + 1
  /\ place' = "down" /\ list' = {} /\ cur' = None
  /\ Forget
  /\ UNCHANGED <<dbVars, autoWake, ctlVars,
                 posts, replies, wakes, asks, lost>>

-----------------------------------------------------------------------------
(* The Controller, the clock, and the execution plane.                      *)

\* Somebody asks the Controller about the job.
UserAsks(j) ==
  /\ asks[j] < MaxAsks
  /\ asks' = [asks EXCEPT ![j] = @ + 1]
  /\ prompts' = [prompts EXCEPT ![j] = @ + 1]
  /\ UNCHANGED <<dbVars, tickVars, turn, posts, replies, wakes, crashes, lost>>

\* collect: it shows a terminal job, reported or not.
Collect(j) ==
  /\ prompts[j] > 0 /\ turn[j] = "idle" /\ terminal[j]
  /\ prompts' = [prompts EXCEPT ![j] = @ - 1]
  /\ turn' = [turn EXCEPT ![j] = "collected"]
  /\ UNCHANGED <<dbVars, tickVars, histVars>>

Reply(j) ==
  /\ turn[j] = "collected"
  /\ turn' = [turn EXCEPT ![j] = "replied"]
  /\ replies' = [replies EXCEPT ![j] = @ + 1]
  /\ UNCHANGED <<dbVars, tickVars, prompts, posts, wakes, asks, crashes, lost>>

\* The session ends or the reply fails: the turn is dropped, without report-done.
TurnDropped(j) ==
  /\ turn[j] # "idle"
  /\ turn' = [turn EXCEPT ![j] = "idle"]
  /\ UNCHANGED <<dbVars, tickVars, prompts, histVars>>

\* report-done: mark_reported.
ReportDone(j) ==
  /\ turn[j] = "replied"
  /\ turn' = [turn EXCEPT ![j] = "idle"]
  /\ reported' = [reported EXCEPT ![j] = TRUE]
  /\ UNCHANGED <<terminal, wakeState, wakeAttempts, overdue, tickVars, prompts, histVars>>

\* The execution plane ends the job; terminal_at is now.
JobEnds(j) ==
  /\ ~ terminal[j]
  /\ terminal' = [terminal EXCEPT ![j] = TRUE]
  /\ UNCHANGED <<reported, wakeState, wakeAttempts, overdue, tickVars, ctlVars, histVars>>

GraceExpires(j) ==
  /\ terminal[j] /\ ~ overdue[j]
  /\ overdue' = [overdue EXCEPT ![j] = TRUE]
  /\ UNCHANGED <<terminal, reported, wakeState, wakeAttempts, tickVars, ctlVars, histVars>>

-----------------------------------------------------------------------------
TickStep ==
  \/ DaemonStarts \/ ListUndelivered \/ TickEnds
  \/ \E j \in Jobs : SkipJob(j) \/ RetryFallback(j) \/ ClaimAndFallback(j) \/ SendText(j)
  \/ SendEnter \/ SendFails \/ CountWake \/ MarkWoken
  \/ PostAccepted \/ PostFails \/ PostRejected \/ SetUndeliverable \/ AckPost
  \/ DriveRaises

Next ==
  \/ TickStep
  \/ Crash
  \/ \E j \in Jobs : \/ UserAsks(j) \/ Collect(j) \/ Reply(j) \/ TurnDropped(j)
                     \/ ReportDone(j) \/ JobEnds(j) \/ GraceExpires(j)

Spec == Init /\ [][Next]_vars

\* The daemon runs (a supervisor process restarts it), time passes, and Discord
\* does not answer every POST with a transient failure.  Nothing is asked of
\* the Controller.
FairSpec ==
  /\ Spec
  /\ WF_vars(TickStep)
  /\ SF_vars(PostAccepted \/ PostRejected)
  /\ \A j \in Jobs : WF_vars(GraceExpires(j))

-----------------------------------------------------------------------------
(* Properties.                                                              *)

\* A job counts as reported only after a message about it reached Discord:
\* report-done follows the reply, mark_reported follows the POST, and neither
\* a crash nor a stale row turns the order round.
ReportedWasTold == \A j \in Jobs : reported[j] => posts[j] + replies[j] > 0

\* The fallback repeats itself only for a reason the code cannot see through:
\* a crash or an error between the POST and mark_reported, or a lost answer.
FallbackPostsBounded == \A j \in Jobs : posts[j] <= 1 + crashes + lost

\* The Controller is woken for a job at most max_wake_attempts times, again
\* but for crashes and errors before the count and keystrokes that went in
\* unnoticed.
WakesBounded == \A j \in Jobs : wakes[j] <= MaxWakeAttempts + crashes + lost

\* In wake mode a job that was woken is left to the Controller until the grace
\* period is over: the fallback claim never overtakes a prompt.  Without a
\* pane, or with the flag off, there is no prompt to overtake.
GraceRespected ==
  [][\A j \in Jobs :
       /\ autoWake /\ ~ overdue[j] /\ wakeAttempts[j] >= MaxWakeAttempts
       => ~ (wakeState[j] # "fallback" /\ wakeState'[j] = "fallback")]_vars

\* The columns keep the promise of DeliveryPromise: the daemon claims a job
\* once and only while it is open, reported is final and told, only the
\* claimant gives up.
Promise == INSTANCE DeliveryPromise WITH
  owner   <- [j \in Jobs |-> IF wakeState[j] \in {"fallback", "undeliverable"}
                               THEN "daemon" ELSE "controller"],
  told    <- [j \in Jobs |-> posts[j] + replies[j] > 0],
  outcome <- [j \in Jobs |-> IF reported[j] THEN "reported"
                             ELSE IF wakeState[j] = "undeliverable" THEN "undeliverable"
                             ELSE "open"]
KeepsPromise == Promise!PromiseSpec

\* Every job that ends is reported or given up, whatever the Controller does.
DeliverySettles ==
  \A j \in Jobs : terminal[j] ~> reported[j] \/ wakeState[j] = "undeliverable"

\* "sent only once even when the main path and the fallback compete".
AtMostOnceTold == \A j \in Jobs : posts[j] + replies[j] <= 1
=============================================================================
