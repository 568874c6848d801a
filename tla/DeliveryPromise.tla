--------------------------- MODULE DeliveryPromise ---------------------------
(***************************************************************************)
(* What the delivery columns of a finished job promise to a reader who     *)
(* sees neither the Supervisor's ticks, nor the Controller's turns, nor    *)
(* crashes: who may speak for the job, whether the user was told, and how  *)
(* the matter was closed.                                                  *)
(***************************************************************************)
CONSTANT Jobs

VARIABLES
  owner,    \* "controller" until the daemon claims the job for its fallback
  told,     \* a message about the job reached Discord
  outcome   \* "open", "reported" (reported_at) or "undeliverable"

promiseVars == <<owner, told, outcome>>

PromiseInit ==
  /\ owner = [j \in Jobs |-> "controller"]
  /\ told = [j \in Jobs |-> FALSE]
  /\ outcome = [j \in Jobs |-> "open"]

\* The daemon takes a job over once, and never one that is closed.
Claim(j) ==
  /\ owner[j] = "controller" /\ outcome[j] = "open"
  /\ owner' = [owner EXCEPT ![j] = "daemon"]
  /\ UNCHANGED <<told, outcome>>

Tell(j) ==
  /\ told' = [told EXCEPT ![j] = TRUE]
  /\ UNCHANGED <<owner, outcome>>

\* Reported means told, and is final; a late report overrides giving up.
Report(j) ==
  /\ told[j] /\ outcome[j] # "reported"
  /\ outcome' = [outcome EXCEPT ![j] = "reported"]
  /\ UNCHANGED <<owner, told>>

\* Only the owner of the fallback gives up.
GiveUp(j) ==
  /\ owner[j] = "daemon" /\ outcome[j] = "open"
  /\ outcome' = [outcome EXCEPT ![j] = "undeliverable"]
  /\ UNCHANGED <<owner, told>>

PromiseNext == \E j \in Jobs : Claim(j) \/ Tell(j) \/ Report(j) \/ GiveUp(j)

PromiseSpec == PromiseInit /\ [][PromiseNext]_promiseVars
=============================================================================
