---------------------------- MODULE DeliveryProofs ----------------------------
(***************************************************************************)
(* Proofs about Delivery, for any set of jobs and any bounds.              *)
(***************************************************************************)
EXTENDS Delivery, TLAPS

\* Counting one more for a job, or for no job at all, leaves a table of counts.
LEMMA Bump ==
  ASSUME NEW f \in [Jobs -> Nat], NEW x
  PROVE  [f EXCEPT ![x] = @ + 1] \in [Jobs -> Nat]
<1>1. CASE x \in Jobs
  BY <1>1
<1>2. CASE x \notin Jobs
  BY <1>2
<1>. QED
  BY <1>1, <1>2

\* The initial tables have the types.
LEMMA TypeInit ==
  ASSUME Init PROVE TypeOK
<1>1. /\ Zero \in [Jobs -> Nat] /\ Never \in [Jobs -> BOOLEAN]
      /\ [j \in Jobs |-> "null"] \in [Jobs -> WakeStates]
      /\ [j \in Jobs |-> "idle"] \in [Jobs -> {"idle", "collected", "replied"}]
  BY Zenon DEF Zero, Never, WakeStates
<1>. QED
  BY <1>1 DEF Init, TypeOK, Places

\* Every step keeps the types.
LEMMA TypeStep ==
  ASSUME TypeOK, [Next]_vars PROVE TypeOK'
<1>. USE DEF TypeOK, WakeStates, Places, dbVars, tickVars, ctlVars, histVars
<1>1. CASE DaemonStarts
  BY <1>1 DEF DaemonStarts
<1>2. CASE ListUndelivered
  BY <1>2 DEF ListUndelivered, Undelivered
<1>3. CASE TickEnds
  <2>1. seen' \in [Jobs -> WakeStates] /\ seenAttempts' \in [Jobs -> Nat]
    BY <1>3 DEF TickEnds, Forget, Zero
  <2>. QED
    BY <1>3, <2>1 DEF TickEnds, Forget
<1>4. ASSUME NEW j \in Jobs, SkipJob(j) PROVE TypeOK'
  BY <1>4 DEF SkipJob, Driving
<1>5. ASSUME NEW j \in Jobs, RetryFallback(j) PROVE TypeOK'
  BY <1>5 DEF RetryFallback, Driving
<1>6. ASSUME NEW j \in Jobs, ClaimAndFallback(j) PROVE TypeOK'
  BY <1>6 DEF ClaimAndFallback, Driving, MayWake, Claimable
<1>7. ASSUME NEW j \in Jobs, SendText(j) PROVE TypeOK'
  BY <1>7 DEF SendText, Driving, MayWake
<1>8. CASE SendEnter
  <2>1. prompts' \in [Jobs -> Nat] /\ wakes' \in [Jobs -> Nat]
    BY <1>8, Bump DEF SendEnter, Prompted
  <2>. QED
    BY <1>8, <2>1 DEF SendEnter, Prompted
<1>9. CASE SendFails
  BY <1>9 DEF SendFails, Prompted, Return
<1>10. CASE CountWake
  <2>1. wakeAttempts' \in [Jobs -> Nat]
    BY <1>10, Bump DEF CountWake
  <2>. QED
    BY <1>10, <2>1 DEF CountWake
<1>11. CASE MarkWoken
  BY <1>11 DEF MarkWoken, Return
<1>12. CASE PostAccepted
  <2>1. posts' \in [Jobs -> Nat]
    BY <1>12, Bump DEF PostAccepted
  <2>. QED
    BY <1>12, <2>1 DEF PostAccepted
<1>13. CASE PostFails
  BY <1>13 DEF PostFails, Return
<1>14. CASE PostRejected
  BY <1>14 DEF PostRejected
<1>15. CASE SetUndeliverable
  BY <1>15 DEF SetUndeliverable, Return
<1>16. CASE AckPost
  BY <1>16 DEF AckPost, Return
<1>17. CASE DriveRaises
  BY <1>17 DEF DriveRaises, Return
<1>18. CASE Crash
  <2>1. seen' \in [Jobs -> WakeStates] /\ seenAttempts' \in [Jobs -> Nat]
    BY <1>18 DEF Crash, Forget, Zero
  <2>2. crashes' \in Nat
    BY <1>18 DEF Crash
  <2>. QED
    BY <1>18, <2>1, <2>2 DEF Crash, Forget
<1>19. ASSUME NEW j \in Jobs, UserAsks(j) PROVE TypeOK'
  BY <1>19 DEF UserAsks
<1>20. ASSUME NEW j \in Jobs, Collect(j) PROVE TypeOK'
  BY <1>20 DEF Collect
<1>21. ASSUME NEW j \in Jobs, Reply(j) PROVE TypeOK'
  BY <1>21 DEF Reply
<1>22. ASSUME NEW j \in Jobs, TurnDropped(j) PROVE TypeOK'
  BY <1>22 DEF TurnDropped
<1>23. ASSUME NEW j \in Jobs, ReportDone(j) PROVE TypeOK'
  BY <1>23 DEF ReportDone
<1>24. ASSUME NEW j \in Jobs, JobEnds(j) PROVE TypeOK'
  BY <1>24 DEF JobEnds
<1>25. ASSUME NEW j \in Jobs, GraceExpires(j) PROVE TypeOK'
  BY <1>25 DEF GraceExpires
<1>26. CASE UNCHANGED vars
  BY <1>26 DEF vars
<1>. QED
  BY <1>1, <1>2, <1>3, <1>4, <1>5, <1>6, <1>7, <1>8, <1>9, <1>10, <1>11,
     <1>12, <1>13, <1>14, <1>15, <1>16, <1>17, <1>18, <1>19, <1>20, <1>21,
     <1>22, <1>23, <1>24, <1>25, <1>26 DEF Next, TickStep

\* The columns, the Supervisor's place and the counts keep their types.
THEOREM TypeCorrect == Spec => []TypeOK
<1>1. Init => TypeOK
  BY TypeInit
<1>2. TypeOK /\ [Next]_vars => TypeOK'
  BY TypeStep
<1>. QED
  BY <1>1, <1>2, PTL DEF Spec

-----------------------------------------------------------------------------
(* The tick: what holds between its steps.                                  *)

Between == {"down", "idle", "drive"}

\* A job is being driven exactly where its row has left the list.
TickShape ==
  /\ place \in Between => cur = None
  /\ place \notin Between => cur \in Jobs /\ cur \notin list
  /\ place \in {"down", "idle"} => list = {}

\* Only the tick itself writes wake_state and wake_attempts: the copies in the
\* rows not driven yet are still true.
RowsFresh ==
  \A j \in list : seen[j] = wakeState[j] /\ seenAttempts[j] = wakeAttempts[j]

\* Whoever is about to POST, or gave up, holds the claim.
ClaimHeld == place \in {"post", "ack", "give_up"} => wakeState[cur] = "fallback"

TickInv == TickShape /\ RowsFresh /\ ClaimHeld

\* The three hold together: a row is fresh because its job is not being driven,
\* and a retry holds the claim because its row is fresh.
LEMMA TickInvStep ==
  ASSUME TypeOK, TickInv, [Next]_vars PROVE TickInv'
<1>. USE DeliveryAssumption DEF TypeOK, TickInv, TickShape, RowsFresh, ClaimHeld,
       Between, dbVars, tickVars, ctlVars, histVars
<1>1. CASE DaemonStarts
  BY <1>1 DEF DaemonStarts
<1>2. CASE ListUndelivered
  BY <1>2 DEF ListUndelivered, Undelivered
<1>3. CASE TickEnds
  BY <1>3 DEF TickEnds, Forget
<1>4. ASSUME NEW j \in Jobs, SkipJob(j) PROVE TickInv'
  BY <1>4 DEF SkipJob, Driving
<1>5. ASSUME NEW j \in Jobs, RetryFallback(j) PROVE TickInv'
  BY <1>5 DEF RetryFallback, Driving
<1>6. ASSUME NEW j \in Jobs, ClaimAndFallback(j) PROVE TickInv'
  BY <1>6 DEF ClaimAndFallback, Driving, MayWake, Claimable
<1>7. ASSUME NEW j \in Jobs, SendText(j) PROVE TickInv'
  BY <1>7 DEF SendText, Driving, MayWake
<1>8. CASE SendEnter
  BY <1>8 DEF SendEnter, Prompted
<1>9. CASE SendFails
  BY <1>9 DEF SendFails, Prompted, Return
<1>10. CASE CountWake
  BY <1>10 DEF CountWake
<1>11. CASE MarkWoken
  BY <1>11 DEF MarkWoken, Return
<1>12. CASE PostAccepted
  BY <1>12 DEF PostAccepted
<1>13. CASE PostFails
  BY <1>13 DEF PostFails, Return
<1>14. CASE PostRejected
  BY <1>14 DEF PostRejected
<1>15. CASE SetUndeliverable
  BY <1>15 DEF SetUndeliverable, Return
<1>16. CASE AckPost
  BY <1>16 DEF AckPost, Return
<1>17. CASE DriveRaises
  BY <1>17 DEF DriveRaises, Return
<1>18. CASE Crash
  BY <1>18 DEF Crash, Forget
<1>19. ASSUME NEW j \in Jobs,
            UserAsks(j) \/ Collect(j) \/ Reply(j) \/
            TurnDropped(j) \/ ReportDone(j) \/ JobEnds(j) \/
            GraceExpires(j)
     PROVE  TickInv'
  BY <1>19 DEF UserAsks, Collect, Reply, TurnDropped, ReportDone, JobEnds,
     GraceExpires
<1>20. CASE UNCHANGED vars
  BY <1>20 DEF vars
<1>. QED
  BY <1>1, <1>2, <1>3, <1>4, <1>5, <1>6, <1>7, <1>8, <1>9, <1>10, <1>11,
     <1>12, <1>13, <1>14, <1>15, <1>16, <1>17, <1>18, <1>19, <1>20 DEF
     Next, TickStep

\* So every tick keeps them, wherever the steps of the others fall.
LEMMA TickInvariant == Spec => []TickInv
<1>1. Init => TickInv
  BY DEF Init, TickInv, TickShape, RowsFresh, ClaimHeld, Between
<1>2. TypeOK /\ TickInv /\ [Next]_vars => TickInv'
  BY TickInvStep
<1>. QED
  BY <1>1, <1>2, TypeCorrect, PTL DEF Spec

-----------------------------------------------------------------------------
(* Reported means told.                                                     *)

\* Both writers of reported_at come after a message: mark_reported after the
\* POST that was accepted, report-done after the reply.
ToldFirst ==
  /\ \A j \in Jobs : turn[j] = "replied" => replies[j] > 0
  /\ place = "ack" => posts[cur] > 0
  /\ ReportedWasTold

\* Neither a stale row nor a crash turns the order round.
LEMMA ToldFirstStep ==
  ASSUME TypeOK, TickInv, ToldFirst, [Next]_vars PROVE ToldFirst'
<1>. USE DEF TypeOK, TickInv, TickShape, Between, ToldFirst, ReportedWasTold,
             dbVars, tickVars, ctlVars, histVars
<1>1. CASE DaemonStarts
  BY <1>1 DEF DaemonStarts
<1>2. CASE ListUndelivered
  BY <1>2 DEF ListUndelivered, Undelivered
<1>3. CASE TickEnds
  BY <1>3 DEF TickEnds, Forget
<1>4. ASSUME NEW j \in Jobs, SkipJob(j) PROVE ToldFirst'
  BY <1>4 DEF SkipJob, Driving
<1>5. ASSUME NEW j \in Jobs, RetryFallback(j) PROVE ToldFirst'
  BY <1>5 DEF RetryFallback, Driving
<1>6. ASSUME NEW j \in Jobs, ClaimAndFallback(j) PROVE ToldFirst'
  BY <1>6 DEF ClaimAndFallback, Driving, MayWake, Claimable
<1>7. ASSUME NEW j \in Jobs, SendText(j) PROVE ToldFirst'
  BY <1>7 DEF SendText, Driving, MayWake
<1>8. CASE SendEnter
  BY <1>8 DEF SendEnter, Prompted
<1>9. CASE SendFails
  BY <1>9 DEF SendFails, Prompted, Return
<1>10. CASE CountWake
  BY <1>10 DEF CountWake
<1>11. CASE MarkWoken
  BY <1>11 DEF MarkWoken, Return
<1>12. CASE PostAccepted
  BY <1>12 DEF PostAccepted
<1>13. CASE PostFails
  BY <1>13 DEF PostFails, Return
<1>14. CASE PostRejected
  BY <1>14 DEF PostRejected
<1>15. CASE SetUndeliverable
  BY <1>15 DEF SetUndeliverable, Return
<1>16. CASE AckPost
  BY <1>16 DEF AckPost, Return
<1>17. CASE DriveRaises
  BY <1>17 DEF DriveRaises, Return
<1>18. CASE Crash
  BY <1>18 DEF Crash, Forget
<1>19. ASSUME NEW j \in Jobs, UserAsks(j) PROVE ToldFirst'
  BY <1>19 DEF UserAsks
<1>20. ASSUME NEW j \in Jobs, Collect(j) PROVE ToldFirst'
  BY <1>20 DEF Collect
<1>21. ASSUME NEW j \in Jobs, Reply(j) PROVE ToldFirst'
  BY <1>21 DEF Reply
<1>22. ASSUME NEW j \in Jobs, TurnDropped(j) PROVE ToldFirst'
  BY <1>22 DEF TurnDropped
<1>23. ASSUME NEW j \in Jobs, ReportDone(j) PROVE ToldFirst'
  BY <1>23 DEF ReportDone
<1>24. ASSUME NEW j \in Jobs, JobEnds(j) PROVE ToldFirst'
  BY <1>24 DEF JobEnds
<1>25. ASSUME NEW j \in Jobs, GraceExpires(j) PROVE ToldFirst'
  BY <1>25 DEF GraceExpires
<1>26. CASE UNCHANGED vars
  BY <1>26 DEF vars
<1>. QED
  BY <1>1, <1>2, <1>3, <1>4, <1>5, <1>6, <1>7, <1>8, <1>9, <1>10, <1>11,
     <1>12, <1>13, <1>14, <1>15, <1>16, <1>17, <1>18, <1>19, <1>20, <1>21,
     <1>22, <1>23, <1>24, <1>25, <1>26 DEF Next, TickStep

\* So a message comes first in every behaviour.
LEMMA ToldFirstInvariant == Spec => []ToldFirst
<1>1. Init => ToldFirst
  BY DEF Init, ToldFirst, ReportedWasTold, Never
<1>2. TypeOK /\ TickInv /\ ToldFirst /\ [Next]_vars => ToldFirst'
  BY ToldFirstStep
<1>. QED
  BY <1>1, <1>2, TypeCorrect, TickInvariant, PTL DEF Spec

\* No order of ticks, turns, crashes and errors reports a job nobody was told
\* about.
THEOREM Told == Spec => []ReportedWasTold
<1>1. ToldFirst => ReportedWasTold
  BY DEF ToldFirst
<1>. QED
  BY <1>1, ToldFirstInvariant, PTL

-----------------------------------------------------------------------------
(* How often the fallback speaks.                                           *)

\* The job's message went out and nothing in this tick will send it again.
Closed(j) ==
  /\ j \notin list
  /\ cur = j => place = "ack"
  /\ cur = j \/ reported[j]

\* Until then every message of the fallback is paid for by a crash or an error.
Paid(j) == IF Closed(j) THEN 1 ELSE 0
PostsPaid == \A j \in Jobs : posts[j] <= crashes + lost + Paid(j)

\* No step leaves a message unpaid, whatever had been paid for before.
LEMMA PostsPaidStep ==
  ASSUME TypeOK, TickInv, [Next]_vars,
         NEW j \in Jobs, NEW m \in Nat, NEW n \in Nat,
         posts[j] + m <= n + crashes + lost + Paid(j)
  PROVE  posts'[j] + m <= n + crashes' + lost' + Paid(j)'
<1>. DEFINE Kept == posts'[j] + m <= n + crashes' + lost' + Paid(j)'
<1>. USE DeliveryAssumption DEF TypeOK, TickInv, TickShape, Between, Paid,
       Closed, dbVars, tickVars, ctlVars, histVars
<1>1. CASE DaemonStarts
  BY <1>1 DEF DaemonStarts
<1>2. CASE ListUndelivered
  BY <1>2 DEF ListUndelivered, Undelivered
<1>3. CASE TickEnds
  BY <1>3 DEF TickEnds, Forget
<1>4. ASSUME NEW i \in Jobs, SkipJob(i) PROVE Kept
  BY <1>4 DEF SkipJob, Driving
<1>5. ASSUME NEW i \in Jobs, RetryFallback(i) PROVE Kept
  BY <1>5 DEF RetryFallback, Driving
<1>6. ASSUME NEW i \in Jobs, ClaimAndFallback(i) PROVE Kept
  BY <1>6 DEF ClaimAndFallback, Driving, MayWake, Claimable
<1>7. ASSUME NEW i \in Jobs, SendText(i) PROVE Kept
  BY <1>7 DEF SendText, Driving, MayWake
<1>8. CASE SendEnter
  BY <1>8 DEF SendEnter, Prompted
<1>9. CASE SendFails
  BY <1>9 DEF SendFails, Prompted, Return
<1>10. CASE CountWake
  BY <1>10 DEF CountWake
<1>11. CASE MarkWoken
  BY <1>11 DEF MarkWoken, Return
<1>12. CASE PostAccepted
  BY <1>12 DEF PostAccepted
<1>13. CASE PostFails
  BY <1>13 DEF PostFails, Return
<1>14. CASE PostRejected
  BY <1>14 DEF PostRejected
<1>15. CASE SetUndeliverable
  BY <1>15 DEF SetUndeliverable, Return
<1>16. CASE AckPost
  BY <1>16 DEF AckPost, Return
<1>17. CASE DriveRaises
  BY <1>17 DEF DriveRaises, Return
<1>18. CASE Crash
  BY <1>18 DEF Crash, Forget
<1>19. ASSUME NEW i \in Jobs,
            UserAsks(i) \/ Collect(i) \/ Reply(i) \/
            TurnDropped(i) \/ ReportDone(i) \/ JobEnds(i) \/
            GraceExpires(i)
     PROVE  Kept
  BY <1>19 DEF UserAsks, Collect, Reply, TurnDropped, ReportDone, JobEnds,
     GraceExpires
<1>20. CASE UNCHANGED vars
  BY <1>20 DEF vars
<1>. QED
  BY <1>1, <1>2, <1>3, <1>4, <1>5, <1>6, <1>7, <1>8, <1>9, <1>10, <1>11,
     <1>12, <1>13, <1>14, <1>15, <1>16, <1>17, <1>18, <1>19, <1>20 DEF
     Next, TickStep

\* The fallback posts once, and once more per crash or lost answer at most.
THEOREM PostsBounded == Spec => []FallbackPostsBounded
<1>1. Init => PostsPaid
  BY DEF Init, PostsPaid, Zero, Closed, Paid
<1>2. TypeOK /\ TickInv /\ PostsPaid /\ [Next]_vars => PostsPaid'
  <2>. SUFFICES ASSUME TypeOK, TickInv, PostsPaid, [Next]_vars, NEW j \in Jobs
                PROVE  posts'[j] <= crashes' + lost' + Paid(j)'
    BY DEF PostsPaid
  <2>1. posts[j] + 0 <= 0 + crashes + lost + Paid(j)
    BY DEF PostsPaid, TypeOK
  <2>2. posts'[j] + 0 <= 0 + crashes' + lost' + Paid(j)'
    BY <2>1, PostsPaidStep
  <2>. QED
    BY <2>2, TypeStep DEF TypeOK
<1>3. TypeOK /\ PostsPaid => FallbackPostsBounded
  BY DEF TypeOK, PostsPaid, Paid, FallbackPostsBounded
<1>. QED
  BY <1>1, <1>2, <1>3, TypeCorrect, TickInvariant, PTL DEF Spec

-----------------------------------------------------------------------------
(* How often the Controller is woken, and when the fallback may overtake it. *)

\* wake_attempts counts every wake but the one under way and those a crash or
\* an error kept from being counted, and it never passes the limit.
WakesCounted ==
  /\ \A j \in Jobs : wakeAttempts[j] <= MaxWakeAttempts
  /\ place \in {"enter", "count"} => wakeAttempts[cur] < MaxWakeAttempts
  /\ \A j \in Jobs : wakes[j] <= wakeAttempts[j] + crashes + lost
                                 + (IF place = "count" /\ cur = j THEN 1 ELSE 0)

\* The wake limit holds although the row it is read from is a copy.
THEOREM WakesLimited == Spec => []WakesBounded
<1>1. Init => WakesCounted
  BY DeliveryAssumption DEF Init, WakesCounted, Zero
<1>2. TypeOK /\ TickInv /\ WakesCounted /\ [Next]_vars => WakesCounted'
  <2>. SUFFICES ASSUME TypeOK, TickInv, WakesCounted, [Next]_vars PROVE WakesCounted'
    OBVIOUS
  <2>. USE DeliveryAssumption DEF TypeOK, TickInv, TickShape, RowsFresh, Between,
         WakesCounted, dbVars, tickVars, ctlVars, histVars
  <2>1. CASE DaemonStarts
    BY <2>1 DEF DaemonStarts
  <2>2. CASE ListUndelivered
    BY <2>2 DEF ListUndelivered, Undelivered
  <2>3. CASE TickEnds
    BY <2>3 DEF TickEnds, Forget
  <2>4. ASSUME NEW j \in Jobs, SkipJob(j) PROVE WakesCounted'
    BY <2>4 DEF SkipJob, Driving
  <2>5. ASSUME NEW j \in Jobs, RetryFallback(j) PROVE WakesCounted'
    BY <2>5 DEF RetryFallback, Driving
  <2>6. ASSUME NEW j \in Jobs, ClaimAndFallback(j) PROVE WakesCounted'
    BY <2>6 DEF ClaimAndFallback, Driving, MayWake, Claimable
  <2>7. ASSUME NEW j \in Jobs, SendText(j) PROVE WakesCounted'
    BY <2>7 DEF SendText, Driving, MayWake
  <2>8. CASE SendEnter
    BY <2>8 DEF SendEnter, Prompted
  <2>9. CASE SendFails
    BY <2>9 DEF SendFails, Prompted, Return
  <2>10. CASE CountWake
    BY <2>10 DEF CountWake
  <2>11. CASE MarkWoken
    BY <2>11 DEF MarkWoken, Return
  <2>12. CASE PostAccepted
    BY <2>12 DEF PostAccepted
  <2>13. CASE PostFails
    BY <2>13 DEF PostFails, Return
  <2>14. CASE PostRejected
    BY <2>14 DEF PostRejected
  <2>15. CASE SetUndeliverable
    BY <2>15 DEF SetUndeliverable, Return
  <2>16. CASE AckPost
    BY <2>16 DEF AckPost, Return
  <2>17. CASE DriveRaises
    BY <2>17 DEF DriveRaises, Return
  <2>18. CASE Crash
    BY <2>18 DEF Crash, Forget
  <2>19. ASSUME NEW j \in Jobs,
              UserAsks(j) \/ Collect(j) \/ Reply(j) \/
              TurnDropped(j) \/ ReportDone(j) \/ JobEnds(j) \/
              GraceExpires(j)
       PROVE  WakesCounted'
    BY <2>19 DEF UserAsks, Collect, Reply, TurnDropped, ReportDone, JobEnds,
       GraceExpires
  <2>20. CASE UNCHANGED vars
    BY <2>20 DEF vars
  <2>. QED
    BY <2>1, <2>2, <2>3, <2>4, <2>5, <2>6, <2>7, <2>8, <2>9, <2>10, <2>11,
       <2>12, <2>13, <2>14, <2>15, <2>16, <2>17, <2>18, <2>19, <2>20 DEF
       Next, TickStep
<1>3. TypeOK /\ TickInv /\ WakesCounted => WakesBounded
  BY DeliveryAssumption DEF TypeOK, TickInv, TickShape, Between, WakesCounted,
     WakesBounded
<1>. QED
  BY <1>1, <1>2, <1>3, TypeCorrect, TickInvariant, PTL DEF Spec

\* The claim never overtakes the last prompt within the grace period: the tick
\* that may claim has read an attempt count below the limit, and it is current.
THEOREM GraceKept == Spec => GraceRespected
<1>. DEFINE Respected(i) ==
       /\ autoWake /\ ~ overdue[i] /\ wakeAttempts[i] >= MaxWakeAttempts
       => ~ (wakeState[i] # "fallback" /\ wakeState'[i] = "fallback")
<1>. DEFINE AllRespected == \A j \in Jobs : Respected(j)
<1>1. TypeOK /\ TickInv /\ [Next]_vars => [AllRespected]_vars
  <2>. SUFFICES ASSUME TypeOK, TickInv, [Next]_vars, NEW i \in Jobs PROVE Respected(i)
    OBVIOUS
  <2>. USE DeliveryAssumption DEF TypeOK, TickInv, TickShape, RowsFresh, Between,
         dbVars, tickVars, ctlVars, histVars
  <2>1. CASE DaemonStarts
    BY <2>1 DEF DaemonStarts
  <2>2. CASE ListUndelivered
    BY <2>2 DEF ListUndelivered, Undelivered
  <2>3. CASE TickEnds
    BY <2>3 DEF TickEnds, Forget
  <2>4. ASSUME NEW j \in Jobs, SkipJob(j) PROVE Respected(i)
    BY <2>4 DEF SkipJob, Driving
  <2>5. ASSUME NEW j \in Jobs, RetryFallback(j) PROVE Respected(i)
    BY <2>5 DEF RetryFallback, Driving
  <2>6. ASSUME NEW j \in Jobs, ClaimAndFallback(j) PROVE Respected(i)
    <3>1. CASE i = j
      <4>1. seenAttempts[i] = wakeAttempts[i]
        BY <2>6, <3>1 DEF ClaimAndFallback, Driving
      <4>2. CASE autoWake /\ ~ overdue[i]
        BY <2>6, <3>1, <4>1, <4>2 DEF ClaimAndFallback, MayWake
      <4>. QED
        BY <4>2
    <3>2. CASE i # j
      BY <2>6, <3>2 DEF ClaimAndFallback
    <3>. QED
      BY <3>1, <3>2
  <2>7. ASSUME NEW j \in Jobs, SendText(j) PROVE Respected(i)
    BY <2>7 DEF SendText, Driving, MayWake
  <2>8. CASE SendEnter
    BY <2>8 DEF SendEnter, Prompted
  <2>9. CASE SendFails
    BY <2>9 DEF SendFails, Prompted, Return
  <2>10. CASE CountWake
    BY <2>10 DEF CountWake
  <2>11. CASE MarkWoken
    BY <2>11 DEF MarkWoken, Return
  <2>12. CASE PostAccepted
    BY <2>12 DEF PostAccepted
  <2>13. CASE PostFails
    BY <2>13 DEF PostFails, Return
  <2>14. CASE PostRejected
    BY <2>14 DEF PostRejected
  <2>15. CASE SetUndeliverable
    BY <2>15 DEF SetUndeliverable, Return
  <2>16. CASE AckPost
    BY <2>16 DEF AckPost, Return
  <2>17. CASE DriveRaises
    BY <2>17 DEF DriveRaises, Return
  <2>18. CASE Crash
    BY <2>18 DEF Crash, Forget
  <2>19. ASSUME NEW j \in Jobs,
              UserAsks(j) \/ Collect(j) \/ Reply(j) \/
              TurnDropped(j) \/ ReportDone(j) \/ JobEnds(j) \/
              GraceExpires(j)
       PROVE  Respected(i)
    BY <2>19 DEF UserAsks, Collect, Reply, TurnDropped, ReportDone, JobEnds,
       GraceExpires
  <2>20. CASE UNCHANGED vars
    BY <2>20 DEF vars
  <2>. QED
    BY <2>1, <2>2, <2>3, <2>4, <2>5, <2>6, <2>7, <2>8, <2>9, <2>10, <2>11,
       <2>12, <2>13, <2>14, <2>15, <2>16, <2>17, <2>18, <2>19, <2>20 DEF
       Next, TickStep
<1>. QED
  BY <1>1, TypeCorrect, TickInvariant, PTL DEF Spec, GraceRespected

-----------------------------------------------------------------------------
(* Delivery implements DeliveryPromise.                                     *)

\* What the columns show of the promise, as Promise maps it.
Owner == [j \in Jobs |-> IF wakeState[j] \in {"fallback", "undeliverable"}
                           THEN "daemon" ELSE "controller"]
Heard == [j \in Jobs |-> posts[j] + replies[j] > 0]
Outcome == [j \in Jobs |-> IF reported[j] THEN "reported"
                           ELSE IF wakeState[j] = "undeliverable" THEN "undeliverable"
                           ELSE "open"]

PromiseStep == [Promise!PromiseNext]_(Promise!promiseVars)

\* A message about a job can only turn "not told" into "told".
LEMMA Telling ==
  ASSUME TypeOK, NEW j \in Jobs,
         \/ posts' = [posts EXCEPT ![j] = @ + 1] /\ replies' = replies
         \/ replies' = [replies EXCEPT ![j] = @ + 1] /\ posts' = posts,
         wakeState' = wakeState, reported' = reported
  PROVE  PromiseStep
<1>1. Heard' = [Heard EXCEPT ![j] = TRUE]
  <2>1. ASSUME NEW i \in Jobs PROVE (posts[i] + replies[i] > 0)' = [Heard EXCEPT ![j] = TRUE][i]
    <3>1. CASE i = j
      <4>1. posts'[j] + replies'[j] > 0
        BY DEF TypeOK
      <4>. QED
        BY <3>1, <4>1 DEF Heard
    <3>2. CASE i # j
      <4>1. posts'[i] = posts[i] /\ replies'[i] = replies[i]
        BY <2>1, <3>2 DEF TypeOK
      <4>. QED
        BY <2>1, <3>2, <4>1 DEF Heard
    <3>. QED
      BY <3>1, <3>2
  <2>. QED
    BY <2>1 DEF Heard
<1>2. Owner' = Owner /\ Outcome' = Outcome
  BY DEF Owner, Outcome
<1>. QED
  BY <1>1, <1>2 DEF PromiseStep, Promise!PromiseNext, Promise!Tell, Owner,
     Heard, Outcome

\* Setting reported_at after a message is a report, or changes nothing.
LEMMA Reporting ==
  ASSUME TypeOK, NEW j \in Jobs, posts[j] + replies[j] > 0,
         reported' = [reported EXCEPT ![j] = TRUE],
         wakeState' = wakeState, posts' = posts, replies' = replies
  PROVE  PromiseStep
<1>1. Owner' = Owner /\ Heard' = Heard /\ Heard[j]
  BY DEF Owner, Heard
<1>2. Outcome' = [Outcome EXCEPT ![j] = "reported"]
  BY DEF TypeOK, Outcome
<1>3. CASE reported[j]
  <2>1. Outcome' = Outcome
    BY <1>2, <1>3 DEF Outcome
  <2>. QED
    BY <1>1, <2>1 DEF PromiseStep, Promise!promiseVars, Owner, Heard, Outcome
<1>4. CASE ~ reported[j]
  <2>1. Outcome[j] # "reported"
    BY <1>4 DEF Outcome
  <2>. QED
    BY <1>1, <1>2, <2>1
    DEF PromiseStep, Promise!PromiseNext, Promise!Report, Owner, Heard, Outcome
<1>. QED
  BY <1>3, <1>4

\* Every step of the tick, the Controller or the clock is a step of the promise
\* or leaves what it shows unchanged.
THEOREM Refinement == Spec => KeepsPromise
<1>1. Init => Promise!PromiseInit
  <2>. SUFFICES ASSUME Init PROVE Promise!PromiseInit
    OBVIOUS
  <2>1. Owner = [j \in Jobs |-> "controller"]
    BY DEF Init, Owner
  <2>2. Heard = [j \in Jobs |-> FALSE]
    <3>1. \A j \in Jobs : (posts[j] + replies[j] > 0) = FALSE
      BY DEF Init, Zero
    <3>. QED
      BY <3>1, Zenon DEF Heard
  <2>3. Outcome = [j \in Jobs |-> "open"]
    BY DEF Init, Outcome, Never
  <2>. QED
    BY <2>1, <2>2, <2>3 DEF Promise!PromiseInit, Owner, Heard, Outcome
<1>2. TypeOK /\ TickInv /\ ToldFirst /\ [Next]_vars => PromiseStep
  <2>. SUFFICES ASSUME TypeOK, TickInv, ToldFirst, [Next]_vars PROVE PromiseStep
    OBVIOUS
  <2>. USE DeliveryAssumption DEF TypeOK, TickInv, TickShape, Between, ToldFirst,
         dbVars, tickVars, ctlVars, histVars
  <2>1. CASE DaemonStarts
    BY <2>1 DEF DaemonStarts, PromiseStep, Promise!promiseVars
  <2>2. CASE ListUndelivered
    BY <2>2 DEF ListUndelivered, Undelivered, PromiseStep,
       Promise!promiseVars
  <2>3. CASE TickEnds
    BY <2>3 DEF TickEnds, Forget, PromiseStep, Promise!promiseVars
  <2>4. ASSUME NEW j \in Jobs, SkipJob(j) PROVE PromiseStep
    BY <2>4 DEF SkipJob, Driving, PromiseStep, Promise!promiseVars
  <2>5. ASSUME NEW j \in Jobs, RetryFallback(j) PROVE PromiseStep
    BY <2>5 DEF RetryFallback, Driving, PromiseStep, Promise!promiseVars
  <2>6. ASSUME NEW j \in Jobs, ClaimAndFallback(j) PROVE PromiseStep
    <3>1. CASE Claimable(j)
      <4>1. wakeState[j] \in {"null", "woken"} /\ ~ reported[j]
        BY <2>6, <3>1 DEF ClaimAndFallback, Claimable, Driving, RowsFresh
      <4>2. Owner[j] = "controller" /\ Outcome[j] = "open"
        BY <4>1 DEF Owner, Outcome
      <4>3. Owner' = [Owner EXCEPT ![j] = "daemon"]
        BY <2>6, <3>1 DEF ClaimAndFallback, Owner
      <4>4. Heard' = Heard /\ Outcome' = Outcome
        BY <2>6, <3>1, <4>1 DEF ClaimAndFallback, Heard, Outcome
      <4>. QED
        BY <4>2, <4>3, <4>4
        DEF PromiseStep, Promise!PromiseNext, Promise!Claim, Owner, Heard, Outcome
    <3>2. CASE ~ Claimable(j)
      BY <2>6, <3>2 DEF ClaimAndFallback, PromiseStep, Promise!promiseVars
    <3>. QED
      BY <3>1, <3>2
  <2>7. ASSUME NEW j \in Jobs, SendText(j) PROVE PromiseStep
    BY <2>7 DEF SendText, Driving, MayWake, PromiseStep, Promise!promiseVars
  <2>8. CASE SendEnter
    BY <2>8 DEF SendEnter, Prompted, PromiseStep, Promise!promiseVars
  <2>9. CASE SendFails
    BY <2>9 DEF SendFails, Prompted, Return, PromiseStep,
       Promise!promiseVars
  <2>10. CASE CountWake
    BY <2>10 DEF CountWake, PromiseStep, Promise!promiseVars
  <2>11. CASE MarkWoken
    <3>1. Owner' = Owner /\ Heard' = Heard /\ Outcome' = Outcome
      BY <2>11 DEF MarkWoken, Owner, Heard, Outcome
    <3>. QED
      BY <3>1 DEF PromiseStep, Promise!promiseVars, Owner, Heard, Outcome
  <2>12. CASE PostAccepted
    BY <2>12, Telling DEF PostAccepted
  <2>13. CASE PostFails
    <3>1. CASE posts' = posts
      BY <2>13, <3>1 DEF PostFails, PromiseStep, Promise!promiseVars
    <3>2. CASE posts' = [posts EXCEPT ![cur] = @ + 1]
      BY <2>13, <3>2, Telling DEF PostFails
    <3>. QED
      BY <2>13, <3>1, <3>2 DEF PostFails
  <2>14. CASE PostRejected
    BY <2>14 DEF PostRejected, PromiseStep, Promise!promiseVars
  <2>15. CASE SetUndeliverable
    <3>1. wakeState[cur] = "fallback"
      BY <2>15 DEF SetUndeliverable, ClaimHeld
    <3>2. Owner[cur] = "daemon" /\ Owner' = Owner /\ Heard' = Heard
      BY <2>15, <3>1 DEF SetUndeliverable, Owner, Heard
    <3>3. CASE reported[cur]
      <4>1. Outcome' = Outcome
        BY <2>15, <3>3 DEF SetUndeliverable, Outcome
      <4>. QED
        BY <3>2, <4>1 DEF PromiseStep, Promise!promiseVars, Owner, Heard, Outcome
    <3>4. CASE ~ reported[cur]
      <4>1. Outcome[cur] = "open" /\ Outcome' = [Outcome EXCEPT ![cur] = "undeliverable"]
        BY <2>15, <3>1, <3>4 DEF SetUndeliverable, Outcome
      <4>. QED
        BY <2>15, <3>2, <4>1
        DEF SetUndeliverable, PromiseStep, Promise!PromiseNext, Promise!GiveUp, Owner, Heard, Outcome
    <3>. QED
      BY <3>3, <3>4
  <2>16. CASE AckPost
    <3>1. posts[cur] + replies[cur] > 0
      BY <2>16 DEF AckPost
    <3>. QED
      BY <2>16, <3>1, Reporting DEF AckPost
  <2>17. CASE DriveRaises
    BY <2>17 DEF DriveRaises, Return, PromiseStep, Promise!promiseVars
  <2>18. CASE Crash
    BY <2>18 DEF Crash, Forget, PromiseStep, Promise!promiseVars
  <2>19. ASSUME NEW j \in Jobs, UserAsks(j) PROVE PromiseStep
    BY <2>19 DEF UserAsks, PromiseStep, Promise!promiseVars
  <2>20. ASSUME NEW j \in Jobs, Collect(j) PROVE PromiseStep
    BY <2>20 DEF Collect, PromiseStep, Promise!promiseVars
  <2>21. ASSUME NEW j \in Jobs, Reply(j) PROVE PromiseStep
    BY <2>21, Telling DEF Reply
  <2>22. ASSUME NEW j \in Jobs, TurnDropped(j) PROVE PromiseStep
    BY <2>22 DEF TurnDropped, PromiseStep, Promise!promiseVars
  <2>23. ASSUME NEW j \in Jobs, ReportDone(j) PROVE PromiseStep
    <3>1. posts[j] + replies[j] > 0
      BY <2>23 DEF ReportDone
    <3>. QED
      BY <2>23, <3>1, Reporting DEF ReportDone
  <2>24. ASSUME NEW j \in Jobs, JobEnds(j) PROVE PromiseStep
    BY <2>24 DEF JobEnds, PromiseStep, Promise!promiseVars
  <2>25. ASSUME NEW j \in Jobs, GraceExpires(j) PROVE PromiseStep
    BY <2>25 DEF GraceExpires, PromiseStep, Promise!promiseVars
  <2>26. CASE UNCHANGED vars
    BY <2>26 DEF vars, PromiseStep, Promise!promiseVars
  <2>. QED
    BY <2>1, <2>2, <2>3, <2>4, <2>5, <2>6, <2>7, <2>8, <2>9, <2>10, <2>11,
       <2>12, <2>13, <2>14, <2>15, <2>16, <2>17, <2>18, <2>19, <2>20, <2>21,
       <2>22, <2>23, <2>24, <2>25, <2>26 DEF Next, TickStep
<1>. QED
  BY <1>1, <1>2, TypeCorrect, TickInvariant, ToldFirstInvariant, PTL
  DEF Spec, KeepsPromise, Promise!PromiseSpec, PromiseStep
=============================================================================
