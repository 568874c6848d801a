----------------------------- MODULE DispatchProofs -----------------------------
(***************************************************************************)
(* Proofs about Dispatch: what next_job returns, for any number of jobs,   *)
(* priorities, times and LIMIT, and how long a backoff lasts, for any base *)
(* delay and cap.                                                          *)
(***************************************************************************)
EXTENDS Dispatch, FiniteSetTheorems, TLAPS

-----------------------------------------------------------------------------
(* The order of the queue is a strict total order on the jobs.              *)

LEMMA BeforeIsOrder ==
  ASSUME NEW i \in Jobs, NEW j \in Jobs, NEW k \in Jobs
  PROVE  /\ ~ Before(i, i)
         /\ Before(i, j) \/ Before(j, i) \/ i = j
         /\ Before(i, j) /\ Before(j, k) => Before(i, k)
<1>1. /\ i \in Nat /\ j \in Nat /\ k \in Nat
      /\ Priority[i] \in Nat /\ Priority[j] \in Nat /\ Priority[k] \in Nat
      /\ EnqueueAt[i] \in Nat /\ EnqueueAt[j] \in Nat /\ EnqueueAt[k] \in Nat
  BY DispatchAssumption DEF Jobs
<1>. QED
  BY <1>1 DEF Before

LEMMA JobsFinite ==
  ASSUME NEW S, S \subseteq Jobs
  PROVE  IsFiniteSet(S) /\ Cardinality(S) \in Nat
<1>1. IsFiniteSet(Jobs)
  BY DispatchAssumption, FS_Interval DEF Jobs
<1>. QED
  BY <1>1, FS_Subset, FS_CardinalityType

\* The rows before a row.
Ahead(S, j) == {i \in S : Before(i, j)}

\* A row has fewer rows before it than every row it stands before.
LEMMA AheadGrows ==
  ASSUME NEW S, S \subseteq Jobs, NEW i \in S, NEW j \in S, Before(i, j)
  PROVE  Cardinality(Ahead(S, i)) < Cardinality(Ahead(S, j))
<1>1. /\ Ahead(S, i) \subseteq Ahead(S, j)
      /\ i \in Ahead(S, j) /\ i \notin Ahead(S, i)
  BY BeforeIsOrder DEF Ahead
<1>2. /\ IsFiniteSet(Ahead(S, j))
      /\ Cardinality(Ahead(S, i)) \in Nat /\ Cardinality(Ahead(S, j)) \in Nat
  BY JobsFinite DEF Ahead
<1>3. /\ Cardinality(Ahead(S, i)) <= Cardinality(Ahead(S, j))
      /\ Cardinality(Ahead(S, i)) # Cardinality(Ahead(S, j))
  BY <1>1, <1>2, FS_Subset
<1>. QED
  BY <1>2, <1>3

\* A set of numbers has a least one ...
LEMMA LeastExists ==
  ASSUME NEW N, N \subseteq Nat, N # {}
  PROVE  \E n \in N : \A m \in N : n <= m
<1>1. PICK n \in N : \A m \in N : <<m, n>> \notin OpToRel(<, Nat)
  BY WFMin, NatLessThanWellFounded, Zenon
<1>2. \A m \in N : m \in Nat /\ n \in Nat => ~ (m < n)
  BY <1>1, Zenon DEF OpToRel
<1>. QED
  BY <1>2

\* ... so a list of jobs has a first one.
LEMMA FirstExists ==
  ASSUME NEW S, S \subseteq Jobs, S # {}
  PROVE  \E j \in S : \A i \in S \ {j} : Before(j, i)
<1>. DEFINE N == {Cardinality(Ahead(S, j)) : j \in S}
<1>1. \A j \in S : Cardinality(Ahead(S, j)) \in Nat
  BY JobsFinite DEF Ahead
<1>2. PICK n \in N : \A m \in N : n <= m
  <2>1. N \subseteq Nat /\ N # {}
    BY <1>1
  <2>. HIDE DEF N
  <2>. QED
    BY <2>1, LeastExists
<1>3. PICK j \in S : n = Cardinality(Ahead(S, j))
  BY <1>2
<1>4. ASSUME NEW i \in S \ {j} PROVE Before(j, i)
  <2>1. ~ Before(i, j)
    <3>. SUFFICES ASSUME Before(i, j) PROVE FALSE
      OBVIOUS
    <3>1. Cardinality(Ahead(S, i)) < Cardinality(Ahead(S, j))
      BY AheadGrows
    <3>2. Cardinality(Ahead(S, j)) <= Cardinality(Ahead(S, i))
      BY <1>2, <1>3
    <3>. QED
      BY <1>1, <3>1, <3>2
  <2>. QED
    BY <2>1, BeforeIsOrder
<1>. QED
  BY <1>4

-----------------------------------------------------------------------------
(* next_job sees the rows list_jobs has cut, and still finds the best job.  *)

Able == {j \in Due : CanRun(repoOf[j])}

LEMMA Rows ==
  /\ Due \subseteq Jobs /\ Able \subseteq Due
  /\ QueueRows = {j \in Due : Cardinality(Ahead(Due, j)) < Limit}
  /\ NextJob = {j \in QueueRows \cap Able : \A i \in (QueueRows \cap Able) \ {j} : Before(j, i)}
  /\ Limit \in Nat
BY DispatchAssumption DEF Due, In, Able, QueueRows, Listed, Ahead, NextJob

\* A row that stands before a listed row is listed.
LEMMA ListIsPrefix ==
  ASSUME NEW i \in Due, NEW j \in QueueRows, Before(i, j)
  PROVE  i \in QueueRows
<1>1. j \in Due /\ Cardinality(Ahead(Due, j)) < Limit
  BY Rows
<1>2. Cardinality(Ahead(Due, i)) < Cardinality(Ahead(Due, j))
  BY <1>1, Rows, AheadGrows
<1>3. Cardinality(Ahead(Due, i)) \in Nat /\ Cardinality(Ahead(Due, j)) \in Nat
  BY Rows, JobsFinite DEF Ahead
<1>. QED
  BY <1>1, <1>2, <1>3, Rows

\* So what it returns stands before every due job that can run, listed or not.
LEMMA NextIsFirst ==
  ASSUME NEW j \in NextJob, NEW i \in Able \ {j}
  PROVE  Before(j, i)
<1>1. j \in QueueRows /\ j \in Able /\ i \in Jobs /\ j \in Jobs /\ i \in Due
  BY Rows
<1>2. CASE i \in QueueRows
  BY <1>1, <1>2, Rows
<1>3. CASE i \notin QueueRows
  BY <1>1, <1>3, ListIsPrefix, BeforeIsOrder
<1>. QED
  BY <1>2, <1>3

\* When it returns none, the first that can run is not listed, and as many rows as
\* the LIMIT stand before it, none of which can run.
LEMMA OnlyLimitHides ==
  ASSUME NextJob = {}, NEW j \in Able
  PROVE  Cardinality(Ahead(Due \ Able, j)) >= Limit
<1>1. PICK f \in Able : \A i \in Able \ {f} : Before(f, i)
  <2>1. Able \subseteq Jobs /\ Able # {}
    BY Rows
  <2>. QED
    BY <2>1, FirstExists
<1>2. f \notin QueueRows
  BY <1>1, Rows
<1>3. Cardinality(Ahead(Due, f)) >= Limit
  <2>1. Cardinality(Ahead(Due, f)) \in Nat
    BY Rows, JobsFinite DEF Ahead
  <2>. QED
    BY <1>2, <2>1, Rows
<1>4. Ahead(Due, f) \subseteq Ahead(Due \ Able, j)
  <2>. SUFFICES ASSUME NEW i \in Due, Before(i, f) PROVE i \notin Able /\ Before(i, j)
    BY DEF Ahead
  <2>1. i \in Jobs /\ j \in Jobs /\ f \in Jobs
    BY Rows
  <2>2. i \notin Able
    <3>1. i # f /\ ~ Before(f, i)
      BY <2>1, BeforeIsOrder
    <3>. QED
      BY <1>1, <3>1
  <2>3. j = f \/ Before(f, j)
    BY <1>1
  <2>. QED
    BY <2>1, <2>2, <2>3, BeforeIsOrder
<1>5. Due \ Able \subseteq Jobs
  BY Rows
<1>6. /\ IsFiniteSet(Ahead(Due \ Able, j)) /\ Cardinality(Ahead(Due, f)) \in Nat
      /\ Cardinality(Ahead(Due \ Able, j)) \in Nat
  BY <1>5, Rows, JobsFinite DEF Ahead
<1>7. Cardinality(Ahead(Due, f)) <= Cardinality(Ahead(Due \ Able, j))
  BY <1>4, <1>6, FS_Subset
<1>8. Limit \in Nat
  BY Rows
<1>. QED
  BY <1>3, <1>6, <1>7, <1>8

\* The LIMIT of list_jobs never makes next_job return the wrong job, and it returns
\* none only behind a full page of jobs that cannot run.
THEOREM BestIsNext == Spec => []NextJobIsBest
<1>1. NextJobIsBest
  <2>1. \A j \in NextJob : \A i \in Able \ {j} : Before(j, i)
    BY NextIsFirst
  <2>2. NextJob = {} => \A j \in Able : Cardinality({i \in Due \ Able : Before(i, j)}) >= Limit
    BY OnlyLimitHides DEF Ahead
  <2>. QED
    BY <2>1, <2>2, Zenon DEF NextJobIsBest, Able
<1>. QED
  BY <1>1, PTL
-----------------------------------------------------------------------------
(* The powers of two.  Doubled is a recursive function, so that there is one *)
(* has to be shown: the least count without one would have one.              *)

\* f doubles up to k.
Doubles(f, k) == f = [n \in 0..k |-> IF n = 0 THEN 1 ELSE 2 * f[n - 1]]

LEMMA DoublingExists ==
  ASSUME NEW k \in Nat
  PROVE  \E f : Doubles(f, k)
<1>. DEFINE S == {m \in Nat : ~ \E f : Doubles(f, m)}
<1>. SUFFICES ASSUME S # {} PROVE FALSE
  OBVIOUS
<1>1. PICK m \in S : \A i \in S : m <= i
  <2>1. S \subseteq Nat /\ S # {}
    OBVIOUS
  <2>. HIDE DEF S
  <2>. QED
    BY <2>1, LeastExists
<1>2. CASE m = 0
  <2>1. Doubles([n \in 0..0 |-> 1], 0)
    BY DEF Doubles
  <2>. QED
    BY <1>2, <2>1
<1>3. CASE m # 0
  <2>1. m - 1 \in Nat /\ m - 1 \notin S
    BY <1>1, <1>3
  <2>2. PICK g : Doubles(g, m - 1)
    BY <2>1
  <2>3. Doubles([n \in 0..m |-> IF n = m THEN 2 * g[m - 1] ELSE g[n]], m)
    BY <1>1, <1>3, <2>1, <2>2 DEF Doubles
  <2>. QED
    BY <1>1, <2>3
<1>. QED
  BY <1>2, <1>3

LEMMA DoubledDef ==
  /\ Doubled[0] = 1
  /\ \A n \in 1..MaxLimits : Doubled[n] = 2 * Doubled[n - 1]
  /\ \A n \in 0..MaxLimits : Doubled[n] \in Nat
<1>0. MaxLimits \in Nat
  BY DispatchAssumption
<1>1. Doubles(Doubled, MaxLimits)
  <2>1. \E f : f = [n \in 0..MaxLimits |-> IF n = 0 THEN 1 ELSE 2 * f[n - 1]]
    BY <1>0, DoublingExists DEF Doubles
  <2>. QED
    BY <2>1, Zenon DEF Doubled, Doubles
<1>. HIDE DEF Doubled
<1>2. /\ Doubled[0] = 1
      /\ \A n \in 1..MaxLimits : Doubled[n] = 2 * Doubled[n - 1]
  BY <1>0, <1>1 DEF Doubles
<1>3. \A n \in 0..MaxLimits : Doubled[n] \in Nat
  <2>. DEFINE S == {n \in 0..MaxLimits : Doubled[n] \notin Nat}
  <2>. SUFFICES ASSUME S # {} PROVE FALSE
    OBVIOUS
  <2>1. PICK m \in S : \A i \in S : m <= i
    <3>1. S \subseteq Nat /\ S # {}
      BY <1>0
    <3>. HIDE DEF S
    <3>. QED
      BY <3>1, LeastExists
  <2>2. m # 0 /\ m - 1 \in 0..MaxLimits /\ m - 1 \notin S
    BY <1>0, <1>2, <2>1
  <2>. QED
    BY <1>0, <1>2, <2>1, <2>2
<1>. QED
  BY <1>2, <1>3

-----------------------------------------------------------------------------
(* The backoff.                                                             *)

LEMMA MinOfTwo ==
  ASSUME NEW a \in Nat, NEW b \in Nat
  PROVE  Min({a, b}) = IF a <= b THEN a ELSE b
BY DEF Min

LEMMA DelayNat ==
  ASSUME NEW c \in 1..(MaxLimits + 1)
  PROVE  /\ BaseDelay * Doubled[c - 1] \in Nat /\ Delay(c) \in Nat
         /\ BaseDelay * Doubled[c - 1] <= MaxDelay => Delay(c) = BaseDelay * Doubled[c - 1]
<1>1. /\ MaxLimits \in Nat /\ BaseDelay \in Nat /\ MaxDelay \in Nat
      /\ c - 1 \in 0..MaxLimits
  BY DispatchAssumption
<1>2. Doubled[c - 1] \in Nat
  BY <1>1, DoubledDef
<1>3. \A a, b \in Nat : a * b \in Nat
  OBVIOUS
<1>4. BaseDelay * Doubled[c - 1] \in Nat
  BY <1>1, <1>2, <1>3
<1>. QED
  BY <1>1, <1>4, MinOfTwo DEF Delay

\* A rate limit doubles the delay as long as the cap is not reached.
LEMMA DelayDoubles ==
  ASSUME NEW c \in 1..MaxLimits, BaseDelay * Doubled[c] <= MaxDelay
  PROVE  Delay(c + 1) = 2 * Delay(c)
<1>1. /\ MaxLimits \in Nat /\ BaseDelay \in Nat /\ MaxDelay \in Nat
      /\ c \in 1..(MaxLimits + 1) /\ c + 1 \in 1..(MaxLimits + 1) /\ (c + 1) - 1 = c
      /\ c - 1 \in 0..MaxLimits
  BY DispatchAssumption
<1>2. Doubled[c] = 2 * Doubled[c - 1] /\ Doubled[c - 1] \in Nat
  BY <1>1, DoubledDef
<1>3. \A a, b \in Nat : a * (2 * b) = 2 * (a * b)
  OBVIOUS
<1>4. BaseDelay * Doubled[c] = 2 * (BaseDelay * Doubled[c - 1])
  BY <1>1, <1>2, <1>3
<1>5. BaseDelay * Doubled[c - 1] \in Nat
  BY <1>1, DelayNat
<1>6. BaseDelay * Doubled[c - 1] <= MaxDelay
  BY <1>1, <1>4, <1>5
<1>7. Delay(c) = BaseDelay * Doubled[c - 1]
  BY <1>1, <1>6, DelayNat
<1>8. Delay(c + 1) = BaseDelay * Doubled[c]
  BY <1>1, DelayNat
<1>. QED
  BY <1>4, <1>7, <1>8

\* The most and the least a count of rate limits can cost.
Longest(c) == Delay(c) + (3 * Delay(c)) \div 10
Shortest(c) == Delay(c) - (3 * Delay(c)) \div 10

LEMMA JitterNat ==
  ASSUME NEW c \in 1..(MaxLimits + 1)
  PROVE  /\ Longest(c) \in Nat /\ Shortest(c) \in Nat /\ Shortest(c) <= Longest(c)
         /\ Jittered(c) = {Shortest(c), Longest(c)}
<1>1. Delay(c) \in Nat
  BY DelayNat
<1>2. \A d \in Nat : /\ d + (3 * d) \div 10 \in Nat /\ d - (3 * d) \div 10 \in Nat
                     /\ d - (3 * d) \div 10 <= d + (3 * d) \div 10
  OBVIOUS
<1>. HIDE DEF Delay
<1>. QED
  BY <1>1, <1>2 DEF Longest, Shortest, Jittered

\* The shortest delay of the next count is no shorter than the longest of this one.
LEMMA JitterNeverCatchesUp ==
  ASSUME NEW c \in 1..MaxLimits, BaseDelay * Doubled[c] <= MaxDelay
  PROVE  Longest(c) <= Shortest(c + 1)
<1>1. Delay(c) \in Nat /\ Delay(c + 1) = 2 * Delay(c)
  BY DelayNat, DelayDoubles, DispatchAssumption
<1>2. \A d \in Nat : d + (3 * d) \div 10 <= 2 * d - (3 * (2 * d)) \div 10
  OBVIOUS
<1>. HIDE DEF Delay
<1>. QED
  BY <1>1, <1>2 DEF Longest, Shortest
-----------------------------------------------------------------------------
(* The types, and how far off a backoff can be.                             *)

\* No repo has had more rate limits than there were.
Counted == \A r \in Repos : count[r] <= limits

\* A repo waits for its last rate limit, at most as long as that one's delay, and
\* a repo without one does not wait.
WaitsBounded ==
  \A r \in Repos : until[r] <= IF count[r] = 0 THEN 0 ELSE now + Longest(count[r])

\* The rows that a step of the daemon moves exist.
LEMMA RowsExist ==
  ASSUME TypeOK
  PROVE  /\ \A j \in NextJob : j \in Jobs /\ state[j] = "queued"
         /\ \A j \in Listed(In("rate_limited")) : j \in Jobs /\ state[j] = "rate_limited"
BY DEF NextJob, QueueRows, Listed, Due, In

LEMMA Enters ==
  ASSUME TypeOK, NEW j \in Jobs, state[j] # "absent", UNCHANGED repoOf,
         NEW s \in {"active", "rate_limited", "ended"}, Enter(j, s)
  PROVE  /\ state' \in [Jobs -> {"absent", "queued", "active", "rate_limited", "ended"}]
         /\ \A i \in Jobs : state'[i] = "absent" <=> repoOf'[i] = NoRepo
BY DEF TypeOK, Enter

LEMMA TypedInit ==
  ASSUME Init PROVE TypeOK /\ Counted
BY DispatchAssumption DEF Init, TypeOK, Counted

LEMMA TypedStep ==
  ASSUME TypeOK, Counted, [Next]_vars PROVE TypeOK' /\ Counted'
<1>0. /\ MaxLimits \in Nat /\ MaxTime \in Nat /\ MaxUpdates \in Nat /\ TimeStep \in Nat
      /\ NoRepo \notin Repos /\ Concurrency \subseteq Nat
  BY DispatchAssumption
<1>. USE DEF TypeOK, Counted
<1>1. ASSUME NEW j \in Jobs, NEW r \in Repos, DispatchJob(j, r) PROVE TypeOK' /\ Counted'
  BY <1>0, <1>1 DEF DispatchJob
<1>2. ASSUME NEW r \in Repos, NEW c \in Concurrency, UpdateRepo(r, c)
      PROVE  TypeOK' /\ Counted'
  BY <1>0, <1>2 DEF UpdateRepo
<1>3. ASSUME NEW j \in Jobs, RateLimited(j) PROVE TypeOK' /\ Counted'
  <2>1. repoOf[j] \in Repos /\ limits + 1 \in 0..MaxLimits
    BY <1>0, <1>3 DEF RateLimited
  <2>2. /\ count' \in [Repos -> 0..MaxLimits] /\ limits' = limits + 1
        /\ \A r \in Repos : count'[r] <= limits'
    BY <1>0, <1>3, <2>1 DEF RateLimited
  <2>3. until' \in [Repos -> Nat]
    <3>1. count[repoOf[j]] + 1 \in 1..(MaxLimits + 1)
      BY <1>0, <2>1
    <3>2. \A d \in Jittered(count[repoOf[j]] + 1) : d \in Nat
      BY <3>1, JitterNat
    <3>3. PICK d \in Jittered(count[repoOf[j]] + 1) :
            until' = [until EXCEPT ![repoOf[j]] = now + d]
      BY <1>3 DEF RateLimited
    <3>4. now + d \in Nat
      BY <1>0, <3>2, <3>3
    <3>. QED
      BY <3>3, <3>4
  <2>4. /\ state' \in [Jobs -> {"absent", "queued", "active", "rate_limited", "ended"}]
        /\ \A i \in Jobs : state'[i] = "absent" <=> repoOf'[i] = NoRepo
    BY <1>3, Enters DEF RateLimited
  <2>. QED
    BY <1>3, <2>1, <2>2, <2>3, <2>4 DEF RateLimited
<1>4. ASSUME NEW j \in Jobs, Succeeds(j) PROVE TypeOK' /\ Counted'
  <2>1. /\ state' \in [Jobs -> {"absent", "queued", "active", "rate_limited", "ended"}]
        /\ \A i \in Jobs : state'[i] = "absent" <=> repoOf'[i] = NoRepo
    BY <1>4, Enters DEF Succeeds
  <2>. QED
    BY <1>0, <1>4, <2>1 DEF Succeeds, Cleared
<1>5. ASSUME NEW j \in Jobs, Fails(j) PROVE TypeOK' /\ Counted'
  BY <1>5, Enters DEF Fails
<1>6. CASE RunNext
  BY <1>6, RowsExist, Enters DEF RunNext
<1>7. CASE Recover
  <2>1. /\ state' \in [Jobs -> {"absent", "queued", "active", "rate_limited", "ended"}]
        /\ \A i \in Jobs : state'[i] = "absent" <=> state[i] = "absent"
    BY <1>7, RowsExist DEF Recover
  <2>. QED
    BY <1>0, <1>7, <2>1 DEF Recover, Cleared
<1>8. CASE Tick
  BY <1>0, <1>8 DEF Tick
<1>9. CASE UNCHANGED vars
  BY <1>9 DEF vars
<1>. QED
  BY <1>1, <1>2, <1>3, <1>4, <1>5, <1>6, <1>7, <1>8, <1>9 DEF Next

\* The rows and the backoffs stay what they are, and every row that exists has the
\* repo its name stood for.
THEOREM TypeCorrect == Spec => []TypeOK
<1>. QED
  BY TypedInit, TypedStep, PTL DEF Spec

LEMMA LongestNat ==
  ASSUME TypeOK, NEW r \in Repos
  PROVE  /\ count[r] \in Nat /\ until[r] \in Nat /\ now \in Nat
         /\ count[r] # 0 => Longest(count[r]) \in Nat /\ count[r] \in 1..MaxLimits
BY DispatchAssumption, JitterNat DEF TypeOK

LEMMA WaitsBoundedStep ==
  ASSUME TypeOK, TypeOK', WaitsBounded, [Next]_vars PROVE WaitsBounded'
<1>. SUFFICES ASSUME NEW r \in Repos
              PROVE  until'[r] <= IF count'[r] = 0 THEN 0 ELSE now' + Longest(count'[r])
  BY DEF WaitsBounded
<1>0. /\ until[r] <= IF count[r] = 0 THEN 0 ELSE now + Longest(count[r])
      /\ now \in Nat /\ TimeStep \in Nat
  BY DispatchAssumption DEF WaitsBounded, TypeOK
<1>1. CASE count'[r] = count[r] /\ until'[r] = until[r] /\ (now' = now \/ Tick)
  BY <1>0, <1>1, LongestNat DEF Tick
<1>2. CASE count'[r] = 0 /\ until'[r] = 0
  BY <1>2
<1>3. ASSUME NEW j \in Jobs, RateLimited(j), repoOf[j] = r
      PROVE  until'[r] <= IF count'[r] = 0 THEN 0 ELSE now' + Longest(count'[r])
  <2>1. /\ count'[r] = count[r] + 1 /\ now' = now
        /\ \E d \in Jittered(count[r] + 1) : until'[r] = now + d
    BY <1>3 DEF RateLimited, TypeOK
  <2>2. count[r] + 1 \in 1..(MaxLimits + 1) /\ count[r] + 1 # 0
    BY DispatchAssumption DEF TypeOK
  <2>3. \A d \in Jittered(count[r] + 1) : now + d <= now + Longest(count[r] + 1)
    BY <1>0, <2>2, JitterNat
  <2>. QED
    BY <2>1, <2>2, <2>3
<1>4. \/ count'[r] = count[r] /\ until'[r] = until[r] /\ (now' = now \/ Tick)
      \/ count'[r] = 0 /\ until'[r] = 0
      \/ \E j \in Jobs : RateLimited(j) /\ repoOf[j] = r
  BY DEF Next, vars, DispatchJob, UpdateRepo, RateLimited, Succeeds, Fails, RunNext, Recover,
     Tick, Cleared, TypeOK
<1>. QED
  BY <1>1, <1>2, <1>3, <1>4

\* No clear, retry or later rate limit leaves a repo waiting for longer than the delay
\* of its last count, and none that was cleared waits at all.
THEOREM WaitsAreBounded == Spec => []WaitsBounded
<1>1. Init => WaitsBounded
  BY DEF Init, WaitsBounded
<1>2. TypeOK /\ TypeOK' /\ WaitsBounded /\ [Next]_vars => WaitsBounded'
  BY WaitsBoundedStep
<1>. QED
  BY <1>1, <1>2, TypeCorrect, PTL DEF Spec

\* Until the cap is reached, another rate limit of a repo that is waiting never lets
\* it run earlier than before, whatever the two jitters were.
THEOREM WaitsExtend == Spec => BackoffExtends
<1>1. TypeOK /\ WaitsBounded /\ [Next]_vars =>
        [\A r \in Repos :
           count'[r] = count[r] + 1 /\ BaseDelay * Doubled[count[r]] <= MaxDelay
             => until'[r] >= until[r]]_vars
  <2>. SUFFICES ASSUME TypeOK, WaitsBounded, Next, NEW r \in Repos,
                       count'[r] = count[r] + 1, BaseDelay * Doubled[count[r]] <= MaxDelay
                PROVE  until'[r] >= until[r]
    OBVIOUS
  <2>0. count[r] \in Nat /\ until[r] \in Nat /\ now \in Nat
    BY LongestNat
  <2>1. \E j \in Jobs : RateLimited(j) /\ repoOf[j] = r
    BY <2>0 DEF Next, DispatchJob, UpdateRepo, RateLimited, Succeeds, Fails, RunNext, Recover,
       Tick, Cleared, TypeOK
  <2>2. \E d \in Jittered(count[r] + 1) : until'[r] = now + d
    BY <2>1 DEF RateLimited, TypeOK
  <2>3. count[r] + 1 \in 1..(MaxLimits + 1)
    BY DispatchAssumption DEF TypeOK
  <2>4. Shortest(count[r] + 1) \in Nat /\ until'[r] >= now + Shortest(count[r] + 1)
    <3>1. \A d \in Jittered(count[r] + 1) : d >= Shortest(count[r] + 1) /\ d \in Nat
      BY <2>3, JitterNat
    <3>. QED
      BY <2>0, <2>2, <2>3, <3>1, JitterNat
  <2>5. until'[r] \in Nat
    BY <2>0, <2>2, <2>3, JitterNat
  <2>6. CASE count[r] = 0
    BY <2>0, <2>5, <2>6 DEF WaitsBounded
  <2>7. CASE count[r] # 0
    <3>1. Longest(count[r]) <= Shortest(count[r] + 1) /\ Longest(count[r]) \in Nat
      BY <2>7, LongestNat, JitterNeverCatchesUp
    <3>. QED
      BY <2>0, <2>4, <2>5, <2>7, <3>1 DEF WaitsBounded
  <2>. QED
    BY <2>6, <2>7
<1>. QED
  BY <1>1, TypeCorrect, WaitsAreBounded, PTL DEF Spec, BackoffExtends
=============================================================================
