----------------------------- MODULE ChainProofs -----------------------------
(***************************************************************************)
(* Proofs about Chain, for chains, depths and numbers of crashes, errors,  *)
(* resumes and rewritten jobs of any size: types, the depth of a job, the  *)
(* account of every success, and that the chain keeps its promise.         *)
(***************************************************************************)
EXTENDS Chain, FiniteSetTheorems, FunctionTheorems, TLAPS

\* A row that is added has the next id and changes no other row.
LEMMA NewRow ==
  ASSUME TypeOK, NEW k \in 1..MaxLength, NEW d \in Nat, NEW f \in 0..MaxJobs,
         CreateJob(k, d, f)
  PROVE  /\ made + 1 \in Ids /\ made' = made + 1 /\ made' \in 0..MaxJobs
         /\ Rows' = Rows \cup {made + 1} /\ made + 1 \notin Rows
         /\ step'[made + 1] = k /\ depth'[made + 1] = d /\ parent'[made + 1] = f
         /\ \A i \in Ids \ {made + 1} : /\ state'[i] = state[i] /\ step'[i] = step[i]
                                        /\ depth'[i] = depth[i] /\ parent'[i] = parent[i]
         /\ state' \in [Ids -> ChainStates] /\ step' \in [Ids -> 1..MaxLength]
         /\ depth' \in [Ids -> Nat] /\ parent' \in [Ids -> 0..MaxJobs]
<1>0. /\ made \in 0..MaxJobs /\ made < MaxJobs /\ made' = made + 1 /\ MaxJobs \in Nat
  BY ChainAssumption DEF CreateJob, TypeOK
<1>1. /\ made + 1 \in Ids /\ made' = made + 1 /\ made \in Nat /\ made' \in 0..MaxJobs
      /\ Rows' = Rows \cup {made + 1} /\ made + 1 \notin Rows
  BY <1>0 DEF Rows, Ids
<1>2. /\ state \in [Ids -> ChainStates] /\ step \in [Ids -> 1..MaxLength]
      /\ depth \in [Ids -> Nat] /\ parent \in [Ids -> 0..MaxJobs]
      /\ "queued" \in ChainStates
  BY DEF TypeOK, ChainStates
<1>3. /\ state' = [state EXCEPT ![made + 1] = "queued"]
      /\ step' = [step EXCEPT ![made + 1] = k]
      /\ depth' = [depth EXCEPT ![made + 1] = d]
      /\ parent' = [parent EXCEPT ![made + 1] = f]
  BY DEF CreateJob
<1> QED
  BY <1>1, <1>2, <1>3

\* The next entry's job is well-typed.
LEMMA ChildIsTyped ==
  ASSUME TypeOK, NEW j \in Ids, Dispatchable(j)
  PROVE  /\ step[j] + 1 \in 1..MaxLength /\ depth[j] + 1 \in Nat /\ j \in 0..MaxJobs
<1>1. step[j] + 1 \in 1..MaxLength
  BY DEF Dispatchable, TypeOK
<1>2. depth[j] \in Nat /\ j \in 0..MaxJobs
  BY DEF TypeOK, Ids
<1> QED
  BY <1>1, <1>2

-----------------------------------------------------------------------------
(* Types.                                                                   *)

LEMMA TypesAtFirst == Init => TypeOK
<1> SUFFICES ASSUME Init PROVE TypeOK
  OBVIOUS
<1>1. /\ step \in [Ids -> 1..MaxLength] /\ state \in [Ids -> ChainStates]
      /\ parent \in [Ids -> 0..MaxJobs] /\ made \in 0..MaxJobs
  BY ChainAssumption DEF Init, None, ChainStates
<1>2. /\ depth \in [Ids -> Nat] /\ pending \in [Ids -> Nat] /\ earned \in [Ids -> Nat]
      /\ halted \in [Ids -> Nat] /\ dropped \in [Ids -> Nat]
  BY DEF Init, None
<1>3. /\ known \in SUBSET (1..MaxLength) /\ length \in 1..MaxLength /\ up \in BOOLEAN
      /\ readers \in [Ids -> Nat] /\ byHand \in SUBSET Ids
  BY DEF Init, None
<1>4. /\ resumes \in 0..MaxResumes /\ rewrites \in 0..MaxRewrites
      /\ ends \in 0..MaxEnds /\ errors \in 0..MaxErrors
  BY ChainAssumption DEF Init
<1> QED
  BY <1>1, <1>2, <1>3, <1>4 DEF TypeOK

\* What a new row leaves of the types.
TypesOfRows ==
  /\ made \in 0..MaxJobs /\ state \in [Ids -> ChainStates] /\ step \in [Ids -> 1..MaxLength]
  /\ depth \in [Ids -> Nat] /\ parent \in [Ids -> 0..MaxJobs]

TypesOfRest ==
  /\ known \in SUBSET (1..MaxLength) /\ length \in 1..MaxLength
  /\ up \in BOOLEAN /\ readers \in [Ids -> Nat] /\ pending \in [Ids -> Nat]
  /\ byHand \in SUBSET Ids
  /\ earned \in [Ids -> Nat] /\ halted \in [Ids -> Nat] /\ dropped \in [Ids -> Nat]
  /\ resumes \in 0..MaxResumes /\ rewrites \in 0..MaxRewrites
  /\ ends \in 0..MaxEnds /\ errors \in 0..MaxErrors

LEMMA TypesAreKept ==
  ASSUME TypeOK, [Next]_vars
  PROVE  TypeOK'
<1>0. TypesOfRows /\ TypesOfRest
  BY DEF TypeOK, TypesOfRows, TypesOfRest
<1> SUFFICES TypesOfRows' /\ TypesOfRest'
  BY DEF TypeOK, TypesOfRows, TypesOfRest
<1>1. CASE DispatchChainFile
  <2>1. CreateJob(1, 0, 0) /\ 1 \in 1..MaxLength /\ 0 \in Nat /\ 0 \in 0..MaxJobs
    BY <1>1, ChainAssumption DEF DispatchChainFile
  <2>2. TypesOfRows'
    BY <2>1, NewRow DEF TypesOfRows
  <2>3. TypesOfRest'
    BY <1>0, <1>1 DEF DispatchChainFile, TypesOfRest, daemonVars, boundVars
  <2> QED
    BY <2>2, <2>3
<1>2. ASSUME NEW j \in Ids, ResumeChain(j) PROVE TypesOfRows' /\ TypesOfRest'
  <2>1. /\ CreateJob(step[j] + 1, depth[j] + 1, j) /\ step[j] + 1 \in 1..MaxLength
        /\ depth[j] + 1 \in Nat /\ j \in 0..MaxJobs
    BY <1>0, <1>2, ChildIsTyped DEF ResumeChain
  <2>2. TypesOfRows' /\ made + 1 \in Ids
    BY <2>1, NewRow DEF TypesOfRows
  <2>3. byHand' \in SUBSET Ids
    BY <1>0, <1>2, <2>2 DEF ResumeChain, TypesOfRest
  <2>4. resumes' \in 0..MaxResumes
    BY <1>0, <1>2, ChainAssumption DEF ResumeChain, TypesOfRest
  <2>5. UNCHANGED <<known, length, daemonVars, earned, halted, dropped, rewrites, ends, errors>>
    BY <1>2 DEF ResumeChain
  <2> QED
    BY <1>0, <2>2, <2>3, <2>4, <2>5 DEF TypesOfRest, daemonVars
<1>3. CASE DaemonStarts
  BY <1>0, <1>3 DEF DaemonStarts, dbVars, boundVars, TypesOfRows, TypesOfRest
<1>4. CASE DaemonEnds
  <2>0. \A j \in Ids : dropped[j] + pending[j] \in Nat
    BY <1>0 DEF TypesOfRest
  <2>1. pending' \in [Ids -> Nat] /\ dropped' \in [Ids -> Nat] /\ up' \in BOOLEAN
        /\ readers' \in [Ids -> Nat]
    BY <1>4, <2>0 DEF DaemonEnds, None
  <2>2. ends' \in 0..MaxEnds
    BY <1>0, <1>4, ChainAssumption DEF DaemonEnds, TypesOfRest
  <2>3. UNCHANGED <<dbVars, parent, byHand, earned, halted, resumes, rewrites, errors>>
    BY <1>4 DEF DaemonEnds
  <2> QED
    BY <1>0, <2>1, <2>2, <2>3 DEF dbVars, TypesOfRows, TypesOfRest
<1>5. ASSUME NEW k \in 1..MaxLength, RegisterRepo(k) PROVE TypesOfRows' /\ TypesOfRest'
  BY <1>0, <1>5 DEF RegisterRepo, daemonVars, boundVars, TypesOfRows, TypesOfRest
<1>6. ASSUME NEW j \in Ids, Runs(j) \/ Requeued(j) \/ Fails(j) \/ Rewritten(j)
      PROVE TypesOfRows' /\ TypesOfRest'
  <2>1. /\ state' \in [Ids -> ChainStates] /\ readers' \in [Ids -> Nat] /\ up' = up
    BY <1>0, <1>6, ChainAssumption DEF Runs, Requeued, RunEnds, Fails, Rewritten, ChainStates, daemonVars, boundVars,
                      TypesOfRows, TypesOfRest
  <2>2. rewrites' \in 0..MaxRewrites
    BY <1>0, <1>6, ChainAssumption
    DEF Runs, Requeued, Fails, Rewritten, boundVars, TypesOfRest
  <2>3. UNCHANGED <<made, step, depth, known, length, pending, parent, byHand, earned, halted,
                    dropped, resumes, ends, errors>>
    BY <1>6 DEF Runs, Requeued, Fails, Rewritten, daemonVars, boundVars
  <2> QED
    BY <1>0, <2>1, <2>2, <2>3 DEF TypesOfRows, TypesOfRest
<1>7. ASSUME NEW j \in Ids, CommitSuccess(j) \/ SuccessRefused(j) PROVE TypesOfRows' /\ TypesOfRest'
  <2>1. readers' \in [Ids -> Nat]
    BY <1>0, <1>7 DEF CommitSuccess, SuccessRefused, TypesOfRest
  <2>2. CASE CommitSuccess(j)
    BY <1>0, <2>1, <2>2 DEF CommitSuccess, ChainStates, boundVars, TypesOfRows, TypesOfRest
  <2>3. CASE SuccessRefused(j)
    BY <1>0, <2>1, <2>3 DEF SuccessRefused, dbVars, boundVars, TypesOfRows, TypesOfRest
  <2> QED
    BY <1>7, <2>2, <2>3
<1>8. ASSUME NEW j \in Ids, DispatchNext(j) PROVE TypesOfRows' /\ TypesOfRest'
  <2>1. /\ CreateJob(step[j] + 1, depth[j] + 1, j) /\ step[j] + 1 \in 1..MaxLength
        /\ depth[j] + 1 \in Nat /\ j \in 0..MaxJobs
    BY <1>0, <1>8, ChildIsTyped DEF DispatchNext
  <2>2. TypesOfRows'
    BY <2>1, NewRow DEF TypesOfRows
  <2>3. pending' \in [Ids -> Nat]
    BY <1>0, <1>8 DEF DispatchNext, Served, TypesOfRest
  <2>4. UNCHANGED <<known, length, up, readers, byHand, earned, halted, dropped, boundVars>>
    BY <1>8 DEF DispatchNext
  <2> QED
    BY <1>0, <2>2, <2>3, <2>4 DEF TypesOfRest, boundVars
<1>9. ASSUME NEW j \in Ids, ChainHalts(j) \/ InsertRaises(j) PROVE TypesOfRows' /\ TypesOfRest'
  <2>1. pending' \in [Ids -> Nat] /\ halted' \in [Ids -> Nat]
    BY <1>0, <1>9 DEF ChainHalts, InsertRaises, Halt, Served, TypesOfRest
  <2>2. UNCHANGED <<dbVars, up, readers, parent, byHand, earned, dropped, resumes, rewrites, ends>>
    BY <1>9 DEF ChainHalts, InsertRaises, boundVars
  <2>3. errors' \in 0..MaxErrors
    BY <1>0, <1>9, ChainAssumption DEF ChainHalts, InsertRaises, boundVars, TypesOfRest
  <2> QED
    BY <1>0, <2>1, <2>2, <2>3 DEF dbVars, TypesOfRows, TypesOfRest
<1>10. CASE UNCHANGED vars
  BY <1>0, <1>10 DEF vars, dbVars, daemonVars, boundVars, TypesOfRows, TypesOfRest
<1> QED
  BY <1>1, <1>2, <1>3, <1>4, <1>5, <1>6, <1>7, <1>8, <1>9, <1>10
  DEF Next, Ends, Dispatch

\* Every variable keeps its type; no counter of a thread goes below zero.
THEOREM Types == Spec => []TypeOK
BY TypesAtFirst, TypesAreKept, PTL DEF Spec

-----------------------------------------------------------------------------
(* What has not been made has no history, and a dispatch follows a success. *)

Unborn ==
  /\ \A j \in Ids \ Rows : /\ state[j] = "absent"
                           /\ pending[j] = 0 /\ earned[j] = 0
                           /\ halted[j] = 0 /\ dropped[j] = 0
  /\ byHand \subseteq Rows
  /\ \A j \in Rows : parent[j] <= made

AfterSuccess == \A j \in Ids : pending[j] > 0 => earned[j] > 0

Order == Unborn /\ AfterSuccess

LEMMA OrderAtFirst == Init => Order
BY DEF Init, Order, Unborn, AfterSuccess, None, Rows

\* A row made from nothing or from an older one.
LEMMA OrderOfNewRow ==
  ASSUME TypeOK, Order, NEW k \in 1..MaxLength, NEW d \in Nat, NEW f \in 0..MaxJobs,
         CreateJob(k, d, f), f <= made, UNCHANGED <<earned, halted, dropped>>,
         byHand' \subseteq byHand \cup {made + 1},
         \A i \in Ids : \/ pending'[i] = pending[i]
                          \/ (i \in Rows /\ pending'[i] <= pending[i]),
         AfterSuccess'
  PROVE  Order'
<1> USE DEF Order, Unborn
<1>0. /\ made + 1 \in Ids /\ made' = made + 1
      /\ Rows' = Rows \cup {made + 1}
      /\ parent'[made + 1] = f
      /\ \A i \in Ids \ {made + 1} : state'[i] = state[i] /\ parent'[i] = parent[i]
  BY NewRow
<1>1. made \in Nat /\ MaxJobs \in Nat /\ parent \in [Ids -> Nat] /\ Rows \subseteq Ids
  <2>1. /\ parent \in [Ids -> 0..MaxJobs] /\ made \in 0..MaxJobs /\ MaxJobs \in Nat
    BY ChainAssumption DEF TypeOK
  <2>. QED
    BY <2>1 DEF Rows, Ids
<1>2. \A j \in Ids \ Rows' : /\ j \in Ids \ Rows /\ j # made + 1
                             /\ pending'[j] = pending[j]
  BY <1>0, <1>1
<1>3. \A j \in Rows' : parent'[j] <= made'
  <2>1. ASSUME NEW j \in Rows, j # made + 1 PROVE parent'[j] <= made'
    <3>1. parent'[j] = parent[j] /\ parent[j] <= made /\ parent[j] \in Nat
      BY <1>0, <1>1, <2>1
    <3> QED
      BY <1>0, <1>1, <3>1
  <2> QED
    BY <1>0, <1>1, <2>1
<1>4. byHand' \subseteq Rows'
  BY <1>0, <1>1
<1>5. \A j \in Ids \ Rows' : /\ state'[j] = "absent" /\ pending'[j] = 0 /\ earned'[j] = 0
                             /\ halted'[j] = 0 /\ dropped'[j] = 0
  BY <1>0, <1>1, <1>2
<1> QED
  BY <1>3, <1>4, <1>5

LEMMA OrderIsKept ==
  ASSUME TypeOK, Order, [Next]_vars
  PROVE  Order'
<1> USE ChainAssumption DEF TypeOK, Order, Unborn, AfterSuccess
<1>1. CASE DispatchChainFile
  <2>1. CreateJob(1, 0, 0) /\ 1 \in 1..MaxLength /\ 0 \in 0..MaxJobs
    BY <1>1 DEF DispatchChainFile
  <2>2. UNCHANGED <<pending, byHand, earned, halted, dropped>>
    BY <1>1 DEF DispatchChainFile, daemonVars
  <2>3. 0 <= made /\ AfterSuccess'
    BY <2>2
  <2> QED
    BY <2>1, <2>2, <2>3, OrderOfNewRow
<1>2. ASSUME NEW j \in Ids, ResumeChain(j) PROVE Order'
  <2>1. /\ CreateJob(step[j] + 1, depth[j] + 1, j) /\ step[j] + 1 \in 1..MaxLength
        /\ j \in Rows /\ j <= made
    BY <1>2 DEF ResumeChain, Dispatchable, Rows
  <2>2. /\ UNCHANGED <<pending, earned, halted, dropped>>
        /\ byHand' = byHand \cup {made + 1}
    BY <1>2 DEF ResumeChain, daemonVars
  <2>3. AfterSuccess' /\ j \in 0..MaxJobs /\ depth[j] + 1 \in Nat
    BY <2>2 DEF Ids
  <2> QED
    BY <2>1, <2>2, <2>3, OrderOfNewRow
<1>3. ASSUME NEW j \in Ids, DispatchNext(j) PROVE Order'
  <2>1. /\ CreateJob(step[j] + 1, depth[j] + 1, j) /\ step[j] + 1 \in 1..MaxLength
        /\ j \in Rows /\ j <= made
    BY <1>3 DEF DispatchNext, Dispatchable, Rows
  <2>2. /\ UNCHANGED <<byHand, earned, halted, dropped>>
        /\ \A i \in Ids : pending'[i] = IF i = j THEN pending[i] - 1 ELSE pending[i]
    BY <1>3 DEF DispatchNext, Served
  <2>5. AfterSuccess'
    BY <2>2
  <2>3. AfterSuccess' /\ j \in 0..MaxJobs /\ depth[j] + 1 \in Nat
    BY <2>5 DEF Ids
  <2>4. \A i \in Ids : \/ pending'[i] = pending[i]
                          \/ (i \in Rows /\ pending'[i] <= pending[i])
    BY <2>1, <2>2
  <2> QED
    BY <2>1, <2>2, <2>3, <2>4, OrderOfNewRow
<1>4. ASSUME NEW j \in Ids, CommitSuccess(j) PROVE Order'
  BY <1>4 DEF CommitSuccess, Rows
<1>5. ASSUME NEW j \in Ids, ChainHalts(j) \/ InsertRaises(j) PROVE Order'
  <2>1. /\ UNCHANGED <<made, state, parent, byHand, earned, dropped>>
        /\ j \in Rows
    BY <1>5 DEF ChainHalts, InsertRaises, dbVars
  <2>2. \A i \in Ids : /\ pending'[i] = IF i = j THEN pending[i] - 1 ELSE pending[i]
                       /\ i # j => halted'[i] = halted[i]
    BY <1>5 DEF ChainHalts, InsertRaises, Halt, Served
  <2> QED
    BY <2>1, <2>2 DEF Rows
<1>6. CASE DaemonEnds
  BY <1>6 DEF DaemonEnds, dbVars, None, Rows
<1>7. ASSUME NEW j \in Ids, Runs(j) \/ Requeued(j) \/ Fails(j) \/ Rewritten(j) PROVE Order'
  <2>1. state[j] # "absent"
    BY <1>7 DEF Runs, Requeued, Fails, Rewritten, daemonVars
  <2>2. /\ UNCHANGED <<made, pending, parent, byHand, earned, halted, dropped>>
        /\ \A i \in Ids \ {j} : state'[i] = state[i]
    BY <1>7 DEF Runs, Requeued, Fails, Rewritten, daemonVars
  <2> QED
    BY <2>1, <2>2 DEF Rows
<1>8. ASSUME NEW k \in 1..MaxLength, DaemonStarts \/ RegisterRepo(k) PROVE Order'
  BY <1>8 DEF DaemonStarts, RegisterRepo, dbVars, daemonVars, Rows
<1>9. CASE UNCHANGED vars
  BY <1>9 DEF vars, dbVars, daemonVars, Rows
<1>10. ASSUME NEW j \in Ids, DaemonStarts \/ SuccessRefused(j) PROVE Order'
  BY <1>10 DEF DaemonStarts, SuccessRefused, dbVars, Rows
<1> QED
  BY <1>1, <1>2, <1>3, <1>4, <1>5, <1>6, <1>7, <1>8, <1>9, <1>10
  DEF Next, Ends, Dispatch

LEMMA OrderHolds == Spec => []Order
BY OrderAtFirst, OrderIsKept, Types, PTL DEF Spec

-----------------------------------------------------------------------------
(* Depth.                                                                   *)

\* No row changes its depth or its step once it is made, and no job made by hand
\* is forgotten.
Grown ==
  /\ Rows' = Rows /\ step' = step /\ depth' = depth /\ parent' = parent
  /\ byHand' = byHand /\ length' = length

LEMMA GrowsOrNot ==
  ASSUME [Next]_vars
  PROVE  \/ Grown \/ DispatchChainFile
         \/ \E j \in Ids : ResumeChain(j) \/ DispatchNext(j)
BY DEF Next, Ends, Dispatch, DaemonStarts, DaemonEnds, RegisterRepo, Runs, Requeued, Rewritten,
       CommitSuccess, SuccessRefused, Fails, ChainHalts, InsertRaises, Grown, Rows, vars, dbVars, daemonVars,
       boundVars

LEMMA DepthIsKept ==
  ASSUME TypeOK, Order, DepthGuards, [Next]_vars
  PROVE  DepthGuards'
<1>0. /\ MaxDepth \in Nat /\ Rows \subseteq Ids
      /\ \A j \in Ids : depth[j] \in Nat /\ step[j] \in Nat
  BY ChainAssumption DEF TypeOK, Rows, Ids
<1>1. CASE Grown
  BY <1>1 DEF Grown, DepthGuards
<1>2. CASE DispatchChainFile
  <2>1. CreateJob(1, 0, 0) /\ 1 \in 1..MaxLength /\ 0 \in Nat /\ 0 \in 0..MaxJobs
        /\ byHand' = byHand
    BY <1>2, ChainAssumption DEF DispatchChainFile
  <2>2. /\ Rows' = Rows \cup {made + 1} /\ step'[made + 1] = 1 /\ depth'[made + 1] = 0
        /\ \A i \in Ids \ {made + 1} : step'[i] = step[i] /\ depth'[i] = depth[i]
    BY <2>1, NewRow
  <2> QED
    BY <1>0, <2>1, <2>2 DEF DepthGuards
<1>3. ASSUME NEW j \in Ids, ResumeChain(j) \/ DispatchNext(j)
      PROVE DepthGuards'
  <2>1. /\ CreateJob(step[j] + 1, depth[j] + 1, j) /\ Dispatchable(j)
        /\ byHand \subseteq byHand'
        /\ depth[j] + 1 > MaxDepth => made + 1 \in byHand'
    BY <1>0, <1>3 DEF ResumeChain, DispatchNext, WithinDepth
  <2>2. /\ step[j] + 1 \in 1..MaxLength /\ depth[j] + 1 \in Nat /\ j \in 0..MaxJobs
    BY <2>1, ChildIsTyped
  <2>3. /\ Rows' = Rows \cup {made + 1}
        /\ step'[made + 1] = step[j] + 1 /\ depth'[made + 1] = depth[j] + 1
        /\ \A i \in Ids \ {made + 1} : step'[i] = step[i] /\ depth'[i] = depth[i]
        /\ made + 1 \notin Rows
    BY <2>1, <2>2, NewRow
  <2>4. j \in Rows
    BY <1>3 DEF ResumeChain, DispatchNext, Order, Unborn
  <2>5. \A i \in Rows : /\ depth'[i] + 1 = step'[i]
                        /\ depth'[i] > MaxDepth => i \in byHand'
    BY <1>0, <2>1, <2>3 DEF DepthGuards
  <2>6. depth'[made + 1] + 1 = step'[made + 1]
    BY <1>0, <2>3, <2>4 DEF DepthGuards
  <2> QED
    BY <2>1, <2>3, <2>5, <2>6 DEF DepthGuards
<1> QED
  BY <1>1, <1>2, <1>3, GrowsOrNot

\* The depth counts the steps, and only chain-resume goes past the limit.
THEOREM DepthIsGuarded == Spec => []DepthGuards
<1>1. Init => DepthGuards
  BY DEF Init, DepthGuards, Rows
<1>2. TypeOK /\ Order /\ DepthGuards /\ [Next]_vars => DepthGuards'
  BY DepthIsKept
<1> QED
  BY <1>1, <1>2, Types, OrderHolds, PTL DEF Spec

-----------------------------------------------------------------------------
(* The account of the successes.                                            *)

LEMMA ChildrenAreFinite ==
  ASSUME TypeOK, NEW j \in Ids
  PROVE  IsFiniteSet(Children(j)) /\ Cardinality(Children(j)) \in Nat
<1>1. made \in Nat
  BY DEF TypeOK
<1>2. IsFiniteSet(Rows)
  BY <1>1, FS_Interval DEF Rows
<1>3. Children(j) \subseteq Rows
  BY DEF Children
<1>4. IsFiniteSet(Children(j))
  BY <1>2, <1>3, FS_Subset
<1> QED
  BY <1>4, FS_CardinalityType

\* A new row is the child of the job it came from, unless it was made by hand,
\* and of no other; it has no child itself.
LEMMA ChildrenOfNewRow ==
  ASSUME TypeOK, Order, NEW k \in 1..MaxLength, NEW d \in Nat, NEW f \in 0..MaxJobs,
         CreateJob(k, d, f), f <= made,
         byHand' = byHand \/ byHand' = byHand \cup {made + 1}
  PROVE  /\ \A i \in Rows : i # f => Children(i)' = Children(i)
         /\ byHand' # byHand => Children(f)' = Children(f)
         /\ byHand' = byHand => Children(f)' = Children(f) \cup {made + 1}
         /\ made + 1 \notin Children(f)
         /\ \A i : i = made + 1 => Children(i)' = {}
<1>1. /\ Rows' = Rows \cup {made + 1} /\ parent'[made + 1] = f /\ made + 1 \notin Rows
      /\ \A i \in Ids \ {made + 1} : parent'[i] = parent[i]
      /\ made + 1 \in Ids
  BY NewRow
<1>2. /\ made \in Nat /\ Rows \subseteq Ids /\ byHand \subseteq Rows
      /\ \A i \in Rows : parent[i] \in Nat /\ parent[i] <= made
  <2>1. made \in Nat /\ parent \in [Ids -> Nat] /\ Rows \subseteq Ids
    <3>1. /\ parent \in [Ids -> 0..MaxJobs] /\ made \in 0..MaxJobs /\ MaxJobs \in Nat
      BY ChainAssumption DEF TypeOK
    <3>. QED
      BY <3>1 DEF Rows, Ids
  <2> QED
    BY <2>1 DEF Order, Unborn
<1>3. \A i : {c \in Rows \ byHand' : parent'[c] = i} = Children(i)
  BY <1>1, <1>2 DEF Children
<1>4. \A i : Children(i)' = {c \in Rows \ byHand' : parent'[c] = i}
                              \cup {c \in {made + 1} \ byHand' : f = i}
  BY <1>1 DEF Children
<1>5. f # made + 1 /\ \A c \in Rows : parent[c] # made + 1
  BY <1>2
<1>6. \A i \in Rows : i # made + 1
  BY <1>1
<1>7. made + 1 \notin byHand
  BY <1>1, <1>2
<1>8. made + 1 \notin Children(f) /\ Children(made + 1) = {}
  BY <1>1, <1>5 DEF Children
<1>9. \A i : i # f => Children(i)' = Children(i)
  BY <1>3, <1>4
<1>10. byHand' # byHand => Children(f)' = Children(f)
  BY <1>3, <1>4
<1>11. byHand' = byHand => Children(f)' = Children(f) \cup {made + 1}
  BY <1>3, <1>4, <1>7
<1>12. \A i : i = made + 1 => Children(i)' = {}
  BY <1>5, <1>8, <1>9
<1> QED
  BY <1>8, <1>9, <1>10, <1>11, <1>12

\* The account of one job.
Account(j) ==
  HasNext(j) => Cardinality(Children(j)) + pending[j] + halted[j] + dropped[j] = earned[j]

\* The account of a job that has just been made is empty.
LEMMA NothingOfUnborn ==
  ASSUME TypeOK, Order, NEW r \in Ids \ Rows, Children(r)' = {},
         pending'[r] = pending[r], UNCHANGED <<halted, dropped, earned>>
  PROVE  Account(r)'
<1>1. pending'[r] = 0 /\ halted'[r] = 0 /\ dropped'[r] = 0 /\ earned'[r] = 0
  BY DEF Order, Unborn
<1>2. Cardinality(Children(r)') = 0
  BY FS_EmptySet
<1> QED
  BY <1>1, <1>2 DEF Account

LEMMA AccountIsKept ==
  ASSUME TypeOK, Order, SuccessAccounted, [Next]_vars
  PROVE  SuccessAccounted'
<1>0. /\ Rows \subseteq Ids /\ made \in Nat
      /\ \A j \in Rows : Account(j) /\ Cardinality(Children(j)) \in Nat
  <2>1. Rows \subseteq Ids /\ made \in Nat
    BY ChainAssumption DEF TypeOK, Rows, Ids
  <2> QED
    BY <2>1, ChildrenAreFinite DEF SuccessAccounted, Account
<1>t. /\ pending \in [Ids -> Nat] /\ halted \in [Ids -> Nat] /\ dropped \in [Ids -> Nat]
      /\ earned \in [Ids -> Nat]
  BY DEF TypeOK
<1> SUFFICES ASSUME NEW r, r \in Rows' PROVE Account(r)'
  BY DEF SuccessAccounted, Account
<1>1. CASE Grown
  <2>1. /\ r \in Rows /\ r \in Ids /\ (HasNext(r))' = HasNext(r)
        /\ Children(r)' = Children(r)
    BY <1>0, <1>1 DEF Grown, HasNext, Children
  <2>2. CASE UNCHANGED <<pending, halted, dropped, earned>>
    BY <1>0, <2>1, <2>2 DEF Account
  <2>3. ASSUME NEW j \in Ids, CommitSuccess(j) PROVE Account(r)'
    <3>1. /\ halted' = halted /\ dropped' = dropped
          /\ earned' = [earned EXCEPT ![j] = @ + 1]
          /\ pending' = IF HasNext(j) THEN [pending EXCEPT ![j] = @ + 1] ELSE pending
      BY <2>3 DEF CommitSuccess
    <3>2. CASE r # j
      BY <1>0, <1>t, <2>1, <3>1, <3>2 DEF Account
    <3>3. CASE r = j /\ HasNext(r)
      <4>1. pending'[r] = pending[r] + 1 /\ earned'[r] = earned[r] + 1
        BY <1>t, <2>1, <3>1, <3>3
      <4>2. Cardinality(Children(r)) + pending[r] + halted[r] + dropped[r] = earned[r]
        BY <1>0, <2>1, <3>3 DEF Account
      <4> QED
        BY <1>0, <1>t, <2>1, <3>1, <4>1, <4>2 DEF Account
    <3>4. CASE ~ HasNext(r)
      BY <2>1, <3>4 DEF Account
    <3> QED
      BY <3>2, <3>3, <3>4
  <2>4. ASSUME NEW j \in Ids, ChainHalts(j) \/ InsertRaises(j) PROVE Account(r)'
    <3>1. /\ dropped' = dropped /\ earned' = earned
          /\ pending' = [pending EXCEPT ![j] = @ - 1]
          /\ halted' = [halted EXCEPT ![j] = @ + 1]
      BY <2>4 DEF ChainHalts, InsertRaises, Halt, Served
    <3>2. pending'[r] + halted'[r] = pending[r] + halted[r]
      BY <1>t, <2>1, <3>1
    <3>3. /\ pending'[r] \in Int /\ halted'[r] \in Int
          /\ pending[r] \in Int /\ halted[r] \in Int /\ dropped[r] \in Int
          /\ Cardinality(Children(r)) \in Int
      BY <1>0, <1>t, <2>1, <3>1
    <3>4. HasNext(r) => Cardinality(Children(r)) + pending[r] + halted[r] + dropped[r] = earned[r]
      BY <1>0, <2>1 DEF Account
    <3>5. HasNext(r) => Cardinality(Children(r)) + pending'[r] + halted'[r] + dropped[r] = earned[r]
      BY <3>2, <3>3, <3>4
    <3> QED
      BY <2>1, <3>1, <3>5 DEF Account
  <2>5. CASE DaemonEnds
    <3>1. /\ halted' = halted /\ earned' = earned
          /\ pending'[r] = 0 /\ dropped'[r] = dropped[r] + pending[r]
      BY <2>1, <2>5 DEF DaemonEnds, None
    <3>2. /\ pending[r] \in Int /\ halted[r] \in Int /\ dropped[r] \in Int
          /\ Cardinality(Children(r)) \in Int
      BY <1>0, <1>t, <2>1
    <3>3. HasNext(r) => Cardinality(Children(r)) + pending[r] + halted[r] + dropped[r] = earned[r]
      BY <1>0, <2>1 DEF Account
    <3>4. HasNext(r) => Cardinality(Children(r)) + pending'[r] + halted[r] + dropped'[r] = earned[r]
      BY <3>1, <3>2, <3>3
    <3> QED
      BY <2>1, <3>1, <3>4 DEF Account
  <2>6. ASSUME DispatchChainFile \/ \E j \in Ids : ResumeChain(j) \/ DispatchNext(j)
        PROVE FALSE
    <3>1. made' = made + 1
      BY <2>6 DEF DispatchChainFile, ResumeChain, DispatchNext, CreateJob
    <3>2. made + 1 \in Rows' /\ made + 1 \notin Rows
      BY <1>0, <3>1 DEF Rows
    <3> QED
      BY <1>1, <3>2 DEF Grown
  <2>7. ASSUME DaemonStarts \/ (\E k \in 1..MaxLength : RegisterRepo(k))
               \/ (\E j \in Ids : \/ Runs(j) \/ Requeued(j) \/ Fails(j) \/ Rewritten(j)
                                  \/ SuccessRefused(j))
               \/ UNCHANGED vars
        PROVE UNCHANGED <<pending, halted, dropped, earned>>
    BY <2>7 DEF DaemonStarts, RegisterRepo, Runs, Requeued, Fails, Rewritten, SuccessRefused, vars,
       daemonVars
  <2> QED
    BY <2>2, <2>3, <2>4, <2>5, <2>6, <2>7 DEF Next, Ends, Dispatch
<1>2. CASE DispatchChainFile
  <2>1. /\ CreateJob(1, 0, 0) /\ 1 \in 1..MaxLength /\ 0 \in Nat /\ 0 \in 0..MaxJobs
        /\ byHand' = byHand /\ made = 0
        /\ UNCHANGED <<pending, halted, dropped, earned>>
    BY <1>2, ChainAssumption DEF DispatchChainFile, daemonVars
  <2>2. Rows' = Rows \cup {made + 1} /\ made + 1 \in Ids /\ made + 1 \notin Rows
    BY <2>1, NewRow
  <2>3. \A i : i = made + 1 => Children(i)' = {}
    BY <1>0, <2>1, ChildrenOfNewRow
  <2>4. r = made + 1
    BY <2>1, <2>2 DEF Rows
  <2>5. Children(r)' = {} /\ r \in Ids \ Rows
    BY <2>2, <2>3, <2>4
  <2> QED
    BY <2>1, <2>5, NothingOfUnborn
<1>3. ASSUME NEW j \in Ids, ResumeChain(j) PROVE Account(r)'
  <2>1. /\ CreateJob(step[j] + 1, depth[j] + 1, j) /\ Dispatchable(j) /\ j \in Rows
        /\ byHand' = byHand \cup {made + 1} /\ length' = length
        /\ UNCHANGED <<pending, halted, dropped, earned>>
    BY <1>3 DEF ResumeChain, daemonVars
  <2>2. /\ step[j] + 1 \in 1..MaxLength /\ depth[j] + 1 \in Nat /\ j \in 0..MaxJobs
        /\ j <= made
    BY <1>0, <2>1, ChildIsTyped DEF Rows
  <2>3. /\ Rows' = Rows \cup {made + 1} /\ made + 1 \in Ids /\ made + 1 \notin Rows
        /\ \A i \in Ids \ {made + 1} : step'[i] = step[i]
    BY <2>1, <2>2, NewRow
  <2>4. /\ \A i \in Rows : i # j => Children(i)' = Children(i)
        /\ byHand' # byHand => Children(j)' = Children(j)
        /\ \A i : i = made + 1 => Children(i)' = {}
    BY <2>1, <2>2, ChildrenOfNewRow
  <2>5. byHand' # byHand
    BY <2>1, <2>3 DEF Order, Unborn
  <2>6. CASE r \in Rows
    <3>1. Children(r)' = Children(r) /\ (HasNext(r))' = HasNext(r)
      BY <1>0, <2>1, <2>3, <2>4, <2>5, <2>6 DEF HasNext
    <3> QED
      BY <1>0, <2>1, <2>6, <3>1 DEF Account
  <2>7. CASE r = made + 1
    <3>1. Children(r)' = {} /\ r \in Ids \ Rows
      BY <2>3, <2>4, <2>7
    <3> QED
      BY <2>1, <3>1, NothingOfUnborn
  <2> QED
    BY <2>3, <2>6, <2>7
<1>4. ASSUME NEW j \in Ids, DispatchNext(j) PROVE Account(r)'
  <2>1. /\ CreateJob(step[j] + 1, depth[j] + 1, j) /\ Dispatchable(j)
        /\ byHand' = byHand /\ length' = length
        /\ pending' = [pending EXCEPT ![j] = @ - 1]
        /\ UNCHANGED <<halted, dropped, earned>>
    BY <1>4 DEF DispatchNext, Served
  <2>8. j \in Rows
    BY <1>4 DEF DispatchNext, Order, Unborn
  <2>2. /\ step[j] + 1 \in 1..MaxLength /\ depth[j] + 1 \in Nat /\ j \in 0..MaxJobs
        /\ j <= made
    BY <1>0, <2>1, <2>8, ChildIsTyped DEF Rows
  <2>3. /\ Rows' = Rows \cup {made + 1} /\ made + 1 \in Ids /\ made + 1 \notin Rows
        /\ \A i \in Ids \ {made + 1} : step'[i] = step[i]
    BY <2>1, <2>2, NewRow
  <2>4. /\ \A i \in Rows : i # j => Children(i)' = Children(i)
        /\ Children(j)' = Children(j) \cup {made + 1} /\ made + 1 \notin Children(j)
        /\ \A i : i = made + 1 => Children(i)' = {}
    BY <2>1, <2>2, ChildrenOfNewRow
  <2>5. CASE r \in Rows /\ r # j
    <3>1. Children(r)' = Children(r) /\ (HasNext(r))' = HasNext(r) /\ pending'[r] = pending[r]
      BY <1>0, <1>t, <2>1, <2>3, <2>4, <2>5 DEF HasNext
    <3> QED
      BY <1>0, <2>1, <2>5, <3>1 DEF Account
  <2>6. CASE r = j
    <3>1. /\ Children(r)' = Children(r) \cup {made + 1} /\ (HasNext(r))' = HasNext(r)
          /\ pending'[r] = pending[r] - 1
      BY <1>0, <1>t, <2>1, <2>3, <2>4, <2>6, <2>8 DEF HasNext
    <3>2. Cardinality(Children(r)') = Cardinality(Children(r)) + 1
      BY <2>4, <2>6, <3>1, ChildrenAreFinite, FS_AddElement
    <3>3. /\ pending[r] \in Int /\ halted[r] \in Int /\ dropped[r] \in Int
          /\ Cardinality(Children(r)) \in Int
      BY <1>0, <1>t, <2>6, <2>8
    <3>4. HasNext(r) => Cardinality(Children(r)) + pending[r] + halted[r] + dropped[r] = earned[r]
      BY <1>0, <2>6, <2>8 DEF Account
    <3>5. HasNext(r) => Cardinality(Children(r)') + pending'[r] + halted[r] + dropped[r] = earned[r]
      BY <3>1, <3>2, <3>3, <3>4
    <3> QED
      BY <2>1, <3>1, <3>5 DEF Account
  <2>7. CASE r = made + 1
    <3>1. Children(r)' = {} /\ r \in Ids \ Rows
      BY <2>3, <2>4, <2>7
    <3>2. pending'[r] = pending[r]
      BY <1>t, <2>1, <2>8, <3>1
    <3> QED
      BY <2>1, <3>1, <3>2, NothingOfUnborn
  <2> QED
    BY <2>3, <2>5, <2>6, <2>7
<1> QED
  BY <1>1, <1>2, <1>3, <1>4, GrowsOrNot

\* Every success is answered exactly once.
THEOREM SuccessesAreAccounted == Spec => []SuccessAccounted
<1>1. Init => SuccessAccounted
  BY DEF Init, SuccessAccounted, Rows
<1>2. TypeOK /\ Order /\ SuccessAccounted /\ [Next]_vars => SuccessAccounted'
  BY AccountIsKept
<1> QED
  BY <1>1, <1>2, Types, OrderHolds, PTL DEF Spec

-----------------------------------------------------------------------------
(* Copies.  A step is run again by one more success of a job that ran it, or *)
(* by hand, so the copies of a step are counted by those of the step before. *)

\* Two finite sets together have no more elements than both have.
LEMMA JoinedCount ==
  ASSUME NEW S, NEW T, IsFiniteSet(S), IsFiniteSet(T)
  PROVE  /\ IsFiniteSet(S \cup T)
         /\ Cardinality(S) \in Nat /\ Cardinality(T) \in Nat /\ Cardinality(S \cup T) \in Nat
         /\ Cardinality(S \cup T) <= Cardinality(S) + Cardinality(T)
         /\ S \cap T = {} => Cardinality(S \cup T) = Cardinality(S) + Cardinality(T)
<1>1. IsFiniteSet(S \cap T)
  BY FS_Subset
<1>2. /\ IsFiniteSet(S \cup T)
      /\ Cardinality(S \cup T) = Cardinality(S) + Cardinality(T) - Cardinality(S \cap T)
  BY FS_Union
<1>3. /\ Cardinality(S) \in Nat /\ Cardinality(T) \in Nat /\ Cardinality(S \cap T) \in Nat
      /\ Cardinality(S \cup T) \in Nat
  BY <1>1, <1>2, FS_CardinalityType
<1>4. S \cap T = {} => Cardinality(S \cap T) = 0
  BY FS_EmptySet
<1>. QED
  BY <1>2, <1>3, <1>4

\* A set of numbers has a least one.
LEMMA LeastExists ==
  ASSUME NEW N, N \subseteq Nat, N # {}
  PROVE  \E n \in N : \A m \in N : n <= m
<1>1. PICK n \in N : \A m \in N : <<m, n>> \notin OpToRel(<, Nat)
  BY WFMin, NatLessThanWellFounded, Zenon
<1>2. \A m \in N : m \in Nat /\ n \in Nat => ~ (m < n)
  BY <1>1, Zenon DEF OpToRel
<1>. QED
  BY <1>2

LEMMA RowsAreIds ==
  ASSUME TypeOK PROVE Rows \subseteq Ids
BY ChainAssumption DEF TypeOK, Rows, Ids

\* The successes a job has had and may still have, while nobody rewrites it.
Chances(j) == IF state[j] \in {"queued", "running"} THEN earned[j] + 1 ELSE earned[j]

\* The second and later successes, had or still possible.
Again == {p \in Rows \X Nat : 2 <= p[2] /\ p[2] <= Chances(p[1])}

\* Every one of them is owed to a job that was put back after it had succeeded.
RerunsPaid ==
  /\ \A j \in Ids : state[j] = "succeeded" => earned[j] > 0
  /\ IsFiniteSet(Again) /\ Cardinality(Again) <= rewrites

HandsPaid == IsFiniteSet(byHand) /\ Cardinality(byHand) <= resumes

\* Every job but the first comes from a job of the step before.
Lineage ==
  /\ \A c \in Rows : /\ step[c] = 1 => c = 1
                     /\ step[c] > 1 => /\ parent[c] \in Rows /\ HasNext(parent[c])
                                       /\ step[c] = step[parent[c]] + 1
  /\ \A j \in Ids : pending[j] > 0 => HasNext(j)

LEMMA PaidAtFirst == Init => RerunsPaid /\ HandsPaid /\ Lineage
<1>. SUFFICES ASSUME Init PROVE RerunsPaid /\ HandsPaid /\ Lineage
  OBVIOUS
<1>1. Rows = {} /\ Again = {} /\ byHand = {}
  BY DEF Init, Rows, Again
<1>2. IsFiniteSet({}) /\ Cardinality({}) = 0
  BY FS_EmptySet
<1>3. rewrites = 0 /\ resumes = 0
  BY DEF Init
<1>4. RerunsPaid /\ HandsPaid
  BY <1>1, <1>2, <1>3 DEF Init, RerunsPaid, HandsPaid
<1>5. Lineage
  BY <1>1 DEF Init, Lineage, None
<1>. QED
  BY <1>4, <1>5

LEMMA LineageIsKept ==
  ASSUME TypeOK, Order, Lineage, [Next]_vars
  PROVE  Lineage'
<1>0. /\ Rows \subseteq Ids /\ made \in Nat
      /\ \A j \in Ids : step[j] \in Nat /\ step[j] > 0 /\ pending[j] \in Nat
  BY ChainAssumption DEF TypeOK, Rows, Ids
<1>1. CASE Grown
  <2>1. ASSUME NEW j \in Ids, pending'[j] > 0 PROVE HasNext(j)
    <3>1. CASE CommitSuccess(j)
      BY <3>1, <2>1 DEF CommitSuccess, Lineage
    <3>2. CASE ~ CommitSuccess(j)
      <4>1. made' = made
        <5>1. ASSUME made' = made + 1 PROVE FALSE
          <6>1. made + 1 \in Rows' /\ made + 1 \notin Rows
            BY <1>0, <5>1 DEF Rows
          <6>. QED
            BY <1>1, <6>1 DEF Grown
        <5>. QED
          BY <5>1 DEF Next, Ends, Dispatch, DispatchChainFile, ResumeChain, DispatchNext,
             CreateJob, DaemonStarts, DaemonEnds, RegisterRepo, Runs, Requeued, Rewritten,
             CommitSuccess, SuccessRefused, Fails, ChainHalts, InsertRaises, vars, dbVars
      <4>2. pending'[j] <= pending[j]
        BY <1>0, <3>2, <4>1 DEF Next, Ends, Dispatch, DispatchChainFile, ResumeChain,
           DispatchNext, CreateJob, DaemonStarts, DaemonEnds, RegisterRepo, Runs, Requeued,
           Rewritten, CommitSuccess, SuccessRefused, Fails, ChainHalts, InsertRaises, Halt, Served, None,
           vars, daemonVars, TypeOK
      <4>3. pending'[j] \in Nat
        BY TypesAreKept DEF TypeOK
      <4>. QED
        BY <1>0, <2>1, <4>2, <4>3 DEF Lineage
    <3>. QED
      BY <3>1, <3>2
  <2>. QED
    BY <1>1, <2>1 DEF Grown, Lineage, HasNext
<1>2. CASE DispatchChainFile
  <2>1. /\ CreateJob(1, 0, 0) /\ 1 \in 1..MaxLength /\ 0 \in Nat /\ 0 \in 0..MaxJobs
        /\ made = 0 /\ pending' = pending
    BY <1>2, ChainAssumption DEF DispatchChainFile, daemonVars
  <2>2. Rows' = {1} /\ step'[1] = 1
    BY <2>1, NewRow DEF Rows
  <2>3. \A j \in Ids : pending'[j] = 0
    BY <2>1 DEF Order, Unborn, Rows
  <2>. QED
    BY <2>2, <2>3 DEF Lineage
<1>3. ASSUME NEW j \in Ids, ResumeChain(j) \/ DispatchNext(j)
      PROVE Lineage'
  <2>1. /\ CreateJob(step[j] + 1, depth[j] + 1, j) /\ Dispatchable(j) /\ length' = length
        /\ HasNext(j) /\ j \in Rows
    BY <1>3 DEF ResumeChain, DispatchNext, Lineage, Order, Unborn
  <2>2. /\ step[j] + 1 \in 1..MaxLength /\ depth[j] + 1 \in Nat /\ j \in 0..MaxJobs
    BY <2>1, ChildIsTyped
  <2>3. /\ Rows' = Rows \cup {made + 1} /\ made + 1 \notin Rows
        /\ step'[made + 1] = step[j] + 1 /\ parent'[made + 1] = j
        /\ \A i \in Ids \ {made + 1} : step'[i] = step[i] /\ parent'[i] = parent[i]
    BY <2>1, <2>2, NewRow
  <2>4. \A i \in Rows : /\ step'[i] = step[i] /\ parent'[i] = parent[i]
    BY <1>0, <2>3
  <2>5. \A c \in Rows : /\ step'[c] = 1 => c = 1
                        /\ step'[c] > 1 => /\ parent'[c] \in Rows'
                                           /\ step'[parent'[c]] < length'
                                           /\ step'[c] = step'[parent'[c]] + 1
    <3>. SUFFICES ASSUME NEW c \in Rows, step[c] > 1
                  PROVE  /\ parent[c] \in Rows' /\ step'[parent[c]] < length
                         /\ step[c] = step'[parent[c]] + 1
      BY <2>1, <2>4 DEF Lineage
    <3>1. parent[c] \in Rows /\ step[parent[c]] < length /\ step[c] = step[parent[c]] + 1
      BY DEF Lineage, HasNext
    <3>. QED
      BY <2>3, <2>4, <3>1
  <2>6. \A i \in Ids : pending'[i] > 0 => i \in Rows /\ HasNext(i)
    <3>1. \A i \in Ids : pending'[i] <= pending[i]
      BY <1>0, <1>3 DEF ResumeChain, DispatchNext, Served, daemonVars, TypeOK
    <3>2. \A i \in Ids : pending'[i] > 0 => pending[i] > 0
      <4>1. pending' \in [Ids -> Nat]
        BY <1>0, <1>3 DEF ResumeChain, DispatchNext, Served, daemonVars, TypeOK
      <4>. QED
        BY <1>0, <3>1, <4>1
    <3>. QED
      BY <3>2 DEF Lineage, Order, Unborn
  <2>7. /\ step'[made + 1] # 1 /\ parent'[made + 1] \in Rows'
        /\ step'[parent'[made + 1]] < length'
        /\ step'[made + 1] = step'[parent'[made + 1]] + 1
    BY <1>0, <2>1, <2>3, <2>4 DEF HasNext
  <2>8. \A i \in Ids : pending'[i] > 0 => step'[i] < length'
    BY <2>1, <2>4, <2>6 DEF HasNext
  <2>. QED
    BY <2>3, <2>5, <2>7, <2>8 DEF Lineage, HasNext
<1>. QED
  BY <1>1, <1>2, <1>3, GrowsOrNot

LEMMA HandsArePaid ==
  ASSUME TypeOK, Order, HandsPaid, [Next]_vars
  PROVE  HandsPaid'
<1>0. resumes \in Nat
  BY DEF TypeOK
<1>1. ASSUME NEW j \in Ids, ResumeChain(j) PROVE HandsPaid'
  <2>1. byHand' = byHand \cup {made + 1} /\ resumes' = resumes + 1
    BY <1>1 DEF ResumeChain
  <2>2. made + 1 \notin byHand
    BY DEF Order, Unborn, Rows, TypeOK
  <2>3. IsFiniteSet(byHand') /\ Cardinality(byHand') = Cardinality(byHand) + 1
    BY <2>1, <2>2, FS_AddElement DEF HandsPaid
  <2>4. Cardinality(byHand) \in Nat
    BY FS_CardinalityType DEF HandsPaid
  <2>. QED
    BY <1>0, <2>1, <2>3, <2>4 DEF HandsPaid
<1>2. CASE \A j \in Ids : ~ ResumeChain(j)
  <2>1. byHand' = byHand /\ resumes' = resumes
    BY <1>2 DEF Next, Ends, Dispatch, DispatchChainFile, DispatchNext, DaemonStarts,
       DaemonEnds, RegisterRepo, Runs, Requeued, Rewritten, CommitSuccess, SuccessRefused,
       Fails, ChainHalts, InsertRaises, vars, boundVars
  <2>. QED
    BY <2>1 DEF HandsPaid
<1>. QED
  BY <1>1, <1>2

\* What a step can add to the second successes, it pays for.
LEMMA AgainIsPaid ==
  ASSUME TypeOK, RerunsPaid,
         \/ Again' \subseteq Again /\ rewrites' = rewrites
         \/ \E p : Again' \subseteq Again \cup {p} /\ rewrites' = rewrites + 1
  PROVE  IsFiniteSet(Again') /\ Cardinality(Again') <= rewrites'
<1>0. /\ IsFiniteSet(Again) /\ Cardinality(Again) \in Nat /\ rewrites \in Nat
      /\ Cardinality(Again) <= rewrites
  BY FS_CardinalityType DEF RerunsPaid, TypeOK
<1>. HIDE DEF Again
<1>1. CASE Again' \subseteq Again /\ rewrites' = rewrites
  <2>1. /\ IsFiniteSet(Again') /\ Cardinality(Again') \in Nat
        /\ Cardinality(Again') <= Cardinality(Again)
    BY <1>0, <1>1, FS_Subset, FS_CardinalityType
  <2>. QED
    BY <1>0, <1>1, <2>1
<1>2. ASSUME NEW p, Again' \subseteq Again \cup {p}, rewrites' = rewrites + 1
      PROVE  IsFiniteSet(Again') /\ Cardinality(Again') <= rewrites'
  <2>1. /\ IsFiniteSet(Again \cup {p})
        /\ Cardinality(Again \cup {p}) <= Cardinality(Again) + 1
        /\ Cardinality(Again \cup {p}) \in Nat
    <3>1. /\ IsFiniteSet(Again \cup {p})
          /\ Cardinality(Again \cup {p}) =
               IF p \in Again THEN Cardinality(Again) ELSE Cardinality(Again) + 1
      BY <1>0, FS_AddElement
    <3>. QED
      BY <1>0, <3>1
  <2>2. /\ IsFiniteSet(Again') /\ Cardinality(Again') \in Nat
        /\ Cardinality(Again') <= Cardinality(Again \cup {p})
    BY <1>2, <2>1, FS_Subset, FS_CardinalityType
  <2>. QED
    BY <1>0, <1>2, <2>1, <2>2
<1>. QED
  BY <1>1, <1>2

LEMMA RerunsArePaid ==
  ASSUME TypeOK, Order, RerunsPaid, [Next]_vars
  PROVE  RerunsPaid'
<1>0. /\ Rows \subseteq Ids /\ made \in Nat
      /\ state \in [Ids -> ChainStates] /\ earned \in [Ids -> Nat]
      /\ \A j \in Ids : state[j] = "succeeded" => earned[j] > 0
  BY ChainAssumption DEF TypeOK, Rows, Ids, Order, Unborn, RerunsPaid
<1>. DEFINE Told == \A j \in Ids : state[j] = "succeeded" => earned[j] > 0
<1>. SUFFICES /\ Told'
              /\ \/ Again' \subseteq Again /\ rewrites' = rewrites
                 \/ \E p : Again' \subseteq Again \cup {p} /\ rewrites' = rewrites + 1
  BY AgainIsPaid DEF RerunsPaid
<1>1. CASE DispatchChainFile \/ \E j \in Ids : ResumeChain(j) \/ DispatchNext(j)
  <2>1. PICK k \in 1..MaxLength, d \in Nat, f \in 0..MaxJobs : CreateJob(k, d, f)
    <3>1. CASE DispatchChainFile
      BY <3>1, ChainAssumption DEF DispatchChainFile
    <3>2. ASSUME NEW j \in Ids, ResumeChain(j) \/ DispatchNext(j)
          PROVE  \E k \in 1..MaxLength, d \in Nat, f \in 0..MaxJobs : CreateJob(k, d, f)
      <4>1. CreateJob(step[j] + 1, depth[j] + 1, j) /\ Dispatchable(j)
        BY <3>2 DEF ResumeChain, DispatchNext
      <4>. QED
        BY <4>1, ChildIsTyped
    <3>. QED
      BY <1>1, <3>1, <3>2
  <2>2. earned' = earned /\ rewrites' = rewrites
    BY <1>1 DEF DispatchChainFile, ResumeChain, DispatchNext, daemonVars, boundVars
  <2>3. /\ Rows' = Rows \cup {made + 1} /\ made + 1 \notin Rows /\ made + 1 \in Ids
        /\ \A i \in Ids \ {made + 1} : state'[i] = state[i]
    BY <2>1, NewRow
  <2>4. earned[made + 1] = 0 /\ state'[made + 1] = "queued"
    BY <1>0, <2>1, <2>3 DEF CreateJob, Order, Unborn
  <2>5. \A i \in Rows' : Chances(i)' = IF i = made + 1 THEN 1 ELSE Chances(i)
    BY <1>0, <2>2, <2>3, <2>4 DEF Chances
  <2>6. Again' \subseteq Again
    BY <2>3, <2>5 DEF Again
  <2>7. Told'
    BY <1>0, <2>2, <2>3, <2>4
  <2>. QED
    BY <2>2, <2>6, <2>7
<1>2. ASSUME NEW j \in Ids, Rewritten(j)
      PROVE  /\ Told'
             /\ \E p : Again' \subseteq Again \cup {p} /\ rewrites' = rewrites + 1
  <2>1. /\ made' = made /\ earned' = earned /\ rewrites' = rewrites + 1
        /\ state[j] = "succeeded"
        /\ \E s \in {"queued", "failed"} : state' = [state EXCEPT ![j] = s]
    BY <1>2 DEF Rewritten, daemonVars
  <2>2. Rows' = Rows /\ \A i \in Ids \ {j} : Chances(i)' = Chances(i)
    BY <1>0, <2>1 DEF Rows, Chances
  <2>3. Chances(j) = earned[j] /\ Chances(j)' \in {earned[j], earned[j] + 1}
    BY <1>0, <2>1 DEF Chances
  <2>4. Again' \subseteq Again \cup {<<j, earned[j] + 1>>}
    <3>. SUFFICES ASSUME NEW p \in Again', p \notin Again PROVE p = <<j, earned[j] + 1>>
      OBVIOUS
    <3>1. p \in Rows \X Nat /\ 2 <= p[2] /\ p[2] <= Chances(p[1])'
      BY <2>2 DEF Again
    <3>2. ~ (p[2] <= Chances(p[1]))
      BY <3>1 DEF Again
    <3>3. p[1] = j
      BY <1>0, <2>2, <3>1, <3>2
    <3>4. p[2] = earned[j] + 1
      BY <1>0, <2>3, <3>1, <3>2, <3>3
    <3>. QED
      BY <3>1, <3>3, <3>4
  <2>5. Told'
    BY <1>0, <2>1
  <2>. QED
    BY <2>1, <2>4, <2>5
<1>3. ASSUME NEW j \in Ids, Runs(j) \/ Requeued(j) \/ Fails(j) \/ CommitSuccess(j)
      PROVE  Told' /\ Again' \subseteq Again /\ rewrites' = rewrites
  <2>1. /\ made' = made /\ rewrites' = rewrites
        /\ \E s \in ChainStates : state' = [state EXCEPT ![j] = s]
        /\ \/ earned' = earned /\ state[j] \in {"queued", "running"} /\ state'[j] # "succeeded"
           \/ /\ state[j] = "running" /\ state'[j] = "succeeded"
              /\ earned' = [earned EXCEPT ![j] = @ + 1]
    BY <1>0, <1>3 DEF Runs, Requeued, Fails, CommitSuccess, boundVars, ChainStates
  <2>2. Rows' = Rows /\ \A i \in Ids \ {j} : Chances(i)' = Chances(i)
    BY <1>0, <2>1 DEF Rows, Chances
  <2>3. Chances(j)' \in Nat /\ Chances(j) \in Nat /\ Chances(j)' <= Chances(j)
    BY <1>0, <2>1 DEF Chances
  <2>4. Again' \subseteq Again
    <3>. SUFFICES ASSUME NEW p \in Rows \X Nat, p[2] <= Chances(p[1])'
                  PROVE  p[2] <= Chances(p[1])
      BY <2>2 DEF Again
    <3>1. p[1] = j \/ Chances(p[1])' = Chances(p[1])
      BY <1>0, <2>2
    <3>. QED
      BY <2>3, <3>1
  <2>5. Told'
    BY <1>0, <2>1
  <2>. QED
    BY <2>1, <2>4, <2>5
<1>4. ASSUME DaemonStarts \/ DaemonEnds \/ (\E k \in 1..MaxLength : RegisterRepo(k))
             \/ (\E j \in Ids : ChainHalts(j) \/ InsertRaises(j) \/ SuccessRefused(j))
             \/ UNCHANGED vars
      PROVE  Told' /\ Again' \subseteq Again /\ rewrites' = rewrites
  <2>1. /\ UNCHANGED <<made, state, earned, rewrites>>
    BY <1>4 DEF DaemonStarts, DaemonEnds, RegisterRepo, ChainHalts, InsertRaises, SuccessRefused, vars, dbVars,
       daemonVars, boundVars
  <2>. QED
    BY <1>0, <2>1 DEF Again, Chances, Rows
<1>. QED
  BY <1>1, <1>2, <1>3, <1>4 DEF Next, Ends, Dispatch

LEMMA PaidHolds == Spec => [](RerunsPaid /\ HandsPaid /\ Lineage)
<1>1. /\ TypeOK /\ Order /\ RerunsPaid /\ HandsPaid /\ Lineage /\ [Next]_vars
         => RerunsPaid' /\ HandsPaid' /\ Lineage'
  BY RerunsArePaid, HandsArePaid, LineageIsKept
<1>. QED
  BY PaidAtFirst, <1>1, Types, OrderHolds, PTL DEF Spec

\* The copies of a step, and what was paid for them up to there.
Copies(k) == {j \in Rows : step[j] = k}
AgainAt(k) == {p \in Again : step[p[1]] = k}
AgainBelow(k) == {p \in Again : step[p[1]] < k}
HandsAt(k) == {c \in byHand : step[c] = k}
HandsUpTo(k) == {c \in byHand : step[c] <= k}

LEMMA PartsAreFinite ==
  ASSUME TypeOK, Order, RerunsPaid, NEW k
  PROVE  /\ IsFiniteSet(Copies(k)) /\ Cardinality(Copies(k)) \in Nat
         /\ IsFiniteSet(AgainAt(k)) /\ Cardinality(AgainAt(k)) \in Nat
         /\ IsFiniteSet(AgainBelow(k)) /\ Cardinality(AgainBelow(k)) \in Nat
         /\ IsFiniteSet(HandsAt(k)) /\ Cardinality(HandsAt(k)) \in Nat
         /\ IsFiniteSet(HandsUpTo(k)) /\ Cardinality(HandsUpTo(k)) \in Nat
<1>1. IsFiniteSet(Rows)
  BY FS_Interval DEF Rows, TypeOK
<1>2. /\ Copies(k) \subseteq Rows /\ HandsAt(k) \subseteq Rows /\ HandsUpTo(k) \subseteq Rows
      /\ AgainAt(k) \subseteq Again /\ AgainBelow(k) \subseteq Again
  BY DEF Copies, HandsAt, HandsUpTo, AgainAt, AgainBelow, Order, Unborn
<1>3. IsFiniteSet(Again)
  BY DEF RerunsPaid
<1>4. /\ IsFiniteSet(Copies(k)) /\ IsFiniteSet(HandsAt(k)) /\ IsFiniteSet(HandsUpTo(k))
      /\ IsFiniteSet(AgainAt(k)) /\ IsFiniteSet(AgainBelow(k))
  <2>. HIDE DEF Copies, AgainAt, AgainBelow, HandsAt, HandsUpTo, Again, Rows
  <2>. QED
    BY <1>1, <1>2, <1>3, FS_Subset
<1>. QED
  BY <1>4, FS_CardinalityType

\* A job's children are numbered in the order they were made.
Elder(c) == {b \in Children(parent[c]) : b <= c}
Rank(c) == Cardinality(Elder(c))

LEMMA RankFacts ==
  ASSUME TypeOK, SuccessAccounted, Lineage, NEW c \in Rows \ byHand, step[c] > 1
  PROVE  /\ parent[c] \in Rows /\ IsFiniteSet(Elder(c))
         /\ Rank(c) \in Nat /\ 1 <= Rank(c) /\ Rank(c) <= earned[parent[c]]
<1>0. parent[c] \in Rows /\ parent[c] \in Ids /\ HasNext(parent[c]) /\ c \in Nat
  BY ChainAssumption DEF Lineage, TypeOK, Rows, Ids
<1>1. /\ IsFiniteSet(Children(parent[c])) /\ Cardinality(Children(parent[c])) \in Nat
  BY <1>0, ChildrenAreFinite
<1>2. Elder(c) \subseteq Children(parent[c]) /\ c \in Elder(c)
  BY <1>0 DEF Elder, Children
<1>3. /\ IsFiniteSet(Elder(c)) /\ Rank(c) \in Nat /\ Rank(c) <= Cardinality(Children(parent[c]))
  BY <1>1, <1>2, FS_Subset, FS_CardinalityType DEF Rank
<1>4. Rank(c) # 0
  BY <1>2, <1>3, FS_EmptySet DEF Rank
<1>5. /\ Cardinality(Children(parent[c])) + pending[parent[c]] + halted[parent[c]]
           + dropped[parent[c]] = earned[parent[c]]
      /\ pending[parent[c]] \in Nat /\ halted[parent[c]] \in Nat
      /\ dropped[parent[c]] \in Nat /\ earned[parent[c]] \in Nat
  BY <1>0 DEF SuccessAccounted, TypeOK
<1>6. Cardinality(Children(parent[c])) <= earned[parent[c]]
  BY <1>1, <1>5
<1>. QED
  BY <1>0, <1>1, <1>3, <1>4, <1>5, <1>6

LEMMA RanksDiffer ==
  ASSUME TypeOK, SuccessAccounted, Lineage,
         NEW b \in Rows \ byHand, NEW c \in Rows \ byHand, step[b] > 1, step[c] > 1,
         parent[b] = parent[c], Rank(b) = Rank(c)
  PROVE  b = c
<1>1. ASSUME NEW x \in Rows \ byHand, NEW y \in Rows \ byHand, step[y] > 1, x < y,
             parent[x] = parent[y]
      PROVE  Rank(x) # Rank(y)
  <2>1. Elder(x) \subseteq Elder(y) /\ y \in Elder(y) /\ y \notin Elder(x)
    BY <1>1 DEF Elder, Children, Rows
  <2>2. IsFiniteSet(Elder(y))
    BY <1>1, RankFacts
  <2>. QED
    BY <2>1, <2>2, FS_Subset DEF Rank
<1>2. b \in Nat /\ c \in Nat
  BY DEF Rows
<1>. QED
  BY <1>1, <1>2

\* The first children of a step's jobs are no more than these jobs, the others no
\* more than their second successes.
LEMMA CopiesOfNext ==
  ASSUME TypeOK, Order, SuccessAccounted, RerunsPaid, Lineage, NEW k \in Nat \ {0}
  PROVE  Cardinality(Copies(k + 1))
           <= Cardinality(Copies(k)) + Cardinality(AgainAt(k)) + Cardinality(HandsAt(k + 1))
<1>. DEFINE Own   == Copies(k + 1) \ byHand
            First == {c \in Own : Rank(c) = 1}
            Later == {c \in Own : Rank(c) # 1}
<1>1. \A c \in Own : /\ c \in Rows \ byHand /\ step[c] > 1 /\ step[c] = k + 1
                     /\ parent[c] \in Copies(k) /\ parent[c] \in Rows
                     /\ Rank(c) \in Nat /\ 1 <= Rank(c) /\ Rank(c) <= earned[parent[c]]
  <2>. SUFFICES ASSUME NEW c \in Own
                PROVE  /\ c \in Rows \ byHand /\ step[c] > 1 /\ step[c] = k + 1
                       /\ parent[c] \in Copies(k) /\ parent[c] \in Rows
                       /\ Rank(c) \in Nat /\ 1 <= Rank(c) /\ Rank(c) <= earned[parent[c]]
    OBVIOUS
  <2>1. c \in Rows \ byHand /\ step[c] > 1 /\ step[c] = k + 1
    BY DEF Copies
  <2>2. parent[c] \in Rows /\ step[c] = step[parent[c]] + 1
    BY <2>1 DEF Lineage
  <2>3. step[parent[c]] \in Nat
    <3>1. parent[c] \in Ids
      BY <2>2, ChainAssumption DEF TypeOK, Rows, Ids
    <3>2. step \in [Ids -> 1..MaxLength]
      BY DEF TypeOK
    <3>. QED
      BY <3>1, <3>2
  <2>. QED
    BY <2>1, <2>2, <2>3, RankFacts DEF Copies
<1>2. Cardinality(First) <= Cardinality(Copies(k)) /\ IsFiniteSet(First)
  <2>. DEFINE f == [c \in First |-> parent[c]]
  <2>1. \A b, c \in First : f[b] = f[c] => b = c
    BY <1>1, RanksDiffer
  <2>2. f \in [First -> Copies(k)]
    BY <1>1
  <2>3. f \in Injection(First, Copies(k))
    <3>. HIDE DEF f, First
    <3>. QED
      BY <2>1, <2>2, Fun_IsInj
  <2>. HIDE DEF f, First
  <2>. QED
    BY <2>3, PartsAreFinite, FS_Injection
<1>3. Cardinality(Later) <= Cardinality(AgainAt(k)) /\ IsFiniteSet(Later)
  <2>. DEFINE g == [c \in Later |-> <<parent[c], Rank(c)>>]
  <2>1. \A b, c \in Later : g[b] = g[c] => b = c
    BY <1>1, RanksDiffer
  <2>2. g \in [Later -> AgainAt(k)]
    <3>. SUFFICES ASSUME NEW c \in Later PROVE <<parent[c], Rank(c)>> \in AgainAt(k)
      OBVIOUS
    <3>1. /\ parent[c] \in Copies(k) /\ parent[c] \in Rows
          /\ Rank(c) \in Nat /\ 1 <= Rank(c) /\ Rank(c) # 1 /\ Rank(c) <= earned[parent[c]]
      BY <1>1
    <3>2. earned[parent[c]] \in Nat
      BY <3>1, RowsAreIds DEF TypeOK
    <3>3. 2 <= Rank(c) /\ Rank(c) <= Chances(parent[c])
      BY <3>1, <3>2 DEF Chances
    <3>. QED
      BY <3>1, <3>3 DEF AgainAt, Again, Copies
  <2>3. g \in Injection(Later, AgainAt(k))
    <3>. HIDE DEF g, Later
    <3>. QED
      BY <2>1, <2>2, Fun_IsInj
  <2>. HIDE DEF g, Later
  <2>. QED
    BY <2>3, PartsAreFinite, FS_Injection
<1>4. Copies(k + 1) \subseteq (First \cup Later) \cup HandsAt(k + 1)
  BY DEF Copies, HandsAt
<1>5. /\ IsFiniteSet((First \cup Later) \cup HandsAt(k + 1))
      /\ Cardinality((First \cup Later) \cup HandsAt(k + 1))
           <= Cardinality(First) + Cardinality(Later) + Cardinality(HandsAt(k + 1))
      /\ Cardinality(First) \in Nat /\ Cardinality(Later) \in Nat
  <2>. HIDE DEF First, Later
  <2>1. /\ IsFiniteSet(First \cup Later) /\ Cardinality(First \cup Later) \in Nat
        /\ Cardinality(First) \in Nat /\ Cardinality(Later) \in Nat
        /\ Cardinality(First \cup Later) <= Cardinality(First) + Cardinality(Later)
    BY <1>2, <1>3, JoinedCount
  <2>2. IsFiniteSet(HandsAt(k + 1)) /\ Cardinality(HandsAt(k + 1)) \in Nat
    BY PartsAreFinite
  <2>3. /\ IsFiniteSet((First \cup Later) \cup HandsAt(k + 1))
        /\ Cardinality((First \cup Later) \cup HandsAt(k + 1))
             <= Cardinality(First \cup Later) + Cardinality(HandsAt(k + 1))
        /\ Cardinality((First \cup Later) \cup HandsAt(k + 1)) \in Nat
    BY <2>1, <2>2, JoinedCount
  <2>. QED
    BY <2>1, <2>2, <2>3
<1>6. Cardinality(Copies(k + 1)) <= Cardinality((First \cup Later) \cup HandsAt(k + 1))
  <2>. HIDE DEF First, Later
  <2>. QED
    BY <1>4, <1>5, FS_Subset
<1>7. /\ Cardinality(Copies(k)) \in Nat /\ Cardinality(AgainAt(k)) \in Nat
      /\ Cardinality(HandsAt(k + 1)) \in Nat /\ Cardinality(Copies(k + 1)) \in Nat
      /\ Cardinality((First \cup Later) \cup HandsAt(k + 1)) \in Nat
  BY <1>5, PartsAreFinite, FS_CardinalityType
<1>. HIDE DEF First, Later
<1>. QED
  BY <1>2, <1>3, <1>5, <1>6, <1>7

\* So the copies of a step are the one the chain began with and what was paid for.
LEMMA CopiesArePaid ==
  ASSUME TypeOK, Order, SuccessAccounted, RerunsPaid, Lineage, NEW k \in Nat \ {0}
  PROVE  Cardinality(Copies(k))
           <= 1 + Cardinality(AgainBelow(k)) + Cardinality(HandsUpTo(k))
<1>. DEFINE Bound(n) == Cardinality(Copies(n))
                          <= 1 + Cardinality(AgainBelow(n)) + Cardinality(HandsUpTo(n))
            S == {n \in Nat \ {0} : ~ Bound(n)}
<1>. HIDE DEF Bound
<1>. SUFFICES ASSUME S # {} PROVE FALSE
  BY DEF Bound
<1>1. PICK n \in S : \A m \in S : n <= m
  <2>1. S \subseteq Nat
    OBVIOUS
  <2>. HIDE DEF S
  <2>. QED
    BY <2>1, LeastExists
<1>2. n \in Nat \ {0} /\ ~ Bound(n)
  OBVIOUS
<1>3. CASE n = 1
  <2>1. Copies(1) \subseteq {1}
    BY DEF Copies, Lineage
  <2>2. IsFiniteSet({1}) /\ Cardinality({1}) = 1
    BY FS_Singleton
  <2>3. Cardinality(Copies(1)) <= 1
    <3>. HIDE DEF Copies
    <3>. QED
      BY <2>1, <2>2, FS_Subset
  <2>4. /\ Cardinality(Copies(1)) \in Nat /\ Cardinality(AgainBelow(1)) \in Nat
        /\ Cardinality(HandsUpTo(1)) \in Nat
    BY PartsAreFinite
  <2>. QED
    BY <1>2, <1>3, <2>3, <2>4 DEF Bound
<1>4. CASE n # 1
  <2>1. PICK m \in Nat \ {0} : n = m + 1
    <3>1. n - 1 \in Nat \ {0} /\ n = (n - 1) + 1
      BY <1>2, <1>4
    <3>. QED
      BY <3>1
  <2>2. Bound(m)
    <3>1. m \notin S
      BY <1>1, <2>1
    <3>. QED
      BY <3>1
  <2>3. Cardinality(Copies(m + 1))
          <= Cardinality(Copies(m)) + Cardinality(AgainAt(m)) + Cardinality(HandsAt(m + 1))
    BY CopiesOfNext
  <2>4. Cardinality(AgainBelow(m + 1)) = Cardinality(AgainBelow(m)) + Cardinality(AgainAt(m))
    <3>1. \A p \in Again : step[p[1]] \in Nat
      BY RowsAreIds DEF Again, TypeOK
    <3>2. /\ AgainBelow(m + 1) = AgainBelow(m) \cup AgainAt(m)
          /\ AgainBelow(m) \cap AgainAt(m) = {}
      BY <3>1 DEF AgainBelow, AgainAt
    <3>. QED
      BY <3>2, PartsAreFinite, JoinedCount
  <2>5. Cardinality(HandsUpTo(m + 1)) = Cardinality(HandsUpTo(m)) + Cardinality(HandsAt(m + 1))
    <3>1. \A c \in byHand : step[c] \in Nat
      BY ChainAssumption DEF TypeOK
    <3>2. /\ HandsUpTo(m + 1) = HandsUpTo(m) \cup HandsAt(m + 1)
          /\ HandsUpTo(m) \cap HandsAt(m + 1) = {}
      BY <3>1 DEF HandsUpTo, HandsAt
    <3>. QED
      BY <3>2, PartsAreFinite, JoinedCount
  <2>6. /\ Cardinality(Copies(m)) \in Nat /\ Cardinality(Copies(m + 1)) \in Nat
        /\ Cardinality(AgainAt(m)) \in Nat /\ Cardinality(HandsAt(m + 1)) \in Nat
        /\ Cardinality(AgainBelow(m)) \in Nat /\ Cardinality(HandsUpTo(m)) \in Nat
    BY PartsAreFinite
  <2>7. Bound(m + 1)
    BY <2>2, <2>3, <2>4, <2>5, <2>6 DEF Bound
  <2>. QED
    BY <1>2, <2>1, <2>7
<1>. QED
  BY <1>3, <1>4

\* A step has as many copies as reruns of succeeded jobs and resumes explain, however
\* many successes, halts, errors and crashes there were.
THEOREM CopiesAreExplained == Spec => []CopiesExplained
<1>1. TypeOK /\ Order /\ SuccessAccounted /\ RerunsPaid /\ HandsPaid /\ Lineage
        => CopiesExplained
  <2>. SUFFICES ASSUME TypeOK, Order, SuccessAccounted, RerunsPaid, HandsPaid, Lineage,
                       NEW k \in 1..MaxLength
                PROVE  Cardinality(Copies(k)) <= 1 + resumes + rewrites
    BY DEF CopiesExplained, Copies
  <2>1. k \in Nat \ {0}
    OBVIOUS
  <2>2. Cardinality(AgainBelow(k)) <= rewrites
    <3>1. AgainBelow(k) \subseteq Again
      BY DEF AgainBelow
    <3>2. IsFiniteSet(Again) /\ Cardinality(Again) <= rewrites /\ Cardinality(Again) \in Nat
      BY FS_CardinalityType DEF RerunsPaid
    <3>. HIDE DEF Again, AgainBelow
    <3>3. Cardinality(AgainBelow(k)) <= Cardinality(Again)
      BY <3>1, <3>2, FS_Subset
    <3>. QED
      BY <3>2, <3>3, PartsAreFinite DEF TypeOK
  <2>3. Cardinality(HandsUpTo(k)) <= resumes
    <3>1. HandsUpTo(k) \subseteq byHand
      BY DEF HandsUpTo
    <3>2. IsFiniteSet(byHand) /\ Cardinality(byHand) <= resumes /\ Cardinality(byHand) \in Nat
      BY FS_CardinalityType DEF HandsPaid
    <3>. HIDE DEF HandsUpTo
    <3>3. Cardinality(HandsUpTo(k)) <= Cardinality(byHand)
      BY <3>1, <3>2, FS_Subset
    <3>. QED
      BY <3>2, <3>3, PartsAreFinite DEF TypeOK
  <2>4. /\ Cardinality(Copies(k)) \in Nat /\ Cardinality(AgainBelow(k)) \in Nat
        /\ Cardinality(HandsUpTo(k)) \in Nat /\ resumes \in Nat /\ rewrites \in Nat
    BY PartsAreFinite DEF TypeOK
  <2>. QED
    BY <2>1, <2>2, <2>3, <2>4, CopiesArePaid
<1>. QED
  BY <1>1, Types, OrderHolds, SuccessesAreAccounted, PaidHolds, PTL

-----------------------------------------------------------------------------
(* Chain implements ChainPromise.                                           *)

\* What the rows show of the promise, as Promise maps it.
Started == {step[j] : j \in Rows}
Passed  == {step[j] : j \in {i \in Rows : earned[i] > 0}}

PromiseStep == [Promise!PromiseNext]_(Promise!promiseVars)

\* A new row starts the step it was made for, and passes nothing.
LEMMA Starting ==
  ASSUME TypeOK, Order, NEW k \in 1..MaxLength, NEW d \in Nat, NEW f \in 0..MaxJobs,
         CreateJob(k, d, f), earned' = earned
  PROVE  Started' = Started \cup {k} /\ Passed' = Passed
<1>1. /\ Rows' = Rows \cup {made + 1} /\ step'[made + 1] = k /\ made + 1 \notin Rows
      /\ made + 1 \in Ids
      /\ \A i \in Ids \ {made + 1} : step'[i] = step[i]
  BY NewRow
<1>2. Rows \subseteq Ids
  BY ChainAssumption DEF TypeOK, Rows, Ids
<1>3. \A i \in Rows : step'[i] = step[i]
  BY <1>1, <1>2
<1>4. earned[made + 1] = 0
  BY <1>1 DEF Order, Unborn
<1>5. Started' = Started \cup {k}
  BY <1>1, <1>3 DEF Started
<1>6. {i \in Rows' : earned'[i] > 0} = {i \in Rows : earned[i] > 0}
  BY <1>1, <1>4
<1> QED
  BY <1>3, <1>5, <1>6 DEF Passed

LEMMA StepOfPromise ==
  ASSUME TypeOK, Order, [Next]_vars
  PROVE  PromiseStep
<1>0. Rows \subseteq Ids /\ MaxLength \in Nat
  BY ChainAssumption DEF TypeOK, Rows, Ids
<1> SUFFICES \/ /\ Started = {} /\ Started' = {1} /\ Passed' = Passed /\ resumes' = resumes
             \/ \E k \in 1..MaxLength :
                  \/ /\ k \in Started /\ Started' = Started /\ Passed' = Passed \cup {k}
                     /\ resumes' = resumes
                  \/ /\ k \in Passed /\ k < MaxLength /\ Started' = Started \cup {k + 1}
                     /\ Passed' = Passed /\ resumes' = resumes
                  \/ /\ k \in Started /\ k < MaxLength /\ Started' = Started \cup {k + 1}
                     /\ Passed' = Passed /\ resumes' = resumes + 1
             \/ Started' = Started /\ Passed' = Passed /\ resumes' = resumes
  BY DEF PromiseStep, Promise!PromiseNext, Promise!promiseVars, Promise!Begin, Promise!Pass,
         Promise!Advance, Promise!Resume, Started, Passed
<1>1. CASE DispatchChainFile
  <2>1. /\ CreateJob(1, 0, 0) /\ 1 \in 1..MaxLength /\ 0 \in Nat /\ 0 \in 0..MaxJobs
        /\ made = 0 /\ earned' = earned /\ resumes' = resumes
    BY <1>1, ChainAssumption DEF DispatchChainFile, boundVars
  <2>2. Started = {}
    BY <2>1 DEF Started, Rows
  <2>3. Started' = Started \cup {1} /\ Passed' = Passed
    BY <2>1, Starting
  <2> QED
    BY <2>1, <2>2, <2>3
<1>2. ASSUME NEW j \in Ids, ResumeChain(j)
      PROVE  \E k \in 1..MaxLength :
               /\ k \in Started /\ k < MaxLength /\ Started' = Started \cup {k + 1}
               /\ Passed' = Passed /\ resumes' = resumes + 1
  <2>1. /\ CreateJob(step[j] + 1, depth[j] + 1, j) /\ Dispatchable(j) /\ j \in Rows
        /\ earned' = earned /\ resumes' = resumes + 1
    BY <1>2 DEF ResumeChain
  <2>2. /\ step[j] + 1 \in 1..MaxLength /\ depth[j] + 1 \in Nat /\ j \in 0..MaxJobs
    BY <2>1, ChildIsTyped
  <2>3. Started' = Started \cup {step[j] + 1} /\ Passed' = Passed
    BY <2>1, <2>2, Starting
  <2>4. step[j] \in Started /\ step[j] \in 1..MaxLength /\ step[j] < MaxLength
    BY <1>0, <2>1, <2>2 DEF Started, TypeOK
  <2> QED
    BY <2>1, <2>3, <2>4
<1>3. ASSUME NEW j \in Ids, DispatchNext(j)
      PROVE  \E k \in 1..MaxLength :
               /\ k \in Passed /\ k < MaxLength /\ Started' = Started \cup {k + 1}
               /\ Passed' = Passed /\ resumes' = resumes
  <2>1. /\ CreateJob(step[j] + 1, depth[j] + 1, j) /\ Dispatchable(j)
        /\ earned' = earned /\ resumes' = resumes
    BY <1>3 DEF DispatchNext, boundVars
  <2>2. j \in Rows /\ earned[j] > 0
    BY <1>3 DEF DispatchNext, Order, Unborn, AfterSuccess
  <2>3. /\ step[j] + 1 \in 1..MaxLength /\ depth[j] + 1 \in Nat /\ j \in 0..MaxJobs
    BY <2>1, ChildIsTyped
  <2>4. Started' = Started \cup {step[j] + 1} /\ Passed' = Passed
    BY <2>1, <2>3, Starting
  <2>5. step[j] \in Passed /\ step[j] \in 1..MaxLength /\ step[j] < MaxLength
    BY <1>0, <2>2, <2>3 DEF Passed, TypeOK
  <2> QED
    BY <2>1, <2>4, <2>5
<1>4. CASE Grown
  <2>1. ASSUME NEW j \in Ids, CommitSuccess(j)
        PROVE  \E k \in 1..MaxLength :
                 /\ k \in Started /\ Started' = Started /\ Passed' = Passed \cup {k}
                 /\ resumes' = resumes
    <3>1. j \in Rows /\ step[j] \in 1..MaxLength /\ step[j] \in Started
      BY <1>0, <2>1 DEF CommitSuccess, Order, Unborn, Started, TypeOK
    <3>2. /\ earned'[j] > 0 /\ resumes' = resumes
          /\ \A i \in Ids \ {j} : earned'[i] = earned[i]
      BY <2>1 DEF CommitSuccess, boundVars, TypeOK
    <3>3. {i \in Rows' : earned'[i] > 0} = {i \in Rows : earned[i] > 0} \cup {j}
      BY <1>0, <1>4, <3>1, <3>2 DEF Grown
    <3>4. Passed' = Passed \cup {step[j]}
      BY <1>4, <3>3 DEF Grown, Passed
    <3>5. Started' = Started
      BY <1>4 DEF Grown, Started
    <3> QED
      BY <3>1, <3>2, <3>4, <3>5
  <2>2. ASSUME DispatchChainFile \/ \E j \in Ids : ResumeChain(j) \/ DispatchNext(j)
        PROVE FALSE
    <3>1. made' = made + 1 /\ made \in Nat
      BY <2>2 DEF DispatchChainFile, ResumeChain, DispatchNext, CreateJob, TypeOK
    <3>2. made + 1 \in Rows' /\ made + 1 \notin Rows
      BY <3>1 DEF Rows
    <3> QED
      BY <1>4, <3>2 DEF Grown
  <2>3. CASE earned' = earned /\ resumes' = resumes
    BY <1>4, <2>3 DEF Grown, Started, Passed
  <2>4. ASSUME DaemonStarts \/ DaemonEnds \/ (\E k \in 1..MaxLength : RegisterRepo(k))
               \/ (\E j \in Ids : \/ Runs(j) \/ Requeued(j) \/ Fails(j) \/ Rewritten(j)
                                  \/ ChainHalts(j) \/ InsertRaises(j) \/ SuccessRefused(j))
               \/ UNCHANGED vars
        PROVE earned' = earned /\ resumes' = resumes
    BY <2>4 DEF DaemonStarts, DaemonEnds, RegisterRepo, Runs, Requeued, Fails, Rewritten,
                ChainHalts, InsertRaises, SuccessRefused, vars, boundVars
  <2> QED
    BY <2>1, <2>2, <2>3, <2>4 DEF Next, Ends, Dispatch
<1> QED
  BY <1>1, <1>2, <1>3, <1>4, GrowsOrNot

\* Every step of the threads, the CLI or the process is a step of the promise or
\* leaves what it shows unchanged.
THEOREM Refinement == Spec => KeepsPromise
<1>1. Init => Promise!PromiseInit
  BY DEF Init, Promise!PromiseInit, Rows
<1>2. TypeOK /\ Order /\ [Next]_vars => PromiseStep
  BY StepOfPromise
<1> QED
  BY <1>1, <1>2, Types, OrderHolds, PTL DEF Spec, KeepsPromise, Promise!PromiseSpec, PromiseStep
=============================================================================
