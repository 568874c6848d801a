--------------------------- MODULE LifecycleProofs ---------------------------
(***************************************************************************)
(* Proofs about Lifecycle: types, and how many daemons, and daemons that   *)
(* daemon.pid does not name, commands that cross can make, for any number  *)
(* of process ids, callers, crossings, stops, crashes and reused ids.      *)
(***************************************************************************)
EXTENDS Lifecycle, FiniteSetTheorems, TLAPS

\* A stop sends its signal to a process id.
SignalsPid == \A c \in Callers : at[c] = "signal" => got[c] \in Pids

Typed == TypeOK /\ SignalsPid

LEMMA TypedAtFirst == Init => Typed
BY LifecycleAssumption
DEF Init, Typed, SignalsPid, TypeOK, ProcStates, Contents, Activities

LEMMA TypedIsKept ==
  ASSUME Typed, [Next]_vars
  PROVE  Typed'
<1> USE LifecycleAssumption
    DEF Typed, SignalsPid, TypeOK, ProcStates, DaemonPlaces, Contents, Activities, CommandNames
<1>1. ASSUME NEW c \in Callers, NEW name \in CommandNames, Begin(c, name) PROVE Typed'
  BY <1>1 DEF Begin, osVars, fileVars
<1>2. ASSUME NEW c \in Callers, LookForFile(c) PROVE Typed'
  BY <1>2 DEF LookForFile, FoundNobody, Finish, osVars, fileVars, boundVars
<1>3. ASSUME NEW c \in Callers, ReadFile(c) PROVE Typed'
  BY <1>3 DEF ReadFile, Finish, osVars, fileVars, boundVars
<1>4. ASSUME NEW c \in Callers, Probe(c) PROVE Typed'
  BY <1>4 DEF Probe, Answers, FoundOne, Finish, osVars, fileVars, boundVars
<1>5. ASSUME NEW c \in Callers, UnlinkStale(c) PROVE Typed'
  BY <1>5 DEF UnlinkStale, Unlink, FoundNobody, Finish, osVars, boundVars
<1>6. ASSUME NEW c \in Callers, Signal(c) PROVE Typed'
  <2>1. proc' \in [Pids -> ProcStates] /\ signalled' \in SUBSET Pids
    BY <1>6 DEF Signal, osVars
  <2>2. handles' \in SUBSET Pids
    BY <1>6 DEF Signal
  <2>3. CASE proc[got[c]] \in {"free", "foreign"}
    BY <1>6, <2>1, <2>2, <2>3 DEF Signal, Finish, boundVars
  <2>4. CASE proc[got[c]] \notin {"free", "foreign"}
    BY <1>6, <2>1, <2>2, <2>4 DEF Signal, boundVars
  <2> QED
    BY <2>3, <2>4
<1>7. ASSUME NEW c \in Callers, GiveUp(c) PROVE Typed'
  BY <1>7 DEF GiveUp, Finish, osVars, fileVars, boundVars
<1>8. ASSUME NEW c \in Callers, NEW p \in Pids, Fork(c, p) PROVE Typed'
  BY <1>8 DEF Fork, Finish, fileVars, boundVars
<1>9. ASSUME NEW p \in Pids, DaemonStep(p) PROVE Typed'
  BY <1>9 DEF DaemonStep, OpenFile, WritePid, SetupSignals, EnterLoop, LeaveLoop,
              RemovePid, Unlink, fileVars, callVars, boundVars
<1>10. ASSUME NEW p \in Pids, Dies(p) PROVE Typed'
  BY <1>10 DEF Dies, callVars
<1>11. ASSUME NEW p \in Pids, StrangerAppears(p) \/ StrangerLeaves(p) PROVE Typed'
  BY <1>11 DEF StrangerAppears, StrangerLeaves, fileVars, callVars, boundVars
<1>12. CASE UNCHANGED vars
  BY <1>12 DEF vars, osVars, fileVars, callVars, boundVars
<1> QED
  BY <1>1, <1>2, <1>3, <1>4, <1>5, <1>6, <1>7, <1>8, <1>9, <1>10, <1>11, <1>12
  DEF Next, CommandStep

\* Every variable keeps its type, however commands cross.
THEOREM Types == Spec => []TypeOK
<1>1. Typed => TypeOK
  BY DEF Typed
<1> QED
  BY <1>1, TypedAtFirst, TypedIsKept, PTL DEF Spec

-----------------------------------------------------------------------------
(* The inductive invariant: a balance of daemons and commands.              *)

Active == {c \in Callers : command[c] # None}

\* A daemon is about to give the file its id.
Birth == \E p \in Pids : proc[p] = "born" \/ (proc[p] = "opened" /\ p \in handles)

\* The next command finds a daemon through the file, now or once it is written.
Named == Birth \/ file \in Daemons

\* The command believes that no daemon lives, or is about to.
Misled(c) == at[c] \in {"unlink", "fork"} \/ (at[c] = "probe" /\ got[c] # file)

One(b) == IF b THEN 1 ELSE 0
Load == Cardinality(Daemons) + Cardinality(Active)
Allowance == crossings + One(Named) + One(Active # {})
Spare == Load + 1 <= Allowance

\* Daemons and commands are never more than the allowance, and where a misled
\* command can still do harm to a daemon that is named, one less.
Inv ==
  /\ \A c \in Callers : at[c] # "idle" => command[c] # None
  /\ Load <= Allowance
  /\ Named /\ (\E c \in Callers : Misled(c)) => Spare
  /\ Birth /\ Active # {} => Spare

LEMMA Counts ==
  ASSUME TypeOK
  PROVE  /\ IsFiniteSet(Daemons) /\ Cardinality(Daemons) \in Nat
         /\ IsFiniteSet(Active) /\ Cardinality(Active) \in Nat
         /\ crossings \in Nat /\ Load \in Nat /\ Allowance \in Nat
         /\ \A b \in BOOLEAN : One(b) \in {0, 1}
         /\ Named \in BOOLEAN /\ Birth \in BOOLEAN
<1>1. IsFiniteSet(Daemons) /\ Cardinality(Daemons) \in Nat
  BY LifecycleAssumption, FS_Subset, FS_CardinalityType DEF Daemons
<1>2. IsFiniteSet(Active) /\ Cardinality(Active) \in Nat
  BY LifecycleAssumption, FS_Subset, FS_CardinalityType DEF Active
<1>3. crossings \in Nat
  BY LifecycleAssumption DEF TypeOK
<1>4. Load \in Nat
  BY <1>1, <1>2 DEF Load
<1>5. One(Named) \in Nat /\ One(Active # {}) \in Nat
  BY DEF One
<1>6. Allowance \in Nat
  BY <1>3, <1>5 DEF Allowance
<1> QED
  BY <1>1, <1>2, <1>3, <1>4, <1>6 DEF One, Named, Birth

LEMMA InvHoldsAtFirst == Init => Inv
<1> SUFFICES ASSUME Init PROVE Inv
  OBVIOUS
<1>1. Daemons = {} /\ Active = {}
  BY DEF Init, Daemons, DaemonPlaces, Active
<1>2. Load = 0
  BY <1>1, FS_EmptySet DEF Load
<1>3. ~ Named /\ ~ Birth
  BY <1>1 DEF Named, Birth, Init
<1>4. Allowance = 0
  BY <1>1, <1>3 DEF Allowance, One, Init
<1> QED
  BY <1>1, <1>2, <1>3, <1>4 DEF Init, Inv

\* A command ends: the load falls by one, the allowance by one at most.
LEMMA CommandEnds ==
  ASSUME TypeOK, NEW c \in Active, Active' = Active \ {c}
  PROVE  Cardinality(Active') + 1 - One(Active' # {}) <= Cardinality(Active)
         /\ Cardinality(Active') = Cardinality(Active) - 1
<1>1. Cardinality(Active') = Cardinality(Active) - 1
  BY Counts, FS_RemoveElement
<1> QED
  BY <1>1, Counts DEF One

\* The daemons, the file and the count of crossings stay; a command goes on or
\* ends.  It may become misled only with the means it has.
LEMMA OnlyCommandsMove ==
  ASSUME TypeOK, TypeOK', Inv, UNCHANGED <<proc, file, handles, crossings>>,
         NEW c \in Active, Active' = Active \/ Active' = Active \ {c},
         \A d \in Callers : at'[d] # "idle" => command'[d] # None,
         \A d \in Callers : d # c => at'[d] = at[d] /\ got'[d] = got[d],
         Named /\ (at'[c] \in {"unlink", "fork"} \/ (at'[c] = "probe" /\ got'[c] # file))
           => Spare
  PROVE  Inv'
<1> USE DEF Load, Allowance, Spare
<1>1. Daemons' = Daemons /\ (Birth' <=> Birth) /\ (Named' <=> Named)
  BY DEF Daemons, Birth, Named
<1>2. One(Named') = One(Named)
  BY <1>1 DEF One
<1>3. Active # {}
  OBVIOUS
<1>4. Cardinality(Active') - One(Active' # {}) <= Cardinality(Active) - One(Active # {})
  <2>1. CASE Active' = Active
    BY <2>1, Counts DEF One
  <2>2. CASE Active' = Active \ {c}
    <3>1. One(Active # {}) = 1
      BY <1>3 DEF One
    <3>2. Cardinality(Active') + 1 - One(Active' # {}) <= Cardinality(Active)
          /\ Cardinality(Active') = Cardinality(Active) - 1
      BY <2>2, CommandEnds
    <3>3. One(Active' # {}) \in {0, 1}
      BY DEF One
    <3> QED
      BY <3>1, <3>2, <3>3, Counts
  <2> QED
    BY <2>1, <2>2
<1>5. One(Active # {}) \in {0, 1} /\ One(Active' # {}) \in {0, 1} /\ Cardinality(Active') \in Nat
      /\ One(Named) \in {0, 1}
  BY Counts, <1>4, FS_RemoveElement, FS_CardinalityType DEF One
<1>6. Load' <= Allowance'
  BY <1>1, <1>2, <1>4, <1>5, Counts DEF Inv
<1>7. Spare => Spare'
  BY <1>1, <1>2, <1>4, <1>5, Counts
<1>8. ASSUME Named', NEW d \in Callers, Misled(d)' PROVE Spare
  BY <1>1, <1>8 DEF Inv, Misled
<1> QED
  BY <1>1, <1>3, <1>6, <1>7, <1>8 DEF Inv

\* The commands stay, and a daemon ends or goes on; only one that is being born
\* gives the file another id.
LEMMA OnlyDaemonsEnd ==
  ASSUME TypeOK, TypeOK', Inv, UNCHANGED <<command, at, got, crossings>>,
         file' = file \/ file' \notin Pids \/ Birth, Birth' => Birth,
         NEW p \in Daemons,
         \/ Daemons' = Daemons \ {p}
         \/ Daemons' = Daemons /\ (Named' <=> Named)
  PROVE  Inv'
<1> USE DEF Load, Allowance, Spare
<1>1. Active' = Active
  BY DEF Active
<1>2. One(Named) \in {0, 1} /\ One(Named') \in {0, 1} /\ One(Active # {}) \in {0, 1}
  BY DEF One
<1>3. One(Active' # {}) = One(Active # {})
  BY <1>1
<1>4. Daemons' = Daemons \ {p} => Cardinality(Daemons') = Cardinality(Daemons) - 1
  BY Counts, FS_RemoveElement
<1>5. Cardinality(Daemons') - One(Named') <= Cardinality(Daemons) - One(Named)
  <2>1. CASE Daemons' = Daemons \ {p}
    BY <2>1, <1>2, <1>4, Counts
  <2>2. CASE Daemons' = Daemons /\ (Named' <=> Named)
    BY <2>2, Counts DEF One
  <2> QED
    BY <2>1, <2>2
<1>6. Cardinality(Daemons') \in Nat
  BY <1>4, Counts, FS_RemoveElement, FS_CardinalityType
<1>7. Load' <= Allowance'
  BY <1>1, <1>2, <1>3, <1>5, <1>6, Counts DEF Inv
<1>8. Spare => Spare'
  BY <1>1, <1>2, <1>3, <1>5, <1>6, Counts
<1>9. Birth' /\ Active' # {} => Spare
  BY <1>1 DEF Inv
<1>10. ASSUME Named', NEW d \in Callers, Misled(d)' PROVE Spare
  <2>1. d \in Active
    BY <1>10 DEF Misled, Inv, Active
  <2>2. CASE Birth
    BY <2>1, <2>2 DEF Inv
  <2>3. CASE ~ Birth
    <3>1. file' \in Daemons' /\ file' = file /\ file \in Daemons
      BY <1>10, <2>3 DEF Named, Daemons
    <3>2. Named /\ Misled(d)
      BY <1>10, <3>1 DEF Named, Misled
    <3> QED
      BY <3>2 DEF Inv
  <2> QED
    BY <2>2, <2>3
<1> QED
  BY <1>1, <1>7, <1>8, <1>9, <1>10 DEF Inv

LEMMA InvIsKept ==
  ASSUME Typed, Inv, [Next]_vars
  PROVE  Inv'
<1> USE LifecycleAssumption
<1>0. TypeOK /\ TypeOK'
  BY TypedIsKept DEF Typed
<1> USE DEF Load, Allowance, Spare
<1>1. ASSUME NEW c \in Callers, NEW name \in CommandNames, Begin(c, name) PROVE Inv'
  <2>1. UNCHANGED <<proc, file, handles, got>> /\ c \notin Active
    BY <1>1 DEF Begin, osVars, fileVars, Active
  <2>2. Active' = Active \cup {c}
    BY <1>0, <1>1 DEF Begin, Active, CommandNames, TypeOK
  <2>3. Cardinality(Active') = Cardinality(Active) + 1 /\ One(Active' # {}) = 1
    BY <1>0, <2>1, <2>2, Counts, FS_AddElement DEF One
  <2>4. Daemons' = Daemons /\ (Birth' <=> Birth) /\ (Named' <=> Named) /\ One(Named') = One(Named)
    BY <2>1 DEF Daemons, Birth, Named, One
  <2>5. One(Named) \in {0, 1} /\ One(Active # {}) \in {0, 1}
    BY DEF One
  <2>6. \A d \in Callers : Misled(d)' => Misled(d)
    BY <1>0, <1>1, <2>1 DEF Begin, Misled, TypeOK
  <2>7. \A d \in Callers : at'[d] # "idle" => command'[d] # None
    BY <1>0, <1>1 DEF Begin, Inv, CommandNames, TypeOK
  <2>8. CASE Quiet
    <3>1. Active = {} /\ ~ Birth /\ crossings' = crossings
      BY <1>1, <2>8 DEF Quiet, Active, Birth, Begin
    <3>2. One(Active # {}) = 0
      BY <3>1 DEF One
    <3>3. Load' <= Allowance'
      BY <1>0, <2>3, <2>4, <2>5, <3>1, <3>2, Counts DEF Inv
    <3>4. \A d \in Callers : ~ Misled(d)'
      BY <2>6, <3>1 DEF Misled, Active, Inv
    <3> QED
      BY <2>4, <2>7, <3>1, <3>3, <3>4 DEF Inv
  <2>9. CASE ~ Quiet
    <3>1. crossings' = crossings + 1
      BY <1>1, <2>9 DEF Begin
    <3>2. Load' <= Allowance' /\ (Spare => Spare')
      BY <1>0, <2>3, <2>4, <2>5, <3>1, Counts DEF Inv
    <3>3. Birth => Spare'
      <4>1. CASE Active # {}
        BY <3>2, <4>1 DEF Inv
      <4>2. CASE Active = {}
        <5>1. One(Active # {}) = 0
          BY <4>2 DEF One
        <5> QED
          BY <1>0, <2>3, <2>4, <2>5, <3>1, <5>1, Counts DEF Inv
      <4> QED
        BY <4>1, <4>2
    <3> QED
      BY <2>4, <2>6, <2>7, <3>2, <3>3 DEF Inv
  <2> QED
    BY <2>8, <2>9
<1>2. ASSUME NEW c \in Callers, LookForFile(c) \/ ReadFile(c) \/ Probe(c) \/ GiveUp(c)
      PROVE  Inv'
  <2>1. UNCHANGED <<proc, file, handles, crossings>>
    BY <1>2 DEF LookForFile, ReadFile, Probe, GiveUp, osVars, fileVars, boundVars
  <2>2. c \in Active
    BY <1>2 DEF Inv, Active, LookForFile, ReadFile, Probe, GiveUp
  <2>3. /\ command'[c] = None \/ command'[c] = command[c]
        /\ command'[c] = None => at'[c] = "idle"
        /\ \A d \in Callers : d # c => command'[d] = command[d] /\ at'[d] = at[d] /\ got'[d] = got[d]
    BY <1>0, <1>2, <2>2
    DEF LookForFile, ReadFile, Probe, GiveUp, FoundNobody, FoundOne, Finish, TypeOK, Active
  <2>4. Active' = Active \/ Active' = Active \ {c}
    BY <2>2, <2>3 DEF Active
  <2>5. \A d \in Callers : at'[d] # "idle" => command'[d] # None
    BY <2>2, <2>3 DEF Inv, Active
  <2>6. at'[c] = "probe" => got'[c] = file
    BY <1>0, <1>2 DEF LookForFile, ReadFile, Probe, GiveUp, FoundNobody, FoundOne, Finish, TypeOK
  <2>7. ASSUME Named, at'[c] \in {"unlink", "fork"} PROVE Spare
    <3>1. CASE LookForFile(c)
      <4>1. file = None
        BY <1>0, <2>7, <3>1 DEF LookForFile, FoundNobody, Finish, TypeOK
      <4>2. Birth
        BY <2>7, <4>1 DEF Named, Daemons
      <4> QED
        BY <2>2, <4>2 DEF Inv
    <3>2. CASE Probe(c)
      <4>1. ~ Answers(got[c])
        BY <1>0, <2>7, <3>2 DEF Probe, FoundOne, Finish, TypeOK
      <4>2. CASE got[c] = file
        BY <2>2, <2>7, <4>1, <4>2 DEF Named, Answers, Daemons, Inv
      <4>3. CASE got[c] # file
        BY <2>7, <3>2, <4>3 DEF Probe, Misled, Inv
      <4> QED
        BY <4>2, <4>3
    <3>3. CASE ReadFile(c) \/ GiveUp(c)
      BY <1>0, <2>7, <3>3 DEF ReadFile, GiveUp, Finish, TypeOK
    <3> QED
      BY <1>2, <3>1, <3>2, <3>3
  <2> QED
    BY <1>0, <2>1, <2>2, <2>3, <2>4, <2>5, <2>6, <2>7, OnlyCommandsMove
<1>3. ASSUME NEW c \in Callers, UnlinkStale(c) PROVE Inv'
  <2>1. /\ UNCHANGED <<proc, crossings>> /\ file' = None /\ handles' = {}
        /\ c \in Active /\ Misled(c)
    BY <1>3 DEF UnlinkStale, Unlink, osVars, boundVars, Active, Inv, Misled
  <2>2. /\ command'[c] = None \/ command'[c] = command[c]
        /\ command'[c] = None => at'[c] = "idle"
        /\ at'[c] # "probe"
        /\ \A d \in Callers : d # c => command'[d] = command[d] /\ at'[d] = at[d] /\ got'[d] = got[d]
    BY <1>0, <1>3, <2>1 DEF UnlinkStale, FoundNobody, Finish, TypeOK, Active
  <2>3. Active' = Active \/ Active' = Active \ {c}
    BY <2>1, <2>2 DEF Active
  <2>4. \A d \in Callers : at'[d] # "idle" => command'[d] # None
    BY <2>1, <2>2 DEF Inv, Active
  <2>5. Daemons' = Daemons /\ (Birth' => Birth) /\ (Named' <=> Birth')
    BY <2>1 DEF Daemons, Birth, Named
  <2>6. One(Named) \in {0, 1} /\ One(Named') \in {0, 1} /\ One(Active # {}) = 1
        /\ One(Active' # {}) \in {0, 1}
    BY <2>1 DEF One
  <2>7. Cardinality(Active') - One(Active' # {}) <= Cardinality(Active) - 1
        /\ Cardinality(Active') \in Nat
    <3>1. CASE Active' = Active
      BY <1>0, <2>6, <3>1, Counts
    <3>2. CASE Active' = Active \ {c}
      <4>1. Cardinality(Active') = Cardinality(Active) - 1 /\ Cardinality(Active') \in Nat
        BY <1>0, <2>1, <3>2, Counts, FS_RemoveElement, FS_CardinalityType
      <4> QED
        BY <1>0, <2>6, <4>1, Counts
    <3> QED
      BY <2>3, <3>1, <3>2
  <2>8. Named => Spare
    BY <2>1 DEF Inv
  <2>9. /\ Cardinality(Daemons') = Cardinality(Daemons) /\ Cardinality(Daemons) \in Nat
        /\ Cardinality(Active) \in Nat /\ crossings \in Nat /\ crossings' = crossings
    BY <1>0, <2>1, <2>5, Counts
  <2>10. Load' <= Allowance'
    <3>1. CASE Named
      <4>1. Spare
        BY <2>8, <3>1
      <4> QED
        BY <2>6, <2>7, <2>9, <4>1
    <3>2. CASE ~ Named
      <4>1. One(Named) = 0
        BY <3>2 DEF One
      <4> QED
        BY <2>9, <2>6, <2>7, <4>1 DEF Inv
    <3> QED
      BY <3>1, <3>2
  <2>11. ASSUME Birth' PROVE Spare'
    <3>1. Named
      BY <2>5, <2>11 DEF Named
    <3>2. One(Named) = 1 /\ One(Named') = 1
      BY <2>5, <2>11, <3>1 DEF One
    <3>3. Spare
      BY <2>8, <3>1
    <3> QED
      BY <2>6, <2>7, <2>9, <3>2, <3>3
  <2> QED
    BY <2>4, <2>5, <2>10, <2>11 DEF Inv
<1>4. ASSUME NEW c \in Callers, NEW p \in Pids, Fork(c, p) PROVE Inv'
  <2>1. /\ UNCHANGED <<file, handles, crossings>> /\ c \in Active /\ Misled(c) /\ p \notin Daemons
        /\ proc' = [proc EXCEPT ![p] = "born"]
    BY <1>4 DEF Fork, fileVars, boundVars, Active, Inv, Misled, Daemons, DaemonPlaces
  <2>2. /\ command'[c] = None /\ at'[c] = "idle"
        /\ \A d \in Callers : d # c => command'[d] = command[d] /\ at'[d] = at[d] /\ got'[d] = got[d]
    BY <1>0, <1>4 DEF Fork, Finish, TypeOK
  <2>3. Active' = Active \ {c} /\ Daemons' = Daemons \cup {p} /\ Birth' /\ Named'
    BY <1>0, <2>1, <2>2 DEF Active, Daemons, DaemonPlaces, Birth, Named, TypeOK
  <2>4. /\ Cardinality(Active') = Cardinality(Active) - 1
        /\ Cardinality(Daemons') = Cardinality(Daemons) + 1
    BY <1>0, <2>1, <2>3, Counts, FS_AddElement, FS_RemoveElement
  <2>5. One(Named') = 1 /\ One(Active # {}) = 1 /\ One(Active' # {}) \in {0, 1}
        /\ One(Named) \in {0, 1}
    BY <2>1, <2>3 DEF One
  <2>6. Named => Spare
    BY <2>1 DEF Inv
  <2>7. ~ Named => One(Named) = 0
    BY DEF One
  <2>8. Load' <= Allowance'
    BY <1>0, <2>1, <2>4, <2>5, <2>6, <2>7, Counts DEF Inv
  <2>9. Active' # {} => Spare'
    <3>1. Active' # {} => One(Active' # {}) = 1
      BY DEF One
    <3> QED
      BY <1>0, <2>1, <2>4, <2>5, <2>6, <2>7, <3>1, Counts DEF Inv
  <2>10. \A d \in Callers : at'[d] # "idle" => command'[d] # None
    BY <2>2 DEF Inv
  <2>11. \A d \in Callers : Misled(d)' => d \in Active'
    BY <2>10 DEF Misled, Active
  <2> QED
    BY <2>8, <2>9, <2>10, <2>11 DEF Inv
<1>5. ASSUME NEW c \in Callers, Signal(c) PROVE Inv'
  <2>1. /\ UNCHANGED <<file, crossings>> /\ c \in Active /\ got[c] \in Pids
        /\ handles' \subseteq handles
    BY <1>5 DEF Signal, Typed, SignalsPid, boundVars, Active, Inv
  <2>2. \A q \in Pids : proc'[q] # proc[q] => q = got[c] /\ proc'[q] = "free"
    <3>1. CASE proc[got[c]] \in {"armed", "running", "stopping"}
      BY <1>0, <1>5, <2>1, <3>1 DEF Signal, TypeOK, osVars
    <3>2. CASE proc[got[c]] \in {"born", "opened", "written", "stranger"}
      BY <1>0, <1>5, <2>1, <3>2 DEF Signal, TypeOK, osVars
    <3>3. CASE proc[got[c]] \in {"free", "foreign"}
      BY <1>0, <1>5, <2>1, <3>3 DEF Signal, TypeOK, osVars
    <3> QED
      BY <1>0, <2>1, <3>1, <3>2, <3>3 DEF TypeOK, ProcStates, DaemonPlaces
  <2>3. /\ command'[c] = None \/ command'[c] = "wait"
        /\ command'[c] = None => at'[c] = "idle"
        /\ at'[c] \in {"idle", "exists"}
        /\ \A d \in Callers : d # c => command'[d] = command[d] /\ at'[d] = at[d] /\ got'[d] = got[d]
    BY <1>0, <1>5, <2>1 DEF Signal, Finish, TypeOK
  <2>4. Active' = Active \/ Active' = Active \ {c}
    BY <2>1, <2>3 DEF Active
  <2>5. Daemons' = Daemons \/ (got[c] \in Daemons /\ Daemons' = Daemons \ {got[c]})
    BY <2>1, <2>2 DEF Daemons, DaemonPlaces
  <2>6. (Birth' => Birth) /\ (Named' => Named)
    BY <2>1, <2>2, <2>5 DEF Birth, Named
  <2>7. Cardinality(Daemons') - One(Named') <= Cardinality(Daemons) - One(Named)
        /\ Cardinality(Daemons') \in Nat
    <3>1. CASE Daemons' = Daemons
      <4>1. Named => Named'
        BY <2>1, <2>2, <3>1, <1>5, <1>0 DEF Named, Birth, Signal, TypeOK, Daemons, DaemonPlaces
      <4> QED
        BY <1>0, <2>6, <3>1, <4>1, Counts DEF One
    <3>2. CASE got[c] \in Daemons /\ Daemons' = Daemons \ {got[c]}
      <4>1. /\ Cardinality(Daemons') = Cardinality(Daemons) - 1 /\ Cardinality(Daemons') \in Nat
            /\ Cardinality(Daemons) \in Nat
        BY <1>0, <3>2, Counts, FS_RemoveElement, FS_CardinalityType
      <4> QED
        BY <4>1 DEF One
    <3> QED
      BY <2>5, <3>1, <3>2
  <2>8. Cardinality(Active') - One(Active' # {}) <= Cardinality(Active) - One(Active # {})
        /\ Cardinality(Active') \in Nat
    <3>1. CASE Active' = Active
      BY <1>0, <3>1, Counts DEF One
    <3>2. CASE Active' = Active \ {c}
      <4>1. One(Active # {}) = 1 /\ One(Active' # {}) \in {0, 1}
        BY <2>1 DEF One
      <4>2. /\ Cardinality(Active') = Cardinality(Active) - 1 /\ Cardinality(Active') \in Nat
            /\ Cardinality(Active) \in Nat
        BY <1>0, <2>1, <3>2, Counts, FS_RemoveElement, FS_CardinalityType
      <4> QED
        BY <4>1, <4>2
    <3> QED
      BY <2>4, <3>1, <3>2
  <2>9. /\ One(Active # {}) \in {0, 1} /\ One(Active' # {}) \in {0, 1}
        /\ One(Named) \in {0, 1} /\ One(Named') \in {0, 1}
    BY DEF One
  <2>10. Load' <= Allowance' /\ (Spare => Spare')
    BY <1>0, <2>1, <2>7, <2>8, <2>9, Counts DEF Inv
  <2>11. \A d \in Callers : Misled(d)' => Misled(d)
    BY <2>1, <2>3 DEF Misled
  <2>12. \A d \in Callers : at'[d] # "idle" => command'[d] # None
    BY <2>1, <2>3 DEF Inv, Active
  <2> QED
    BY <2>1, <2>4, <2>6, <2>10, <2>11, <2>12 DEF Inv
<1>6. ASSUME NEW p \in Pids, OpenFile(p) PROVE Inv'
  <2>1. /\ UNCHANGED <<command, at, got, crossings>> /\ proc[p] = "born"
        /\ proc' = [proc EXCEPT ![p] = "opened"] /\ handles' = handles \cup {p}
    BY <1>6 DEF OpenFile, callVars, boundVars
  <2>2. Daemons' = Daemons /\ p \in Daemons /\ Birth /\ Birth'
    BY <1>0, <2>1 DEF Daemons, DaemonPlaces, Birth, TypeOK
  <2>3. Named /\ Named'
    BY <2>2 DEF Named
  <2> QED
    BY <1>0, <2>1, <2>2, <2>3, OnlyDaemonsEnd
<1>7. ASSUME NEW p \in Pids, WritePid(p) PROVE Inv'
  <2>1. /\ UNCHANGED <<command, at, got, crossings>> /\ proc[p] = "opened"
        /\ proc' = [proc EXCEPT ![p] = "written"] /\ handles' = handles \ {p}
        /\ file' = IF p \in handles THEN p ELSE file
    BY <1>7 DEF WritePid, callVars, boundVars
  <2>2. Daemons' = Daemons /\ p \in Daemons /\ (Birth' => Birth)
    BY <1>0, <2>1 DEF Daemons, DaemonPlaces, Birth, TypeOK
  <2>3. CASE p \in handles
    <3>1. Birth /\ Named /\ file' = p
      BY <2>1, <2>3 DEF Birth, Named
    <3>2. Named'
      BY <2>2, <3>1 DEF Named
    <3> QED
      BY <1>0, <2>1, <2>2, <3>1, <3>2, OnlyDaemonsEnd
  <2>4. CASE p \notin handles
    <3>1. file' = file /\ (Birth' <=> Birth)
      BY <1>0, <2>1, <2>4 DEF Birth, TypeOK
    <3>2. Named' <=> Named
      BY <2>2, <3>1 DEF Named
    <3> QED
      BY <1>0, <2>1, <2>2, <3>1, <3>2, OnlyDaemonsEnd
  <2> QED
    BY <2>3, <2>4
<1>8. ASSUME NEW p \in Pids, SetupSignals(p) \/ EnterLoop(p) \/ LeaveLoop(p) PROVE Inv'
  <2>1. UNCHANGED <<command, at, got, crossings, file, handles>>
    BY <1>8 DEF SetupSignals, EnterLoop, LeaveLoop, fileVars, callVars, boundVars
  <2>2. \A q \in Pids : proc'[q] # proc[q] =>
                         q = p /\ proc[q] \in {"written", "armed", "running"}
                               /\ proc'[q] \in {"armed", "running", "stopping"}
    BY <1>0, <1>8 DEF SetupSignals, EnterLoop, LeaveLoop, TypeOK
  <2>3. Daemons' = Daemons /\ p \in Daemons /\ (Birth' <=> Birth)
    BY <2>1, <2>2, <1>8 DEF Daemons, DaemonPlaces, Birth, SetupSignals, EnterLoop, LeaveLoop
  <2>4. Named' <=> Named
    BY <2>1, <2>3 DEF Named
  <2> QED
    BY <1>0, <2>1, <2>3, <2>4, OnlyDaemonsEnd
<1>9. ASSUME NEW p \in Pids, RemovePid(p) \/ Dies(p) PROVE Inv'
  <2>1. /\ UNCHANGED <<command, at, got, crossings>> /\ p \in Daemons
        /\ file' \in {file, None} /\ handles' \subseteq handles
        /\ proc' = [proc EXCEPT ![p] = "free"]
    BY <1>9 DEF RemovePid, Dies, Unlink, callVars, boundVars, Daemons, DaemonPlaces
  <2>2. Daemons' = Daemons \ {p} /\ (Birth' => Birth)
    BY <1>0, <2>1 DEF Daemons, DaemonPlaces, Birth, TypeOK
  <2> QED
    BY <1>0, <2>1, <2>2, OnlyDaemonsEnd
<1>10. ASSUME NEW p \in Pids, StrangerAppears(p) \/ StrangerLeaves(p) PROVE Inv'
  <2>1. UNCHANGED <<command, at, got, crossings, file, handles>>
    BY <1>10 DEF StrangerAppears, StrangerLeaves, fileVars, callVars, boundVars
  <2>2. \A q \in Pids : proc'[q] # proc[q] =>
                         proc[q] \notin DaemonPlaces /\ proc'[q] \notin DaemonPlaces
    BY <1>0, <1>10 DEF StrangerAppears, StrangerLeaves, TypeOK, DaemonPlaces
  <2>3. Daemons' = Daemons /\ (Birth' <=> Birth)
    BY <2>1, <2>2 DEF Daemons, Birth, DaemonPlaces
  <2>4. Named' <=> Named
    BY <2>1, <2>3 DEF Named
  <2> QED
    BY <2>1, <2>3, <2>4 DEF Inv, Active, Misled, One
<1>11. CASE UNCHANGED vars
  BY <1>11
  DEF vars, osVars, fileVars, callVars, boundVars, Inv, Daemons, Active, Birth, Named, Misled, One
<1> QED
  BY <1>1, <1>2, <1>3, <1>4, <1>5, <1>6, <1>7, <1>8, <1>9, <1>10, <1>11
  DEF Next, CommandStep, DaemonStep

LEMMA BalanceHolds == Spec => [](Typed /\ Inv)
BY TypedAtFirst, TypedIsKept, InvHoldsAtFirst, InvIsKept, PTL DEF Spec

\* However commands, crashes, ends and reused process ids meet, every daemon
\* beyond the first has a crossing of its own: without one there is one daemon.
THEOREM StartsAreAccounted == Spec => []DaemonsExplained
<1>1. ASSUME Typed, Inv PROVE DaemonsExplained
  <2>1. TypeOK
    BY <1>1 DEF Typed
  <2>2. One(Named) \in {0, 1} /\ One(Active # {}) <= Cardinality(Active)
    <3>1. Active # {} => Cardinality(Active) # 0
      BY <2>1, Counts, FS_EmptySet
    <3> QED
      BY <2>1, <3>1, Counts DEF One
  <2>3. One(Active # {}) \in {0, 1}
    BY DEF One
  <2> QED
    BY <1>1, <2>1, <2>2, <2>3, Counts DEF Inv, Load, Allowance, DaemonsExplained
<1> QED
  BY <1>1, BalanceHolds, PTL

\* Nor does a daemon past its start lose daemon.pid without a crossing.
THEOREM HiddenAreAccounted == Spec => []HiddenExplained
<1>1. ASSUME Typed, Inv PROVE HiddenExplained
  <2>1. TypeOK
    BY <1>1 DEF Typed
  <2>2. One(Active # {}) <= Cardinality(Active) /\ One(Active # {}) \in {0, 1}
    <3>1. Active # {} => Cardinality(Active) # 0
      BY <2>1, Counts, FS_EmptySet
    <3> QED
      BY <2>1, <3>1, Counts DEF One
  <2>3. Cardinality(Daemons) <= crossings + One(Named)
    BY <1>1, <2>1, <2>2, Counts DEF Inv, Load, Allowance, One
  <2>4. /\ IsFiniteSet(Hidden) /\ Cardinality(Hidden) <= Cardinality(Daemons)
        /\ Cardinality(Hidden) \in Nat
    BY <2>1, Counts, FS_Subset, FS_CardinalityType DEF Hidden
  <2>5. CASE Named
    <3>1. PICK p \in Daemons : p \notin Hidden
      BY <2>5 DEF Named, Birth, Hidden, Daemons, DaemonPlaces
    <3>2. Hidden \subseteq Daemons \ {p}
      BY <3>1 DEF Hidden
    <3>3. Cardinality(Hidden) <= Cardinality(Daemons) - 1
      <4>1. IsFiniteSet(Daemons \ {p}) /\ Cardinality(Daemons \ {p}) = Cardinality(Daemons) - 1
        BY <2>1, <3>1, Counts, FS_RemoveElement
      <4> QED
        BY <3>2, <4>1, FS_Subset
    <3> QED
      BY <2>1, <2>3, <2>4, <2>5, <3>3, Counts DEF One, HiddenExplained
  <2>6. CASE ~ Named
    BY <2>1, <2>3, <2>4, <2>6, Counts DEF One, HiddenExplained
  <2> QED
    BY <2>5, <2>6
<1> QED
  BY <1>1, BalanceHolds, PTL
=============================================================================
