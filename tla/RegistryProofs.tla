---------------------------- MODULE RegistryProofs ----------------------------
(***************************************************************************)
(* Proofs about Registry, for any names, aliases, processes and commands:  *)
(* types, what a name reaches, whom an update changes, and when the export *)
(* can be trusted.                                                         *)
(***************************************************************************)
EXTENDS Registry, SequenceTheorems, WellFoundedInduction, TLAPS

-----------------------------------------------------------------------------
(* Least elements, which Resolve is made of.                                *)

LEMMA LeastExists ==
  ASSUME NEW S, S \subseteq Nat, S # {}
  PROVE  \E x \in S : \A y \in S : x <= y
<1>1. PICK x \in S : \A y \in S : <<y, x>> \notin OpToRel(<, Nat)
  BY WFMin, NatLessThanWellFounded, Zenon
<1>2. \A y \in S : y \in Nat /\ x \in Nat => ~ (y < x)
  BY <1>1, Zenon DEF OpToRel
<1>3. \A y \in S : x <= y
  BY <1>2
<1> QED
  BY <1>3

LEMMA MinIsLeast ==
  ASSUME NEW S, S \subseteq Nat, S # {}
  PROVE  Min(S) \in S /\ \A y \in S : Min(S) <= y
<1>1. \E x \in S : \A y \in S : x <= y
  BY LeastExists
<1> QED
  BY <1>1 DEF Min

LEMMA MinIsUnique ==
  ASSUME NEW S, S \subseteq Nat, NEW x \in S, \A y \in S : x <= y
  PROVE  Min(S) = x
<1>1. Min(S) \in S /\ Min(S) <= x /\ x <= Min(S)
  BY MinIsLeast
<1>2. Min(S) \in Nat /\ x \in Nat
  BY <1>1
<1> QED
  BY <1>1, <1>2

\* What a name resolves to is a row, or 0.
LEMMA ResolveIsRow ==
  ASSUME NEW n, repos \in Seq(Row)
  PROVE  /\ Resolve(n) \in 0..Len(repos)
         /\ Named(n) # {} => Resolve(n) \in Named(n)
<1>1. Named(n) \subseteq 1..Len(repos) /\ Aliased(n) \subseteq 1..Len(repos)
  BY DEF Named, Aliased
<1>2. Named(n) # {} => Min(Named(n)) \in Named(n)
  BY <1>1, MinIsLeast
<1>3. Aliased(n) # {} => Min(Aliased(n)) \in Aliased(n)
  BY <1>1, MinIsLeast
<1> QED
  BY <1>1, <1>2, <1>3 DEF Resolve, First

-----------------------------------------------------------------------------
(* Types.                                                                   *)

\* The two ways the table changes.
LEMMA RowAdded ==
  ASSUME NEW row \in Row, repos \in Seq(Row), repos' = Append(repos, row)
  PROVE  /\ repos' \in Seq(Row)
         /\ Len(repos') = Len(repos) + 1
         /\ \A r \in 1..Len(repos) : repos'[r] = repos[r]
         /\ repos'[Len(repos) + 1] = row
  BY AppendProperties

LEMMA RowsUpdated ==
  ASSUME NEW p \in Procs, TypeOK, Update(p)
  PROVE  /\ repos' \in Seq(Row)
         /\ Len(repos') = Len(repos)
         /\ \A r \in 1..Len(repos) : /\ repos'[r].name = repos[r].name
                                     /\ repos'[r].alias = repos[r].alias
                                     /\ repos[r].name # command[p].name => repos'[r] = repos[r]
<1> DEFINE c == command[p]
<1>1. c \in Commands /\ c.op = "update"
  <2>1. c \in Commands \cup {Idle} /\ c.op = "update"
    BY DEF TypeOK, Update
  <2> QED
    BY <2>1 DEF Idle
<1>2. c.conc \in Nat \ {0}
  BY <1>1, RegistryAssumption DEF Commands
<1>3. repos \in [1..Len(repos) -> Row] /\ Len(repos) \in Nat
  BY DEF TypeOK
<1>4. repos' = [r \in 1..Len(repos) |->
                  IF repos[r].name = c.name THEN [repos[r] EXCEPT !.conc = c.conc] ELSE repos[r]]
  BY <1>3 DEF Update
<1>5. ASSUME NEW r \in 1..Len(repos)
      PROVE  /\ repos'[r] \in Row
             /\ repos'[r].name = repos[r].name /\ repos'[r].alias = repos[r].alias
             /\ repos[r].name # c.name => repos'[r] = repos[r]
  <2>1. repos[r] \in Row
    BY <1>3, <1>5
  <2> QED
    BY <1>2, <1>4, <1>5, <2>1 DEF Row
<1>6. repos' \in [1..Len(repos) -> Row]
  BY <1>4, <1>5
<1>7. repos' \in Seq(Row) /\ Len(repos') = Len(repos)
  BY <1>3, <1>6, SeqDef, LenProperties
<1> QED
  BY <1>5, <1>7

LEMMA InitTyped == Init => TypeOK
<1> SUFFICES ASSUME Init PROVE TypeOK
  OBVIOUS
<1>1. repos \in Seq(Row) /\ file \in Seq(Row) /\ Len(repos) = 0 /\ <<>> \in Seq(Row)
  BY EmptySeq DEF Init
<1>2. 0 \in 0..Len(repos) /\ ran \in 0..MaxCommands
  BY <1>1, RegistryAssumption DEF Init
<1>3. garbled \in BOOLEAN /\ disturbed \in BOOLEAN /\ overlapped \subseteq Procs
  BY DEF Init
<1>4. /\ place \in [Procs -> Places] /\ command \in [Procs -> Commands \cup {Idle}]
      /\ \A p \in Procs : place[p] = "idle" <=> command[p] = Idle
  BY DEF Init, Places
<1>5. held \in [Procs -> Seq(Row)]
  BY <1>1 DEF Init
<1>6. target \in [Procs -> 0..Len(repos)] /\ known \in [Procs -> 0..Len(repos)]
  BY <1>2 DEF Init
<1> QED
  BY <1>1, <1>2, <1>3, <1>4, <1>5, <1>6 DEF TypeOK

\* What Leave writes is typed, whether or not the table changes.
LEMMA LeaveTyped ==
  ASSUME TypeOK, NEW p \in Procs, Leave(p), UNCHANGED repos
  PROVE  /\ place' \in [Procs -> Places] /\ command' \in [Procs -> Commands \cup {Idle}]
         /\ \A q \in Procs : place'[q] = "idle" <=> command'[q] = Idle
         /\ held' \in [Procs -> Seq(Row)]
         /\ target' \in [Procs -> 0..Len(repos')] /\ known' \in [Procs -> 0..Len(repos')]
         /\ overlapped' \subseteq Procs
<1>1. <<>> \in Seq(Row) /\ Len(repos) \in Nat
  BY EmptySeq DEF TypeOK
<1> QED
  BY <1>1 DEF TypeOK, Leave, Places

\* A process that goes on with its command: only its place, and the table, change.
LEMMA MoveTyped ==
  ASSUME TypeOK, NEW p \in Procs, NEW from, NEW to \in Places, Move(p, from, to),
         from # "idle", to # "idle"
  PROVE  /\ place' \in [Procs -> Places]
         /\ UNCHANGED command => \A q \in Procs : place'[q] = "idle" <=> command'[q] = Idle
  BY DEF TypeOK, Move

\* Rows are never removed, so a row number stays one.
LEMMA RowNumbersStay ==
  ASSUME TypeOK, repos' \in Seq(Row), Len(repos') >= Len(repos), UNCHANGED <<target, known>>
  PROVE  target' \in [Procs -> 0..Len(repos')] /\ known' \in [Procs -> 0..Len(repos')]
<1>1. Len(repos) \in Nat /\ Len(repos') \in Nat
  BY LenProperties DEF TypeOK
<1>2. 0..Len(repos) \subseteq 0..Len(repos')
  BY <1>1
<1> QED
  BY <1>2 DEF TypeOK

\* The command of a process that runs one.
LEMMA CommandOfBusy ==
  ASSUME TypeOK, NEW p \in Procs, command[p].op = "create"
  PROVE  [name |-> command[p].name, alias |-> command[p].alias, conc |-> 1] \in Row
<1>1. command[p] \in Commands \cup {Idle}
  BY DEF TypeOK
<1>2. command[p] \in Commands
  BY <1>1 DEF Idle
<1> QED
  BY <1>2 DEF Commands, Row

\* An insert adds the command's row, with a name no other row has, or the
\* process leaves.
LEMMA InsertCases ==
  ASSUME TypeOK, NEW p \in Procs, Insert(p)
  PROVE  \/ /\ Named(command[p].name) = {}
            /\ Move(p, "act", "list") /\ UNCHANGED <<command, target, held, known, overlapped>>
            /\ repos' \in Seq(Row) /\ Len(repos') = Len(repos) + 1
            /\ \A r \in 1..Len(repos) : repos'[r] = repos[r]
            /\ repos'[Len(repos) + 1].name = command[p].name
            /\ repos'[Len(repos) + 1].alias = command[p].alias
         \/ place[p] = "act" /\ Leave(p) /\ UNCHANGED repos
<1> DEFINE row == [name |-> command[p].name, alias |-> command[p].alias, conc |-> 1]
<1>1. CASE Named(command[p].name) = {}
  <2>1. row \in Row
    BY CommandOfBusy DEF Insert
  <2>2. repos' = Append(repos, row) /\ repos \in Seq(Row)
    BY <1>1 DEF Insert, TypeOK
  <2>3. /\ repos' \in Seq(Row) /\ Len(repos') = Len(repos) + 1
        /\ \A r \in 1..Len(repos) : repos'[r] = repos[r]
        /\ repos'[Len(repos) + 1] = row
    BY <2>1, <2>2, RowAdded
  <2> HIDE DEF row
  <2>4. row.name = command[p].name /\ row.alias = command[p].alias
    BY DEF row
  <2> QED
    BY <1>1, <2>3, <2>4 DEF Insert
<1>2. CASE Named(command[p].name) # {}
  BY <1>2 DEF Insert
<1> QED
  BY <1>1, <1>2

LEMMA StepTyped == TypeOK /\ [Next]_vars => TypeOK'
<1> SUFFICES ASSUME TypeOK, [Next]_vars PROVE TypeOK'
  OBVIOUS
<1>0. /\ repos \in Seq(Row) /\ Len(repos) \in Nat /\ Len(repos) \in 0..Len(repos)
      /\ MaxCommands \in Nat
  BY LenProperties, RegistryAssumption DEF TypeOK
<1>1. ASSUME NEW p \in Procs, NEW c \in Commands, Begin(p, c) PROVE TypeOK'
  <2>1. c # Idle
    BY DEF Commands, Idle
  <2>2. /\ place' \in [Procs -> Places] /\ command' \in [Procs -> Commands \cup {Idle}]
        /\ \A q \in Procs : place'[q] = "idle" <=> command'[q] = Idle
    BY <1>1, <2>1 DEF TypeOK, Begin, Move, Places
  <2>3. overlapped' \subseteq Procs /\ ran' \in 0..MaxCommands
    BY <1>0, <1>1 DEF TypeOK, Begin, Busy
  <2> QED
    BY <1>1, <2>2, <2>3 DEF TypeOK, Begin, rowVars
<1>2. ASSUME NEW p \in Procs, Leave(p), UNCHANGED <<repos, ran>>,
             file' \in Seq(Row), garbled' \in BOOLEAN, disturbed' \in BOOLEAN
      PROVE  TypeOK'
  BY <1>2, LeaveTyped DEF TypeOK
<1>3. ASSUME NEW p \in Procs, NEW from \in Places \ {"idle"}, NEW to \in Places \ {"idle"},
             Move(p, from, to), UNCHANGED <<command, overlapped, ran>>,
             repos' \in Seq(Row), file' \in Seq(Row), garbled' \in BOOLEAN,
             held' \in [Procs -> Seq(Row)], UNCHANGED disturbed,
             target' \in [Procs -> 0..Len(repos')] /\ known' \in [Procs -> 0..Len(repos')]
      PROVE  TypeOK'
  <2>1. /\ place' \in [Procs -> Places]
        /\ \A q \in Procs : place'[q] = "idle" <=> command'[q] = Idle
    BY <1>3, MoveTyped
  <2> QED
    BY <1>3, <2>1 DEF TypeOK
<1>4. ASSUME NEW p \in Procs, CheckName(p) PROVE TypeOK'
  <2>1. CASE Leave(p)
    BY <1>2, <1>4, <2>1 DEF CheckName, rowVars, TypeOK
  <2>2. CASE Move(p, "check", "act") /\ UNCHANGED <<command, target, held, known, overlapped>>
    BY <1>3, <1>4, <2>2 DEF CheckName, rowVars, TypeOK, Places
  <2> QED
    BY <1>4, <2>1, <2>2 DEF CheckName
<1>5. ASSUME NEW p \in Procs, Insert(p) PROVE TypeOK'
  <2>1. UNCHANGED <<file, garbled, disturbed, ran>>
    BY <1>5 DEF Insert
  <2>2. CASE Leave(p) /\ UNCHANGED repos
    BY <1>2, <2>1, <2>2 DEF TypeOK
  <2>3. CASE /\ Move(p, "act", "list") /\ UNCHANGED <<command, target, held, known, overlapped>>
             /\ repos' \in Seq(Row) /\ Len(repos') = Len(repos) + 1
    <3>1. target' \in [Procs -> 0..Len(repos')] /\ known' \in [Procs -> 0..Len(repos')]
      BY <1>0, <2>3, RowNumbersStay
    <3> QED
      BY <1>3, <2>1, <2>3, <3>1 DEF TypeOK, Places
  <2> QED
    BY <1>5, <2>2, <2>3, InsertCases
<1>6. ASSUME NEW p \in Procs, ResolveName(p) PROVE TypeOK'
  <2> DEFINE r == Resolve(command[p].name)
  <2>1. CASE Leave(p)
    BY <1>2, <1>6, <2>1 DEF ResolveName, rowVars, TypeOK
  <2>2. CASE ~ Leave(p)
    <3>1. /\ Move(p, "check", "act") /\ UNCHANGED <<command, held, overlapped>>
          /\ target' = [target EXCEPT ![p] = r] /\ known' = [known EXCEPT ![p] = Len(repos)]
      BY <1>6, <2>2 DEF ResolveName
    <3>2. r \in 0..Len(repos)
      BY <1>0, ResolveIsRow
    <3> HIDE DEF r
    <3>3. target' \in [Procs -> 0..Len(repos)] /\ known' \in [Procs -> 0..Len(repos)]
      BY <1>0, <3>1, <3>2 DEF TypeOK
    <3> QED
      BY <1>3, <1>6, <3>1, <3>3 DEF ResolveName, rowVars, TypeOK, Places
  <2> QED
    BY <2>1, <2>2
<1>7. ASSUME NEW p \in Procs, Update(p) PROVE TypeOK'
  <2>1. repos' \in Seq(Row) /\ Len(repos') = Len(repos)
    BY <1>7, RowsUpdated
  <2>2. target' \in [Procs -> 0..Len(repos')] /\ known' \in [Procs -> 0..Len(repos')]
    BY <1>7, <2>1 DEF TypeOK, Update
  <2> QED
    BY <1>3, <1>7, <2>1, <2>2 DEF Update, TypeOK, Places
<1>8. ASSUME NEW p \in Procs, ListAll(p) PROVE TypeOK'
  <2>1. held' \in [Procs -> Seq(Row)]
    BY <1>0, <1>8 DEF ListAll, TypeOK
  <2> QED
    BY <1>3, <1>8, <2>1 DEF ListAll, rowVars, TypeOK, Places
<1>9. ASSUME NEW p \in Procs, OpenFile(p) PROVE TypeOK'
  <2>1. file' \in Seq(Row)
    BY <1>9, EmptySeq DEF OpenFile
  <2> QED
    BY <1>3, <1>9, <2>1 DEF OpenFile, TypeOK, Places
<1>10. ASSUME NEW p \in Procs, Dump(p) PROVE TypeOK'
  <2>1. file' \in Seq(Row) /\ garbled' \in BOOLEAN /\ disturbed' \in BOOLEAN
    BY <1>10 DEF Dump, TypeOK
  <2> QED
    BY <1>2, <1>10, <2>1 DEF Dump
<1>11. ASSUME NEW p \in Procs, Dies(p) PROVE TypeOK'
  BY <1>2, <1>11 DEF Dies, rowVars, TypeOK
<1>12. CASE UNCHANGED vars
  BY <1>12 DEF vars, rowVars, procVars, TypeOK
<1>13. ASSUME NEW p \in Procs, NEW e \in Entries,
              Begin(p, [op |-> "create", name |-> e.name, alias |-> e.alias])
       PROVE  TypeOK'
  <2>1. [op |-> "create", name |-> e.name, alias |-> e.alias] \in Commands
    BY RegistryAssumption DEF Commands
  <2> QED
    BY <1>1, <1>13, <2>1
<1>14. ASSUME NEW p \in Procs, NEW n \in Names, NEW c \in Concurrency,
              Begin(p, [op |-> "update", name |-> n, conc |-> c])
       PROVE  TypeOK'
  <2>1. [op |-> "update", name |-> n, conc |-> c] \in Commands
    BY DEF Commands
  <2> QED
    BY <1>1, <1>14, <2>1
<1> QED
  BY <1>4, <1>5, <1>6, <1>7, <1>8, <1>9, <1>10, <1>11, <1>12, <1>13, <1>14 DEF Next

\* The rows, the file and every process are typed in every reachable state.
THEOREM Types == Spec => []TypeOK
<1>1. Init => TypeOK
  BY InitTyped
<1>2. TypeOK /\ [Next]_vars => TypeOK'
  BY StepTyped
<1> QED
  BY <1>1, <1>2, PTL DEF Spec

-----------------------------------------------------------------------------
(* Names.                                                                   *)

UniqueNames == \A r, s \in DOMAIN repos : repos[r].name = repos[s].name => r = s

\* What an update is about to change: the row it resolved, or a newer one.
UpdatesAimed ==
  \A p \in Procs : \A r \in DOMAIN repos :
    place[p] = "act" /\ command[p].op = "update" /\ repos[r].name = command[p].name
      => r = target[p] \/ r > known[p]

NameInv == TypeOK /\ UniqueNames /\ UpdatesAimed

\* How a step treats the table: it adds one row under a free name, it changes
\* other columns than name and alias, or it leaves it alone.
RowInserted(p) ==
  /\ Insert(p) /\ Named(command[p].name) = {}
  /\ repos' \in Seq(Row) /\ Len(repos') = Len(repos) + 1
  /\ \A r \in 1..Len(repos) : repos'[r] = repos[r]
  /\ repos'[Len(repos) + 1].name = command[p].name
  /\ repos'[Len(repos) + 1].alias = command[p].alias

RowsKeepNames ==
  /\ repos' \in Seq(Row) /\ Len(repos') = Len(repos)
  /\ \A r \in 1..Len(repos) : repos'[r].name = repos[r].name /\ repos'[r].alias = repos[r].alias

LEMMA RowSteps ==
  ASSUME TypeOK, [Next]_vars
  PROVE  (\E p \in Procs : RowInserted(p)) \/ RowsKeepNames
<1>0. repos \in Seq(Row)
  BY DEF TypeOK
<1>1. CASE UNCHANGED repos
  BY <1>0, <1>1 DEF RowsKeepNames
<1>2. ASSUME NEW p \in Procs, Insert(p) PROVE RowInserted(p) \/ UNCHANGED repos
  BY <1>2, InsertCases DEF RowInserted
<1>3. ASSUME NEW p \in Procs, Update(p) PROVE RowsKeepNames
  BY <1>3, RowsUpdated DEF RowsKeepNames
<1>4. ASSUME NEW p \in Procs, \/ CheckName(p) \/ ResolveName(p) \/ ListAll(p) \/ OpenFile(p)
                              \/ Dump(p) \/ Dies(p)
      PROVE  UNCHANGED repos
  BY <1>4 DEF CheckName, ResolveName, ListAll, OpenFile, Dump, Dies, rowVars
<1>5. ASSUME NEW p \in Procs, NEW c, Begin(p, c) PROVE UNCHANGED repos
  BY <1>5 DEF Begin, rowVars
<1>6. CASE UNCHANGED vars
  BY <1>1, <1>6 DEF vars, rowVars
<1> QED
  BY <1>1, <1>2, <1>3, <1>4, <1>5, <1>6 DEF Next

LEMMA UniqueKept == TypeOK /\ UniqueNames /\ [Next]_vars => UniqueNames'
<1> SUFFICES ASSUME TypeOK, UniqueNames, [Next]_vars PROVE UniqueNames'
  OBVIOUS
<1>1. /\ DOMAIN repos = 1..Len(repos) /\ Len(repos) \in Nat
  BY LenProperties DEF TypeOK
<1>2. CASE RowsKeepNames
  <2>1. DOMAIN repos' = 1..Len(repos)
    BY <1>2, LenProperties DEF RowsKeepNames
  <2> QED
    BY <1>1, <1>2, <2>1 DEF RowsKeepNames, UniqueNames
<1>3. ASSUME NEW p \in Procs, RowInserted(p) PROVE UniqueNames'
  <2>1. DOMAIN repos' = 1..(Len(repos) + 1)
    BY <1>3, LenProperties DEF RowInserted
  <2>2. \A r \in 1..Len(repos) : repos'[r].name # repos'[Len(repos) + 1].name
    BY <1>1, <1>3 DEF RowInserted, Named
  <2>3. \A r, s \in 1..Len(repos) : repos'[r].name = repos'[s].name => r = s
    BY <1>1, <1>3 DEF RowInserted, UniqueNames
  <2>4. \A r \in DOMAIN repos' : r \in 1..Len(repos) \/ r = Len(repos) + 1
    BY <1>1, <2>1
  <2> QED
    BY <2>2, <2>3, <2>4 DEF UniqueNames
<1> QED
  BY <1>2, <1>3, RowSteps

\* A row that has the name is the row the name resolves to.
LEMMA NamedIsResolved ==
  ASSUME TypeOK, UniqueNames, NEW r \in DOMAIN repos
  PROVE  Resolve(repos[r].name) = r
<1>1. r \in Named(repos[r].name)
  BY DEF Named
<1>2. Resolve(repos[r].name) \in Named(repos[r].name)
  BY <1>1, ResolveIsRow DEF TypeOK
<1> QED
  BY <1>2 DEF Named, UniqueNames

\* An update stays aimed while the table changes around it: names stay with
\* their rows, and a row that is added is newer than what the update knew.
LEMMA AimKept ==
  ASSUME TypeOK, [Next]_vars, NEW q \in Procs, NEW r \in DOMAIN repos',
         UpdatesAimed, place[q] = "act", command[q].op = "update",
         command'[q] = command[q], target'[q] = target[q], known'[q] = known[q],
         repos'[r].name = command[q].name
  PROVE  r = target'[q] \/ r > known'[q]
<1>1. /\ DOMAIN repos = 1..Len(repos) /\ Len(repos) \in Nat
      /\ known[q] \in 0..Len(repos)
  BY LenProperties DEF TypeOK
<1>2. CASE r \in 1..Len(repos)
  <2>1. repos[r].name = command[q].name
    BY <1>2, RowSteps DEF RowInserted, RowsKeepNames
  <2> QED
    BY <1>1, <1>2, <2>1 DEF UpdatesAimed
<1>3. CASE r \notin 1..Len(repos)
  <2>1. PICK p \in Procs : RowInserted(p)
    BY <1>3, RowSteps, LenProperties DEF RowsKeepNames
  <2>2. r = Len(repos) + 1
    BY <1>1, <1>3, <2>1, LenProperties DEF RowInserted
  <2> QED
    BY <1>1, <2>2
<1> QED
  BY <1>2, <1>3

LEMMA AimedKept == NameInv /\ [Next]_vars => UpdatesAimed'
<1> SUFFICES ASSUME NameInv, [Next]_vars, NEW q \in Procs, NEW r \in DOMAIN repos',
                    place'[q] = "act", command'[q].op = "update",
                    repos'[r].name = command'[q].name
             PROVE  r = target'[q] \/ r > known'[q]
  BY DEF UpdatesAimed
<1> USE DEF NameInv
<1>0. /\ place \in [Procs -> Places] /\ command \in [Procs -> Commands \cup {Idle}]
      /\ target \in [Procs -> 0..Len(repos)] /\ known \in [Procs -> 0..Len(repos)]
      /\ repos \in Seq(Row)
  BY DEF TypeOK
<1>1. ASSUME place[q] = "act", command'[q] = command[q],
             target'[q] = target[q], known'[q] = known[q]
      PROVE  r = target'[q] \/ r > known'[q]
  BY <1>1, AimKept
<1>2. ASSUME NEW p \in Procs, NEW c, Begin(p, c) PROVE r = target'[q] \/ r > known'[q]
  <2>1. p # q /\ place[q] = "act" /\ command'[q] = command[q]
    BY <1>0, <1>2 DEF Begin, Move
  <2> QED
    BY <1>1, <1>2, <2>1 DEF Begin
<1>3. ASSUME NEW p \in Procs, Leave(p) PROVE r = target'[q] \/ r > known'[q]
  <2>1. p # q
    BY <1>0, <1>3 DEF Leave
  <2> QED
    BY <1>0, <1>1, <1>3, <2>1 DEF Leave
<1>4. ASSUME NEW p \in Procs, NEW from, NEW to, Move(p, from, to), to # "act",
             UNCHANGED <<command, target, known>>
      PROVE  r = target'[q] \/ r > known'[q]
  <2>1. p # q
    BY <1>0, <1>4 DEF Move
  <2> QED
    BY <1>0, <1>1, <1>4, <2>1 DEF Move
<1>5. ASSUME NEW p \in Procs, CheckName(p) PROVE r = target'[q] \/ r > known'[q]
  <2>1. CASE Leave(p)
    BY <1>3, <2>1
  <2>2. CASE Move(p, "check", "act") /\ UNCHANGED <<command, target, held, known, overlapped>>
    <3>1. p # q
      BY <1>5, <2>2 DEF CheckName
    <3> QED
      BY <1>0, <1>1, <2>2, <3>1 DEF Move
  <2> QED
    BY <1>5, <2>1, <2>2 DEF CheckName
<1>6. ASSUME NEW p \in Procs, ResolveName(p) PROVE r = target'[q] \/ r > known'[q]
  <2>1. CASE Leave(p)
    BY <1>3, <2>1
  <2>2. CASE ~ Leave(p)
    <3>1. /\ Move(p, "check", "act") /\ UNCHANGED <<command, repos>>
          /\ target' = [target EXCEPT ![p] = Resolve(command[p].name)]
          /\ known' = [known EXCEPT ![p] = Len(repos)]
      BY <1>6, <2>2 DEF ResolveName, rowVars
    <3>2. CASE p = q
      <4>1. target'[q] = Resolve(command[q].name)
        BY <1>0, <3>1, <3>2
      <4>2. Resolve(command[q].name) = r
        BY <3>1, NamedIsResolved
      <4> QED
        BY <4>1, <4>2
    <3>3. CASE p # q
      BY <1>0, <1>1, <3>1, <3>3 DEF Move
    <3> QED
      BY <3>2, <3>3
  <2> QED
    BY <2>1, <2>2
<1>7. ASSUME NEW p \in Procs, Insert(p) PROVE r = target'[q] \/ r > known'[q]
  BY <1>3, <1>4, <1>7, InsertCases
<1>8. ASSUME NEW p \in Procs, Update(p) PROVE r = target'[q] \/ r > known'[q]
  BY <1>4, <1>8 DEF Update
<1>9. ASSUME NEW p \in Procs, ListAll(p) \/ OpenFile(p) PROVE r = target'[q] \/ r > known'[q]
  BY <1>4, <1>9 DEF ListAll, OpenFile
<1>10. ASSUME NEW p \in Procs, Dump(p) \/ Dies(p) PROVE r = target'[q] \/ r > known'[q]
  BY <1>3, <1>10 DEF Dump, Dies
<1>11. CASE UNCHANGED vars
  BY <1>1, <1>11 DEF vars, procVars
<1> QED
  BY <1>2, <1>5, <1>6, <1>7, <1>8, <1>9, <1>10, <1>11 DEF Next

THEOREM NamesKept == Spec => []NameInv
<1>1. Init => NameInv
  <2> SUFFICES ASSUME Init PROVE NameInv
    OBVIOUS
  <2>1. DOMAIN repos = {}
    BY DEF Init
  <2> QED
    BY <2>1, InitTyped DEF NameInv, UniqueNames, UpdatesAimed
<1>2. NameInv /\ [Next]_vars => NameInv'
  BY StepTyped, UniqueKept, AimedKept DEF NameInv
<1> QED
  BY <1>1, <1>2, PTL DEF Spec

\* A registered repo is reached by its own name, however many commands register
\* at the same time (register, create_repo, get_repo_by_alias).
THEOREM NamesReachRepos == Spec => []NameReachesRepo
<1>1. NameInv => NameReachesRepo
  BY NamedIsResolved DEF NameInv, NameReachesRepo
<1> QED
  BY <1>1, NamesKept, PTL

\* update-repo changes the repo its argument meant when the command began, or one
\* that was registered since, and no third one.
THEOREM UpdatesHit == Spec => UpdateHitsResolved
<1>1. ASSUME NameInv, [Next]_vars, NEW p \in Procs, NEW r \in DOMAIN repos,
             place[p] = "act", place'[p] = "list", repos'[r] # repos[r]
      PROVE  r = target[p] \/ r > known[p]
  <2> USE DEF NameInv
  <2>1. Update(p)
    <3>1. place \in [Procs -> Places] /\ DOMAIN repos = 1..Len(repos)
      BY <1>1, LenProperties DEF TypeOK
    <3>2. ASSUME NEW q \in Procs, q # p, UNCHANGED place \/ Leave(q) \/ \E f, t : Move(q, f, t)
          PROVE  FALSE
      BY <1>1, <3>1, <3>2 DEF Leave, Move
    <3>3. ~ Leave(p) /\ ~ UNCHANGED place
      BY <1>1, <3>1 DEF Leave
    <3>4. ~ Insert(p)
      BY <1>1, <3>1, <3>3, InsertCases
    <3>5. ASSUME NEW q \in Procs
          PROVE  /\ \A c : Begin(q, c) => Move(q, "idle", "check")
                 /\ CheckName(q) => Move(q, "check", "act") \/ Leave(q)
                 /\ ResolveName(q) => Move(q, "check", "act") \/ Leave(q)
                 /\ Insert(q) => Move(q, "act", "list") \/ Leave(q)
                 /\ Update(q) => Move(q, "act", "list")
                 /\ ListAll(q) => Move(q, "list", "open")
                 /\ OpenFile(q) => Move(q, "open", "dump")
                 /\ Dump(q) \/ Dies(q) => Leave(q)
      BY DEF Begin, CheckName, ResolveName, Insert, Update, ListAll, OpenFile, Dump, Dies
    <3>6. \A f, t : Move(p, f, t) => f = "act" /\ t = "list"
      BY <1>1, <3>1 DEF Move
    <3>7. UNCHANGED vars => UNCHANGED place
      BY DEF vars, procVars
    <3> QED
      BY <1>1, <3>2, <3>3, <3>4, <3>5, <3>6, <3>7 DEF Next
  <2>2. repos[r].name = command[p].name
    BY <1>1, <2>1, RowsUpdated, LenProperties DEF TypeOK
  <2> QED
    BY <1>1, <2>1, <2>2 DEF UpdatesAimed, Update
<1>2. NameInv /\ [Next]_vars
        => [\A p \in Procs : \A r \in DOMAIN repos :
              place[p] = "act" /\ place'[p] = "list" /\ repos'[r] # repos[r]
                => r = target[p] \/ r > known[p]]_vars
  BY <1>1
<1> QED
  BY <1>2, NamesKept, PTL DEF Spec, UpdateHitsResolved

\* A step leaves a name with its repo, unless it registers a repo under it.
LEMMA MeaningKept ==
  ASSUME TypeOK, [Next]_vars, NEW n, Resolve(n) # 0
  PROVE  Resolve(n)' = Resolve(n) \/ repos'[Resolve(n)'].name = n
<1>0. /\ repos \in Seq(Row) /\ Len(repos) \in Nat /\ DOMAIN repos = 1..Len(repos)
      /\ Named(n) \subseteq 1..Len(repos) /\ Aliased(n) \subseteq 1..Len(repos)
  BY LenProperties DEF TypeOK, Named, Aliased
<1>1. CASE RowsKeepNames
  <2>1. DOMAIN repos' = 1..Len(repos)
    BY <1>1, LenProperties DEF RowsKeepNames
  <2>2. Named(n)' = Named(n) /\ Aliased(n)' = Aliased(n)
    BY <1>0, <1>1, <2>1 DEF RowsKeepNames, Named, Aliased
  <2> QED
    BY <2>2 DEF Resolve, First
<1>2. ASSUME NEW p \in Procs, RowInserted(p), command[p].name = n
      PROVE  repos'[Resolve(n)'].name = n
  <2>1. Len(repos) + 1 \in DOMAIN repos' /\ repos' \in Seq(Row)
    BY <1>0, <1>2, LenProperties DEF RowInserted
  <2>2. Len(repos) + 1 \in Named(n)'
    BY <1>2, <2>1 DEF RowInserted, Named
  <2>3. Named(n)' \subseteq Nat /\ Named(n)' # {}
    BY <2>1, <2>2, LenProperties DEF Named
  <2>4. Min(Named(n)') \in Named(n)'
    BY <2>3, MinIsLeast
  <2>5. Resolve(n)' = Min(Named(n)')
    BY <2>3 DEF Resolve, First
  <2> QED
    BY <2>4, <2>5 DEF Named
<1>3. ASSUME NEW p \in Procs, RowInserted(p), command[p].name # n
      PROVE  Resolve(n)' = Resolve(n)
  <2>1. DOMAIN repos' = 1..(Len(repos) + 1)
    BY <1>3, LenProperties DEF RowInserted
  <2>2. \A r : r \in DOMAIN repos' <=> r \in 1..Len(repos) \/ r = Len(repos) + 1
    BY <1>0, <2>1
  <2>3. Named(n)' = Named(n)
    BY <1>0, <1>3, <2>2 DEF RowInserted, Named
  <2>4. CASE Named(n) # {}
    BY <2>3, <2>4 DEF Resolve, First
  <2>5. CASE Named(n) = {}
    <3>1. Aliased(n) # {} /\ Resolve(n) = Min(Aliased(n))
      BY <2>5 DEF Resolve, First
    <3>2. Aliased(n) \subseteq Aliased(n)'
          /\ \A r \in Aliased(n)' : r \in Aliased(n) \/ r = Len(repos) + 1
      BY <1>0, <1>3, <2>2 DEF RowInserted, Aliased
    <3>3. Min(Aliased(n)) \in Aliased(n) /\ \A r \in Aliased(n) : Min(Aliased(n)) <= r
      BY <1>0, <3>1, MinIsLeast
    <3>4. Min(Aliased(n)) \in 1..Len(repos)
      BY <1>0, <3>3
    <3>5. \A r \in Aliased(n)' : Min(Aliased(n)) <= r
      BY <1>0, <3>2, <3>3, <3>4
    <3>6. Aliased(n)' \subseteq Nat
      BY <1>0, <3>2
    <3>7. Min(Aliased(n)') = Min(Aliased(n))
      BY <3>2, <3>3, <3>5, <3>6, MinIsUnique
    <3>8. Resolve(n)' = Min(Aliased(n)')
      BY <2>3, <2>5, <3>1, <3>2 DEF Resolve, First
    <3> QED
      BY <3>1, <3>7, <3>8
  <2> QED
    BY <2>4, <2>5
<1> QED
  BY <1>1, <1>2, <1>3, RowSteps

\* A name or alias in use keeps its meaning until a repo is registered under it,
\* although nothing compares an alias with names or other aliases.
THEOREM MeaningsStable == Spec => ResolutionStable
<1>1. TypeOK /\ [Next]_vars
        => [\A n \in Names :
              Resolve(n) # 0 => Resolve(n)' = Resolve(n) \/ repos'[Resolve(n)'].name = n]_vars
  BY MeaningKept
<1> QED
  BY <1>1, Types, PTL DEF Spec, ResolutionStable

-----------------------------------------------------------------------------
(* The export.                                                              *)

Exporting == {"list", "open", "dump"}

\* Nobody is between his change and the end of its export: the file is right.
QuietFile ==
  ~ disturbed /\ (\A p \in Procs : place[p] \notin Exporting) => file = repos /\ ~ garbled

\* A command without company is alone, and what it holds and has truncated is
\* still so when it writes.
LoneWriter ==
  \A p \in Busy \ overlapped :
    /\ Busy = {p}
    /\ place[p] \in {"open", "dump"} => held[p] = repos
    /\ place[p] = "dump" => file = <<>> /\ ~ garbled

ExportInv == TypeOK /\ QuietFile /\ LoneWriter

\* A command that ends leaves the company of the others as it was.
LEMMA LeaveAlone ==
  ASSUME ExportInv, NEW p \in Procs, Leave(p), place[p] # "idle", UNCHANGED repos
  PROVE  LoneWriter'
<1>1. \A q \in Procs : q # p => place'[q] = place[q] /\ held'[q] = held[q]
  BY DEF ExportInv, TypeOK, Leave
<1>2. place'[p] = "idle" /\ overlapped' = overlapped \ {p}
  BY DEF ExportInv, TypeOK, Leave
<1>3. ASSUME NEW q \in (Busy \ overlapped)' PROVE FALSE
  <2>1. q # p /\ q \in Busy \ overlapped /\ p \in Busy
    BY <1>1, <1>2, <1>3 DEF Busy
  <2> QED
    BY <2>1 DEF ExportInv, LoneWriter
<1> QED
  BY <1>3 DEF LoneWriter

\* A command that goes on has the same company, and the others stand still.
LEMMA MoveAlone ==
  ASSUME TypeOK, LoneWriter, NEW p \in Procs, NEW from, NEW to, Move(p, from, to),
         from # "idle", to # "idle", UNCHANGED overlapped
  PROVE  /\ Busy' = Busy /\ p \in Busy
         /\ place'[p] = to /\ \A q \in Procs : q # p => place'[q] = place[q]
         /\ \A q \in (Busy \ overlapped)' : q = p /\ p \in Busy \ overlapped /\ Busy' = {q}
<1>1. place'[p] = to /\ \A q \in Procs : q # p => place'[q] = place[q]
  BY DEF TypeOK, Move
<1>2. Busy' = Busy /\ p \in Busy
  BY <1>1 DEF Busy, Move
<1> QED
  BY <1>1, <1>2 DEF LoneWriter

LEMMA ExportStep == ExportInv /\ [Next]_vars => QuietFile' /\ LoneWriter'
<1> SUFFICES ASSUME ExportInv, [Next]_vars PROVE QuietFile' /\ LoneWriter'
  OBVIOUS
<1> USE DEF ExportInv
<1>0. /\ place \in [Procs -> Places] /\ held \in [Procs -> Seq(Row)]
      /\ disturbed \in BOOLEAN /\ garbled \in BOOLEAN
  BY DEF TypeOK
\* Commands that end before they changed anything, or die.
<1>1. ASSUME NEW p \in Procs, Leave(p), place[p] # "idle", UNCHANGED rowVars,
             disturbed \/ place[p] \in Exporting => disturbed'
      PROVE  QuietFile' /\ LoneWriter'
  <2>1. LoneWriter'
    BY <1>1, LeaveAlone DEF rowVars
  <2>2. \A q \in Procs : q # p => place'[q] = place[q]
    BY <1>0, <1>1 DEF Leave
  <2>3. QuietFile'
    BY <1>1, <2>2 DEF QuietFile, rowVars
  <2> QED
    BY <2>1, <2>3
\* Commands that go on and do not touch the file.
<1>2. ASSUME NEW p \in Procs, Move(p, "check", "act"), UNCHANGED <<rowVars, overlapped, disturbed>>
      PROVE  QuietFile' /\ LoneWriter'
  <2>1. /\ place'[p] = "act" /\ place[p] = "check"
        /\ \A q \in Procs : q # p => place'[q] = place[q]
        /\ \A q \in (Busy \ overlapped)' : q = p /\ Busy' = {q}
    BY <1>2, MoveAlone DEF Move
  <2>2. LoneWriter'
    BY <2>1 DEF LoneWriter
  <2>3. QuietFile'
    BY <1>2, <2>1 DEF QuietFile, rowVars, Exporting
  <2> QED
    BY <2>2, <2>3
<1>3. ASSUME NEW p \in Procs, Move(p, "act", "list"), UNCHANGED overlapped
      PROVE  QuietFile' /\ LoneWriter'
  <2>1. /\ place'[p] = "list"
        /\ \A q \in (Busy \ overlapped)' : q = p /\ Busy' = {q}
    BY <1>3, MoveAlone
  <2> QED
    BY <2>1 DEF LoneWriter, QuietFile, Exporting
<1>4. ASSUME NEW p \in Procs, NEW c, Begin(p, c) PROVE QuietFile' /\ LoneWriter'
  <2>1. /\ place'[p] = "check" /\ place[p] = "idle"
        /\ \A q \in Procs : q # p => place'[q] = place[q]
    BY <1>0, <1>4 DEF Begin, Move
  <2>2. Busy' = Busy \cup {p}
    BY <2>1 DEF Busy
  <2>3. QuietFile'
    BY <1>4, <2>1 DEF QuietFile, Begin, rowVars, Exporting
  <2>4. CASE Busy = {}
    <3>1. Busy' = {p} /\ place'[p] = "check"
      BY <2>1, <2>2, <2>4
    <3> QED
      BY <2>3, <3>1 DEF LoneWriter
  <2>5. CASE Busy # {}
    <3>1. (Busy \ overlapped)' = {}
      BY <1>4, <2>2, <2>5 DEF Begin
    <3> QED
      BY <2>3, <3>1 DEF LoneWriter
  <2> QED
    BY <2>4, <2>5
<1>5. ASSUME NEW p \in Procs, CheckName(p) PROVE QuietFile' /\ LoneWriter'
  <2>1. CASE Leave(p)
    <3>1. place[p] = "check" /\ UNCHANGED <<rowVars, disturbed>>
      BY <1>5 DEF CheckName
    <3> QED
      BY <1>1, <2>1, <3>1 DEF Exporting
  <2>2. CASE ~ Leave(p)
    BY <1>2, <1>5, <2>2 DEF CheckName
  <2> QED
    BY <2>1, <2>2
<1>6. ASSUME NEW p \in Procs, ResolveName(p) PROVE QuietFile' /\ LoneWriter'
  <2>1. CASE Leave(p)
    <3>1. place[p] = "check" /\ UNCHANGED <<rowVars, disturbed>>
      BY <1>6 DEF ResolveName
    <3> QED
      BY <1>1, <2>1, <3>1 DEF Exporting
  <2>2. CASE ~ Leave(p)
    BY <1>2, <1>6, <2>2 DEF ResolveName
  <2> QED
    BY <2>1, <2>2
<1>7. ASSUME NEW p \in Procs, Insert(p) PROVE QuietFile' /\ LoneWriter'
  <2>1. CASE place[p] = "act" /\ Leave(p) /\ UNCHANGED repos
    <3>1. UNCHANGED <<rowVars, disturbed>>
      BY <1>7, <2>1 DEF Insert, rowVars
    <3> QED
      BY <1>1, <2>1, <3>1 DEF Exporting
  <2>2. CASE Move(p, "act", "list") /\ UNCHANGED overlapped
    BY <1>3, <2>2
  <2> QED
    BY <1>7, <2>1, <2>2, InsertCases
<1>8. ASSUME NEW p \in Procs, Update(p) PROVE QuietFile' /\ LoneWriter'
  BY <1>3, <1>8 DEF Update
<1>9. ASSUME NEW p \in Procs, ListAll(p) PROVE QuietFile' /\ LoneWriter'
  <2>1. /\ place'[p] = "open" /\ held'[p] = repos'
        /\ \A q \in (Busy \ overlapped)' : q = p /\ Busy' = {q}
    BY <1>0, <1>9, MoveAlone DEF ListAll, rowVars
  <2> QED
    BY <2>1 DEF LoneWriter, QuietFile, Exporting
<1>10. ASSUME NEW p \in Procs, OpenFile(p) PROVE QuietFile' /\ LoneWriter'
  <2>1. /\ place'[p] = "dump" /\ place[p] = "open"
        /\ \A q \in (Busy \ overlapped)' : q = p /\ p \in Busy \ overlapped /\ Busy' = {q}
    BY <1>10, MoveAlone DEF OpenFile, Move
  <2>2. file' = <<>> /\ ~ garbled' /\ UNCHANGED <<repos, held>>
    BY <1>10 DEF OpenFile
  <2>3. LoneWriter'
    BY <2>1, <2>2 DEF LoneWriter
  <2> QED
    BY <2>1, <2>3 DEF QuietFile, Exporting
<1>11. ASSUME NEW p \in Procs, Dump(p) PROVE QuietFile' /\ LoneWriter'
  <2>1. place[p] = "dump" /\ Leave(p) /\ UNCHANGED repos
        /\ file' = held[p] /\ disturbed' = (p \in overlapped)
        /\ garbled' = (garbled \/ Len(file) > Len(held[p]))
    BY <1>11 DEF Dump
  <2>2. LoneWriter'
    BY <2>1, LeaveAlone
  <2>3. CASE p \in overlapped
    BY <2>1, <2>2, <2>3 DEF QuietFile
  <2>4. CASE p \notin overlapped
    <3>1. held[p] = repos /\ file = <<>> /\ ~ garbled
      BY <2>1, <2>4 DEF LoneWriter, Busy
    <3>2. Len(repos) \in Nat /\ Len(file) = 0
      BY <3>1, EmptySeq, LenProperties DEF TypeOK
    <3>3. ~ (Len(file) > Len(held[p]))
      BY <3>1, <3>2
    <3>4. file' = repos' /\ ~ garbled'
      BY <2>1, <3>1, <3>3
    <3> QED
      BY <2>2, <3>4 DEF QuietFile
  <2> QED
    BY <2>3, <2>4
<1>12. ASSUME NEW p \in Procs, Dies(p) PROVE QuietFile' /\ LoneWriter'
  BY <1>1, <1>12 DEF Dies, Exporting
<1>13. CASE UNCHANGED vars
  BY <1>13 DEF vars, rowVars, procVars, QuietFile, LoneWriter, Busy
<1> QED
  BY <1>4, <1>5, <1>6, <1>7, <1>8, <1>9, <1>10, <1>11, <1>12, <1>13 DEF Next

\* When no command is under way repos.json holds the registry, unless its last
\* writer had company or died before it was done.
THEOREM ExportIsTrusted == Spec => []ExportTrusted
<1>1. Init => ExportInv
  <2> SUFFICES ASSUME Init PROVE ExportInv
    OBVIOUS
  <2>1. Busy = {}
    BY DEF Init, Busy
  <2> QED
    BY <2>1, InitTyped DEF Init, ExportInv, QuietFile, LoneWriter
<1>2. ExportInv /\ [Next]_vars => ExportInv'
  BY StepTyped, ExportStep DEF ExportInv
<1>3. ExportInv => ExportTrusted
  BY DEF ExportInv, QuietFile, ExportTrusted, Busy, Exporting
<1> QED
  BY <1>1, <1>2, <1>3, PTL DEF Spec
===============================================================================
