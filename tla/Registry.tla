------------------------------- MODULE Registry -------------------------------
(***************************************************************************)
(* The registry of repos (lib/registry.py, the repos table) under the      *)
(* commands create-repo and update-repo, each a process of its own: what   *)
(* it read before the preflight, which asks git, may be stale when it      *)
(* writes, and each ends by exporting all rows to repos.json, a file that  *)
(* is truncated, then written.  A command may be killed at any place.      *)
(*                                                                         *)
(* Nothing in the CLI removes a repo or reads repos.json back: unregister, *)
(* import_json and validate have no caller.                                *)
(***************************************************************************)
EXTENDS Naturals, Sequences, FiniteSets, FiniteSetsExt

CONSTANTS
  Procs,        \* commands that run at the same time
  Names,        \* what a repo may be called, by name or by alias
  NoAlias,
  Entries,      \* the registrations that may come: records of name and alias
  Concurrency,  \* the values of max_concurrency an update may set
  MaxCommands   \* bound: commands

Commands ==
  [op : {"create"}, name : Names, alias : Names \cup {NoAlias}]
    \cup [op : {"update"}, name : Names, conc : Concurrency]
Idle == [op |-> "none", name |-> NoAlias]

Places == {"idle", "check", "act", "list", "open", "dump"}

ASSUME RegistryAssumption ==
  /\ Entries \subseteq [name : Names, alias : Names \cup {NoAlias}]
  /\ Concurrency \subseteq Nat \ {0}
  /\ NoAlias \notin Names
  /\ MaxCommands \in Nat

VARIABLES
  repos,     \* the rows of repos, in the order of their ids
  file,      \* the rows in repos.json
  garbled,   \* repos.json is no JSON: a longer text shows behind a shorter one
  place,     \* what the process does next
  command,   \* the command it runs
  target,    \* the row its name resolved to, 0 if none
  held,      \* the rows it is about to export
  \* history
  known,     \* the number of rows when the process resolved its name
  overlapped,  \* the command ran while another one did
  disturbed,   \* the last change of the file was not a command's alone
  ran        \* commands so far

rowVars  == <<repos, file, garbled>>
procVars == <<place, command, target, held, known>>
vars == <<rowVars, procVars, overlapped, disturbed, ran>>

Row == [name : Names, alias : Names \cup {NoAlias}, conc : Nat \ {0}]

TypeOK ==
  /\ repos \in Seq(Row) /\ file \in Seq(Row) /\ garbled \in BOOLEAN
  /\ place \in [Procs -> Places]
  /\ command \in [Procs -> Commands \cup {Idle}]
  /\ \A p \in Procs : place[p] = "idle" <=> command[p] = Idle
  /\ held \in [Procs -> Seq(Row)]
  /\ target \in [Procs -> 0..Len(repos)] /\ known \in [Procs -> 0..Len(repos)]
  /\ overlapped \subseteq Procs /\ disturbed \in BOOLEAN /\ ran \in 0..MaxCommands

Init ==
  /\ repos = <<>> /\ file = <<>> /\ garbled = FALSE
  /\ place = [p \in Procs |-> "idle"] /\ command = [p \in Procs |-> Idle]
  /\ target = [p \in Procs |-> 0] /\ known = [p \in Procs |-> 0]
  /\ held = [p \in Procs |-> <<>>]
  /\ overlapped = {} /\ disturbed = FALSE /\ ran = 0

-----------------------------------------------------------------------------
Named(n)   == {r \in DOMAIN repos : repos[r].name = n}
Aliased(n) == {r \in DOMAIN repos : repos[r].alias = n}

First(S) == IF S = {} THEN 0 ELSE Min(S)

\* Mutant: of several repos with the alias the newest has it.
LastAlias(n) ==
  IF Named(n) # {} THEN Min(Named(n))
                   ELSE IF Aliased(n) = {} THEN 0 ELSE Max(Aliased(n))

\* get_repo_by_alias: a name goes before an alias; 0 when there is no such repo.
Resolve(n) == IF Named(n) # {} THEN First(Named(n)) ELSE First(Aliased(n))

Busy == {p \in Procs : place[p] # "idle"}

Move(p, from, to) == place[p] = from /\ place' = [place EXCEPT ![p] = to]

\* The process is gone, with or without a traceback.
Leave(p) ==
  /\ place' = [place EXCEPT ![p] = "idle"]
  /\ command' = [command EXCEPT ![p] = Idle]
  /\ target' = [target EXCEPT ![p] = 0]
  /\ held' = [held EXCEPT ![p] = <<>>]
  /\ known' = [known EXCEPT ![p] = 0]
  /\ overlapped' = overlapped \ {p}

Begin(p, c) ==
  /\ Move(p, "idle", "check") /\ ran < MaxCommands
  /\ command' = [command EXCEPT ![p] = c]
  /\ overlapped' = IF Busy = {} THEN overlapped ELSE overlapped \cup Busy \cup {p}
  /\ ran' = ran + 1
  /\ UNCHANGED <<rowVars, target, held, known, disturbed>>

\* register: a taken name is refused, and nothing but the name is compared; an
\* alias may be another repo's name or alias.  The preflight may refuse, too.
CheckName(p) ==
  /\ place[p] = "check" /\ command[p].op = "create"
  /\ \/ /\ Named(command[p].name) = {}
        /\ Move(p, "check", "act")
        /\ UNCHANGED <<command, target, held, known, overlapped>>
     \/ Leave(p)
  /\ UNCHANGED <<rowVars, disturbed, ran>>

\* Mutant: the insert trusts the check, the column is not UNIQUE.
InsertAgain(p) ==
  /\ command[p].op = "create"
  /\ Move(p, "act", "list")
  /\ repos' = Append(repos, [name |-> command[p].name, alias |-> command[p].alias, conc |-> 1])
  /\ UNCHANGED <<file, garbled, command, target, held, known, overlapped, disturbed, ran>>

\* Mutant: max_concurrency defaults to nothing at all.
InsertUnable(p) ==
  /\ command[p].op = "create" /\ Named(command[p].name) = {}
  /\ Move(p, "act", "list")
  /\ repos' = Append(repos, [name |-> command[p].name, alias |-> command[p].alias, conc |-> 0])
  /\ UNCHANGED <<file, garbled, command, target, held, known, overlapped, disturbed, ran>>

\* create_repo: the name is UNIQUE, so when another command was faster the
\* INSERT raises IntegrityError, which nobody expects.
Insert(p) ==
  /\ command[p].op = "create"
  /\ LET c == command[p] IN
     IF Named(c.name) = {}
       THEN /\ Move(p, "act", "list")
            /\ repos' = Append(repos, [name |-> c.name, alias |-> c.alias, conc |-> 1])
            /\ UNCHANGED <<command, target, held, known, overlapped>>
       ELSE place[p] = "act" /\ Leave(p) /\ UNCHANGED repos
  /\ UNCHANGED <<file, garbled, disturbed, ran>>

\* cmd_update_repo: the name or alias must resolve, the preflight may refuse.
ResolveName(p) ==
  /\ place[p] = "check" /\ command[p].op = "update"
  /\ LET r == Resolve(command[p].name) IN
     \/ /\ r # 0
        /\ Move(p, "check", "act")
        /\ target' = [target EXCEPT ![p] = r]
        /\ known' = [known EXCEPT ![p] = Len(repos)]
        /\ UNCHANGED <<command, held, overlapped>>
     \/ Leave(p)
  /\ UNCHANGED <<rowVars, disturbed, ran>>

\* Mutant: the update goes to every row that answers to the name.
UpdateAll(p) ==
  /\ command[p].op = "update"
  /\ Move(p, "act", "list")
  /\ LET c == command[p] IN
     repos' = [r \in DOMAIN repos |->
                 IF c.name \in {repos[r].name, repos[r].alias}
                   THEN [repos[r] EXCEPT !.conc = c.conc] ELSE repos[r]]
  /\ UNCHANGED <<file, garbled, command, target, held, known, overlapped, disturbed, ran>>

\* update_repo: UPDATE ... WHERE name = the argument, whatever it resolved to.
\* Under an alias no row changes, and the command says that the repo was updated.
Update(p) ==
  /\ command[p].op = "update"
  /\ Move(p, "act", "list")
  /\ LET c == command[p] IN
     repos' = [r \in DOMAIN repos |->
                 IF repos[r].name = c.name THEN [repos[r] EXCEPT !.conc = c.conc] ELSE repos[r]]
  /\ UNCHANGED <<file, garbled, command, target, held, known, overlapped, disturbed, ran>>

\* Mutant: the rows to export are read with the check, before the change.
ListEarly(p) ==
  /\ Move(p, "list", "open")
  /\ held' = [held EXCEPT ![p] = SubSeq(repos, 1, known[p])]
  /\ UNCHANGED <<rowVars, command, target, known, overlapped, disturbed, ran>>

\* export_json: list_all, open(path, "w"), json.dump and close.
ListAll(p) ==
  /\ Move(p, "list", "open")
  /\ held' = [held EXCEPT ![p] = repos]
  /\ UNCHANGED <<rowVars, command, target, known, overlapped, disturbed, ran>>

OpenFile(p) ==
  /\ Move(p, "open", "dump")
  /\ file' = <<>> /\ garbled' = FALSE
  /\ UNCHANGED <<repos, command, target, held, known, overlapped, disturbed, ran>>

\* Written from the start of the file: what is longer stays visible behind it.
Dump(p) ==
  /\ place[p] = "dump"
  /\ file' = held[p]
  /\ garbled' = (garbled \/ Len(file) > Len(held[p]))
  /\ disturbed' = (p \in overlapped)
  /\ Leave(p)
  /\ UNCHANGED <<repos, ran>>

Dies(p) ==
  /\ place[p] # "idle"
  /\ disturbed' = (disturbed \/ place[p] \in {"list", "open", "dump"})
  /\ Leave(p)
  /\ UNCHANGED <<rowVars, ran>>

-----------------------------------------------------------------------------
Next ==
  \/ \E p \in Procs, e \in Entries :
        Begin(p, [op |-> "create", name |-> e.name, alias |-> e.alias])
  \/ \E p \in Procs, n \in Names, c \in Concurrency :
        Begin(p, [op |-> "update", name |-> n, conc |-> c])
  \/ \E p \in Procs : \/ CheckName(p) \/ Insert(p) \/ ResolveName(p) \/ Update(p)
                      \/ ListAll(p) \/ OpenFile(p) \/ Dump(p) \/ Dies(p)

Spec == Init /\ [][Next]_vars

-----------------------------------------------------------------------------
(* Properties.                                                              *)

\* A registered repo is reached by its own name: two commands that both found the
\* name free do not both get it, and no alias covers it.
NameReachesRepo == \A r \in DOMAIN repos : Resolve(repos[r].name) = r

\* A name or alias in use goes on meaning the same repo, until a repo is
\* registered under that very name: jobs dispatched under one name stay together.
ResolutionStable ==
  [][\A n \in Names :
       Resolve(n) # 0 => Resolve(n)' = Resolve(n) \/ repos'[Resolve(n)'].name = n]_vars

\* An update changes the repo its name meant when the command began, or one that
\* was registered since.
UpdateHitsResolved ==
  [][\A p \in Procs : \A r \in DOMAIN repos :
       place[p] = "act" /\ place'[p] = "list" /\ repos'[r] # repos[r]
         => r = target[p] \/ r > known[p]]_vars

\* With no command under way repos.json holds the registry, unless the last
\* command that wrote it ran beside another one, or one died before it was done.
ExportTrusted == Busy = {} /\ ~ disturbed => file = repos /\ ~ garbled
=============================================================================
