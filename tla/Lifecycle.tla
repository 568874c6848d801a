------------------------------ MODULE Lifecycle ------------------------------
(***************************************************************************)
(* The life of the daemon process and daemon.pid (lib/daemon.py): daemon   *)
(* start, daemon stop, and every command that asks is_daemon_running.      *)
(*                                                                         *)
(* There is no lock.  is_daemon_running reads the file, probes the process *)
(* and, when it finds nobody, removes the file by its name; start forks    *)
(* the daemon after that, and the daemon itself opens and writes the file. *)
(* Each of these is a step, so are the daemon's own steps, its death, and  *)
(* the reuse of its process id by a process that has nothing to do with it.*)
(***************************************************************************)
EXTENDS Naturals, FiniteSets

CONSTANTS
  Pids,        \* process ids
  Callers,     \* shells that run commands, each one command at a time
  None,
  MaxStops,    \* bound: daemon stop commands
  MaxCrossings,\* bound: crossings, see below
  MaxDeaths,   \* bound: crashes, and ticks that raise
  MaxStrangers \* bound: process ids given to other programs

ASSUME LifecycleAssumption ==
  /\ IsFiniteSet(Pids) /\ IsFiniteSet(Callers)
  /\ MaxStops \in Nat /\ MaxCrossings \in Nat /\ MaxDeaths \in Nat /\ MaxStrangers \in Nat
  /\ "empty" \notin Pids
  /\ None \notin Pids \cup {"empty", "start", "stop", "look", "wait"}

VARIABLES
  proc,      \* what lives under a process id
  file,      \* the content of daemon.pid, None without a file
  handles,   \* the daemons whose open descriptor is of the file of that name
  signalled, \* the daemons whose handler has seen SIGTERM
  command,   \* what a caller runs
  at,        \* its place in it
  got,       \* what it read from the file
  crossings, \* history: the commands that began while another one ran, or while a
             \* daemon was between its fork and its file
  stops, deaths, strangers

osVars    == <<proc, signalled>>
fileVars  == <<file, handles>>
callVars  == <<command, at, got>>
boundVars == <<crossings, stops, deaths, strangers>>
vars == <<osVars, fileVars, callVars, boundVars>>

CommandNames == {"start", "stop", "look"}
\* "wait": a stop that has sent its signal.
Activities == CommandNames \cup {"wait", None}
DaemonPlaces == {"born", "opened", "written", "armed", "running", "stopping"}
\* A stranger of the same user can be probed and signalled, a foreign one not.
ProcStates == {"free", "stranger", "foreign"} \cup DaemonPlaces
Contents == Pids \cup {None, "empty"}

TypeOK ==
  /\ proc \in [Pids -> ProcStates]
  /\ file \in Contents
  /\ handles \in SUBSET Pids
  /\ signalled \in SUBSET Pids
  /\ command \in [Callers -> Activities]
  /\ at \in [Callers -> {"idle", "exists", "read", "probe", "unlink", "fork", "signal"}]
  /\ got \in [Callers -> Contents]
  /\ crossings \in 0..MaxCrossings
  /\ stops \in 0..MaxStops /\ deaths \in 0..MaxDeaths /\ strangers \in 0..MaxStrangers

Init ==
  /\ proc = [p \in Pids |-> "free"] /\ signalled = {}
  /\ file = None /\ handles = {}
  /\ command = [c \in Callers |-> None]
  /\ at = [c \in Callers |-> "idle"] /\ got = [c \in Callers |-> None]
  /\ crossings = 0 /\ stops = 0 /\ deaths = 0 /\ strangers = 0

-----------------------------------------------------------------------------
(* The commands.                                                            *)

\* Nobody is in a command, nor in the start of a daemon: start's parent returns
\* right after the fork.  Nothing makes a command wait for this.
Quiet ==
  /\ \A c \in Callers : command[c] = None
  /\ \A p \in Pids : proc[p] \notin {"born", "opened"}

Begin(c, name) ==
  /\ command[c] = None
  /\ name = "stop" => stops < MaxStops
  /\ Quiet \/ crossings < MaxCrossings
  /\ crossings' = IF Quiet THEN crossings ELSE crossings + 1
  /\ stops' = IF name = "stop" THEN stops + 1 ELSE stops
  /\ command' = [command EXCEPT ![c] = name]
  /\ at' = [at EXCEPT ![c] = "exists"]
  /\ UNCHANGED <<osVars, fileVars, got, deaths, strangers>>

Finish(c) ==
  /\ command' = [command EXCEPT ![c] = None]
  /\ at' = [at EXCEPT ![c] = "idle"]
  /\ got' = [got EXCEPT ![c] = None]

\* is_daemon_running found nobody: start goes on to the fork, the others end.
FoundNobody(c) ==
  IF command[c] = "start"
    THEN at' = [at EXCEPT ![c] = "fork"] /\ UNCHANGED <<command, got>>
    ELSE Finish(c)

\* It found a live process: stop goes on to the signal, a stop that waits looks
\* again, a start is refused.
FoundOne(c) ==
  CASE command[c] = "stop" -> at' = [at EXCEPT ![c] = "signal"] /\ UNCHANGED <<command, got>>
    [] command[c] = "wait" -> at' = [at EXCEPT ![c] = "exists"] /\ UNCHANGED <<command, got>>
    [] OTHER -> Finish(c)

LookForFile(c) ==
  /\ at[c] = "exists"
  /\ IF file = None
       THEN FoundNobody(c)
       ELSE at' = [at EXCEPT ![c] = "read"] /\ UNCHANGED <<command, got>>
  /\ UNCHANGED <<osVars, fileVars, boundVars>>

\* The file may be gone by now: FileNotFoundError is not caught.
ReadFile(c) ==
  /\ at[c] = "read"
  /\ IF file = None
       THEN Finish(c)
       ELSE /\ got' = [got EXCEPT ![c] = file]
            /\ at' = [at EXCEPT ![c] = "probe"]
            /\ UNCHANGED command
  /\ UNCHANGED <<osVars, fileVars, boundVars>>

\* Mutant: the answer is read the wrong way round for a daemon.
AnswersStrangers(x) == x \in Pids /\ proc[x] = "stranger"

\* os.kill(pid, 0) succeeds for any process of the user.
Answers(x) == x \in Pids /\ proc[x] \in DaemonPlaces \cup {"stranger"}

\* Mutant: ProcessLookupError is not caught, and the file stays.
ProbeRaises(c) ==
  /\ at[c] = "probe"
  /\ IF Answers(got[c]) THEN FoundOne(c) ELSE Finish(c)
  /\ UNCHANGED <<osVars, fileVars, boundVars>>

Probe(c) ==
  /\ at[c] = "probe"
  /\ IF Answers(got[c])
       THEN FoundOne(c)
       ELSE at' = [at EXCEPT ![c] = "unlink"] /\ UNCHANGED <<command, got>>
  /\ UNCHANGED <<osVars, fileVars, boundVars>>

\* By name: whatever file has the name by now.  A daemon that has its old one
\* open writes into a file without a name.
Unlink == file' = None /\ handles' = {}

\* ValueError, ProcessLookupError, PermissionError: the file is stale.
UnlinkStale(c) ==
  /\ at[c] = "unlink"
  /\ Unlink
  /\ FoundNobody(c)
  /\ UNCHANGED <<osVars, boundVars>>

Fork(c, p) ==
  /\ at[c] = "fork" /\ proc[p] = "free"
  /\ proc' = [proc EXCEPT ![p] = "born"]
  /\ Finish(c)
  /\ UNCHANGED <<signalled, fileVars, boundVars>>

\* os.kill(pid, SIGTERM): a daemon has its handler once it is armed; before, the
\* signal kills it, as it does a stranger.  An error ends the command.
Signal(c) ==
  /\ at[c] = "signal"
  /\ LET p == got[c]
     IN  CASE proc[p] \in {"armed", "running", "stopping"} ->
                signalled' = signalled \cup {p} /\ UNCHANGED proc
           [] proc[p] \in {"born", "opened", "written", "stranger"} ->
                proc' = [proc EXCEPT ![p] = "free"] /\ UNCHANGED signalled
           [] OTHER -> UNCHANGED osVars
  /\ handles' = {p \in handles : proc'[p] = "opened"}
  /\ IF proc[got[c]] \in {"free", "foreign"}
       THEN Finish(c)
       ELSE /\ command' = [command EXCEPT ![c] = "wait"]
            /\ at' = [at EXCEPT ![c] = "exists"]
            /\ UNCHANGED got
  /\ UNCHANGED <<file, boundVars>>

\* After twenty looks: "did not stop in time".
GiveUp(c) ==
  /\ command[c] = "wait" /\ at[c] = "exists"
  /\ Finish(c)
  /\ UNCHANGED <<osVars, fileVars, boundVars>>

-----------------------------------------------------------------------------
(* The daemon.                                                              *)

\* write_text opens and truncates first, and creates the file if need be ...
OpenFile(p) ==
  /\ proc[p] = "born"
  /\ proc' = [proc EXCEPT ![p] = "opened"]
  /\ file' = "empty" /\ handles' = handles \cup {p}
  /\ UNCHANGED <<signalled, callVars, boundVars>>

\* ... and writes then.
WritePid(p) ==
  /\ proc[p] = "opened"
  /\ proc' = [proc EXCEPT ![p] = "written"]
  /\ file' = IF p \in handles THEN p ELSE file
  /\ handles' = handles \ {p}
  /\ UNCHANGED <<signalled, callVars, boundVars>>

SetupSignals(p) ==
  /\ proc[p] = "written"
  /\ proc' = [proc EXCEPT ![p] = "armed"]
  /\ UNCHANGED <<signalled, fileVars, callVars, boundVars>>

\* _running = True: a signal that came first is forgotten.
EnterLoop(p) ==
  /\ proc[p] = "armed"
  /\ proc' = [proc EXCEPT ![p] = "running"]
  /\ signalled' = signalled \ {p}
  /\ UNCHANGED <<fileVars, callVars, boundVars>>

\* Mutant: the file is removed before the Workers are stopped.
LeaveLoopUnlinks(p) ==
  /\ proc[p] = "running"
  /\ \/ p \in signalled /\ UNCHANGED deaths
     \/ deaths < MaxDeaths /\ deaths' = deaths + 1
  /\ proc' = [proc EXCEPT ![p] = "stopping"]
  /\ Unlink
  /\ UNCHANGED <<signalled, callVars, crossings, stops, strangers>>

\* The loop ends on _running, or on a tick that raises; stop_all comes first.
LeaveLoop(p) ==
  /\ proc[p] = "running"
  /\ \/ p \in signalled /\ UNCHANGED deaths
     \/ deaths < MaxDeaths /\ deaths' = deaths + 1
  /\ proc' = [proc EXCEPT ![p] = "stopping"]
  /\ UNCHANGED <<signalled, fileVars, callVars, crossings, stops, strangers>>

\* _remove_pid, whoever the file belongs to, and the exit.
RemovePid(p) ==
  /\ proc[p] = "stopping"
  /\ proc' = [proc EXCEPT ![p] = "free"]
  /\ signalled' = signalled \ {p}
  /\ Unlink
  /\ UNCHANGED <<callVars, boundVars>>

\* Mutant: nobody reaps the process.
DiesUnreaped(p) ==
  /\ proc[p] \in DaemonPlaces /\ deaths < MaxDeaths
  /\ deaths' = deaths + 1
  /\ proc' = [proc EXCEPT ![p] = "zombie"]
  /\ signalled' = signalled \ {p} /\ handles' = handles \ {p}
  /\ UNCHANGED <<file, callVars, crossings, stops, strangers>>

\* SIGKILL, the machine, or a stop_all that raises: the file stays.
Dies(p) ==
  /\ proc[p] \in DaemonPlaces /\ deaths < MaxDeaths
  /\ deaths' = deaths + 1
  /\ proc' = [proc EXCEPT ![p] = "free"]
  /\ signalled' = signalled \ {p} /\ handles' = handles \ {p}
  /\ UNCHANGED <<file, callVars, crossings, stops, strangers>>

-----------------------------------------------------------------------------
(* Other programs.                                                          *)

StrangerAppears(p) ==
  /\ proc[p] = "free" /\ strangers < MaxStrangers
  /\ strangers' = strangers + 1
  /\ \E s \in {"stranger", "foreign"} : proc' = [proc EXCEPT ![p] = s]
  /\ UNCHANGED <<signalled, fileVars, callVars, crossings, stops, deaths>>

StrangerLeaves(p) ==
  /\ proc[p] \in {"stranger", "foreign"}
  /\ proc' = [proc EXCEPT ![p] = "free"]
  /\ UNCHANGED <<signalled, fileVars, callVars, boundVars>>

-----------------------------------------------------------------------------
CommandStep(c) ==
  \/ LookForFile(c) \/ ReadFile(c) \/ Probe(c) \/ UnlinkStale(c)
  \/ Signal(c) \/ GiveUp(c)
  \/ \E p \in Pids : Fork(c, p)

DaemonStep(p) ==
  \/ OpenFile(p) \/ WritePid(p) \/ SetupSignals(p)
  \/ EnterLoop(p) \/ LeaveLoop(p) \/ RemovePid(p)

Next ==
  \/ \E c \in Callers : CommandStep(c) \/ \E name \in CommandNames : Begin(c, name)
  \/ \E p \in Pids : \/ DaemonStep(p) \/ Dies(p)
                     \/ StrangerAppears(p) \/ StrangerLeaves(p)

Spec == Init /\ [][Next]_vars

\* Programs that run go on running, and a stop looks twenty times at most.
\* Somebody, a process supervisor say, gives the start command again and again.
FairSpec ==
  /\ Spec
  /\ \A c \in Callers : /\ WF_vars(CommandStep(c)) /\ SF_vars(GiveUp(c))
                         /\ SF_vars(Begin(c, "start"))
  /\ \A p \in Pids : WF_vars(DaemonStep(p))

-----------------------------------------------------------------------------
(* Properties.                                                              *)

Daemons == {p \in Pids : proc[p] \in DaemonPlaces}

\* "Duplicate starts are refused" (docs): there are never two daemons, one that
\* still starts or already stops included.
OneDaemon == \A p, q \in Daemons : p = q

\* What the file does achieve: every daemon beyond the first takes a command of
\* its own that crossed another command or the start of a daemon.  Crashes, ends,
\* reused process ids and files they leave never make one.
DaemonsExplained == Cardinality(Daemons) <= 1 + crossings

\* Daemons past their start that the file does not name: no status shows them and
\* no stop reaches them.
Hidden == {p \in Daemons : proc[p] \notin {"born", "opened"} /\ file # p}

\* A stale check, the end of an earlier daemon or a second daemon takes the file
\* away from a daemon at most once for every such crossing.
HiddenExplained == Cardinality(Hidden) <= crossings

\* "Stale PID files are detected": whatever a crash left in the file, a daemon
\* comes up again, unless the process id in the file was given to another
\* program of the user, which start takes for the daemon.
ServiceComesBack ==
  []<>(\E p \in Pids : proc[p] \in {"running", "stranger"})
=============================================================================
