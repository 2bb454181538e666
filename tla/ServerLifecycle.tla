--------------------------- MODULE ServerLifecycle ---------------------------
(***************************************************************************)
(* The gateway as a process, cmd/installgate/server.go: installgate start  *)
(* and stop, the server they start and stop, and the PID file through      *)
(* which they know of one another.                                         *)
(*                                                                         *)
(* Commands and servers are processes that interleave freely; a step is    *)
(* one access to the PID file, the port, or another process.  Nothing      *)
(* locks the PID file.                                                     *)
(***************************************************************************)
EXTENDS Integers, FiniteSets

CONSTANTS
    Commands,   \* start and stop commands that may run at the same time
    MaxPid,     \* bound on the servers ever started
    Missing,    \* no PID file
    Blank       \* a PID file between truncation and writing

Pids == 1 .. MaxPid

ASSUME PidAssumption == MaxPid \in Nat
ASSUME FileAssumption == Missing \notin Pids /\ Blank \notin Pids \cup {Missing}

VARIABLES
    pidFile,
    phase,      \* each server: where runServerForeground is
    term,       \* was it sent SIGTERM after signal.Notify?
    unlinked,   \* was the PID file it has open for writing removed?
    pc,         \* each command
    target,     \* the process it spawned or read from the PID file
    overlap     \* history: did the last start meet a server or a stop?

serverVars  == <<phase, term, unlinked>>
commandVars == <<pc, target>>
vars        == <<pidFile, serverVars, commandVars, overlap>>

Phases   == {"none", "begin", "writing", "opening", "binding", "bound", "serving",
             "closing", "exiting", "dead"}
Starting == {"begin", "writing", "opening", "binding"}
Stopping == {"signal", "wait", "remove"}

\* Every variable has its type.
TypeOK ==
    /\ pidFile \in Pids \cup {Missing, Blank}
    /\ phase \in [Pids -> Phases] /\ term \in [Pids -> BOOLEAN]
    /\ unlinked \in [Pids -> BOOLEAN]
    /\ pc \in [Commands -> {"idle", "check", "poll"} \cup Stopping]
    /\ target \in [Commands -> Pids \cup {0}]
    /\ \A c \in Commands : pc[c] \in Stopping => target[c] \in Pids
    /\ overlap \in BOOLEAN

Init ==
    /\ pidFile = Missing
    /\ phase = [s \in Pids |-> "none"] /\ term = [s \in Pids |-> FALSE]
    /\ unlinked = [s \in Pids |-> FALSE]
    /\ pc = [c \in Commands |-> "idle"] /\ target = [c \in Commands |-> 0]
    /\ overlap = FALSE

Alive(s)   == phase[s] \notin {"none", "dead"}
Holds(s)   == phase[s] \in {"bound", "serving"}
Serving    == {s \in Pids : phase[s] = "serving"}

To(s, point) == phase' = [phase EXCEPT ![s] = point]
Die(s)       == /\ To(s, "dead")
                /\ term' = [term EXCEPT ![s] = FALSE]
                /\ unlinked' = [unlinked EXCEPT ![s] = FALSE]
Go(c, point) == pc' = [pc EXCEPT ![c] = point]
Return(c)    == Go(c, "idle") /\ target' = [target EXCEPT ![c] = 0]

\* os.Remove; a server that is about to write keeps a file without a name.
RemovePidFile ==
    /\ pidFile' = Missing
    /\ unlinked' = [s \in Pids |-> unlinked[s] \/ phase[s] = "writing"]

\* Another server is alive, or a stop command is under way.
Crowded(s) == \/ \E t \in Pids \ {s} : Alive(t)
              \/ \E c \in Commands : pc[c] \in Stopping

-----------------------------------------------------------------------------
(* runServerForeground.                                                    *)

\* os.WriteFile truncates the PID file ...
TruncatePidFile(s) ==
    /\ phase[s] = "begin"
    /\ pidFile' = Blank
    /\ To(s, "writing")
    /\ overlap' = Crowded(s)
    /\ UNCHANGED <<term, unlinked, commandVars>>

\* Mutant: a PID file that exists already is left alone.
WritePidFileOnce(s) ==
    /\ phase[s] = "writing"
    /\ pidFile' = IF \E t \in Pids : phase[t] = "dead" THEN CHOOSE t \in Pids : phase[t] = "dead"
                  ELSE s
    /\ To(s, "opening")
    /\ overlap' = (overlap \/ Crowded(s))
    /\ UNCHANGED <<term, unlinked, commandVars>>

\* ... and then writes it.
WritePidFile(s) ==
    /\ phase[s] = "writing"
    /\ pidFile' = IF unlinked[s] THEN pidFile ELSE s
    /\ To(s, "opening")
    /\ overlap' = (overlap \/ Crowded(s))
    /\ UNCHANGED <<term, unlinked, commandVars>>

\* Database, migrations, policy, engine, handler.  os.Exit runs no deferred
\* function: the PID file stays.
OpenStore(s) ==
    /\ phase[s] = "opening"
    /\ \/ To(s, "binding") /\ UNCHANGED <<term, unlinked>>
       \/ Die(s)
    /\ UNCHANGED <<pidFile, commandVars, overlap>>

\* net.Listen fails when the port is taken.
Listen(s) ==
    /\ phase[s] = "binding"
    /\ IF \E t \in Pids : Holds(t) THEN Die(s) ELSE To(s, "bound") /\ UNCHANGED <<term, unlinked>>
    /\ UNCHANGED <<pidFile, commandVars, overlap>>

\* signal.Notify and Serve.
Serve(s) ==
    /\ phase[s] = "bound"
    /\ To(s, "serving")
    /\ UNCHANGED <<pidFile, term, unlinked, commandVars, overlap>>

\* The signal goroutine: Shutdown closes the listener, and at that moment Serve
\* returns in the main goroutine, whatever requests are still in flight.
Shutdown(s) ==
    /\ phase[s] = "serving" /\ term[s]
    /\ To(s, "closing")
    /\ UNCHANGED <<pidFile, term, unlinked, commandVars, overlap>>

\* The main goroutine's deferred calls: close the database, remove the file.
DeferredRemove(s) ==
    /\ phase[s] = "closing"
    /\ RemovePidFile
    /\ To(s, "exiting")
    /\ UNCHANGED <<term, commandVars, overlap>>

\* The signal goroutine removes it too, if Shutdown returns before the process
\* has gone.
SignalRemove(s) ==
    /\ phase[s] \in {"closing", "exiting"}
    /\ RemovePidFile
    /\ UNCHANGED <<phase, term, commandVars, overlap>>

Exit(s) ==
    /\ phase[s] = "exiting"
    /\ Die(s)
    /\ UNCHANGED <<pidFile, commandVars, overlap>>

\* The process is killed by something else.
Crash(s) ==
    /\ Alive(s)
    /\ Die(s)
    /\ UNCHANGED <<pidFile, commandVars, overlap>>

-----------------------------------------------------------------------------
(* The commands.                                                           *)

\* The next process identifier that was never used.
Fresh == {s \in Pids : phase[s] = "none" /\ \A t \in Pids : t < s => phase[t] # "none"}

\* installgate start --foreground, from a terminal or a supervisor.
StartForeground ==
    /\ \E s \in Fresh : To(s, "begin")
    /\ UNCHANGED <<pidFile, term, unlinked, commandVars, overlap>>

runServerDaemon(c) ==
    /\ pc[c] = "idle"
    /\ Go(c, "check")
    /\ UNCHANGED <<pidFile, serverVars, target, overlap>>

\* "already running", unless the server needs more than a second to answer.
AlreadyRunning(c) ==
    /\ pc[c] = "check" /\ Serving # {}
    /\ Return(c)
    /\ UNCHANGED <<pidFile, serverVars, overlap>>

Spawn(c) ==
    /\ pc[c] = "check"
    /\ \E s \in Fresh : To(s, "begin") /\ target' = [target EXCEPT ![c] = s]
    /\ Go(c, "poll")
    /\ UNCHANGED <<pidFile, term, unlinked, overlap>>

SpawnFails(c) ==
    /\ pc[c] = "check"
    /\ Return(c)
    /\ UNCHANGED <<pidFile, serverVars, overlap>>

\* Any server that answers will do, not only the one that was spawned.
Ready(c) ==
    /\ pc[c] = "poll" /\ Serving # {}
    /\ Return(c)
    /\ UNCHANGED <<pidFile, serverVars, overlap>>

\* Mutant: the poll has no deadline.
PollForever(c) ==
    /\ pc[c] = "poll"
    /\ Serving # {}
    /\ Return(c)
    /\ UNCHANGED <<pidFile, serverVars, overlap>>

\* Five seconds are over; the child is left to itself.
PollTimesOut(c) ==
    /\ pc[c] = "poll"
    /\ Return(c)
    /\ UNCHANGED <<pidFile, serverVars, overlap>>

\* runStop reads the PID file.  Without one it fails; one without a number is
\* removed.
runStop(c) ==
    /\ pc[c] = "idle"
    /\ overlap' = (overlap \/ \E s \in Pids : phase[s] \in Starting)
    /\ \/ pidFile = Missing /\ UNCHANGED <<pidFile, serverVars, commandVars>>
       \/ pidFile = Blank /\ RemovePidFile /\ UNCHANGED <<phase, term, commandVars>>
       \/ /\ pidFile \in Pids
          /\ Go(c, "signal") /\ target' = [target EXCEPT ![c] = pidFile]
          /\ UNCHANGED <<pidFile, serverVars>>

\* SIGTERM ends a process that has not called signal.Notify yet.
Signal(c) ==
    LET s == target[c]
    IN  /\ pc[c] = "signal"
        /\ Go(c, "wait")
        /\ \/ phase[s] \in Starting \cup {"bound"} /\ Die(s)
           \/ /\ phase[s] = "serving"
              /\ term' = [term EXCEPT ![s] = TRUE] /\ UNCHANGED <<phase, unlinked>>
           \/ phase[s] \in {"closing", "exiting", "dead"} /\ UNCHANGED serverVars
        /\ UNCHANGED <<pidFile, target, overlap>>

Gone(c) ==
    /\ pc[c] = "wait" /\ ~Alive(target[c])
    /\ Go(c, "remove")
    /\ UNCHANGED <<pidFile, serverVars, target, overlap>>

\* Mutant: after five seconds the process is taken to be gone.
WaitGivesUp(c) ==
    /\ pc[c] = "wait" /\ Alive(target[c])
    /\ Go(c, "remove")
    /\ UNCHANGED <<pidFile, serverVars, target, overlap>>

\* Five seconds are over: proc.Kill.
WaitTimesOut(c) ==
    /\ pc[c] = "wait" /\ Alive(target[c])
    /\ Die(target[c])
    /\ Go(c, "remove")
    /\ UNCHANGED <<pidFile, target, overlap>>

\* The PID file is removed, whoever wrote it: "InstallGate gateway stopped".
Stopped(c) ==
    /\ pc[c] = "remove"
    /\ RemovePidFile
    /\ Return(c)
    /\ UNCHANGED <<phase, term, overlap>>

-----------------------------------------------------------------------------
runServerForeground(s) ==
    \/ TruncatePidFile(s) \/ WritePidFile(s) \/ OpenStore(s) \/ Listen(s) \/ Serve(s)
    \/ Shutdown(s) \/ DeferredRemove(s) \/ Exit(s)

Step(c) ==
    \/ AlreadyRunning(c) \/ Spawn(c) \/ SpawnFails(c) \/ Ready(c) \/ PollTimesOut(c)
    \/ Signal(c) \/ Gone(c) \/ WaitTimesOut(c) \/ Stopped(c)

Next ==
    \/ \E s \in Pids : runServerForeground(s) \/ SignalRemove(s) \/ Crash(s)
    \/ \E c \in Commands : runServerDaemon(c) \/ runStop(c) \/ Step(c)
    \/ StartForeground

\* Processes are scheduled and deadlines pass; nobody has to run a command.
Spec ==
    /\ Init /\ [][Next]_vars
    /\ \A s \in Pids : WF_vars(runServerForeground(s))
    /\ \A c \in Commands : WF_vars(Step(c))

-----------------------------------------------------------------------------
(* Properties.                                                             *)

\* Unless its start met another server or a stop command, the server that
\* answers is the one the PID file names, so that stop finds it: also after
\* crashes, failed starts and stale PID files.
PidFileNamesServer == \A s \in Serving : ~overlap => pidFile = s

\* When stop reports success no server is answering, under the same condition.
StopMeansStopped ==
    [][\A c \in Commands : pc[c] = "remove" /\ pc'[c] = "idle" /\ ~overlap => Serving = {}]_vars

\* Every command comes to an end, whatever the others do.
CommandsReturn == \A c \in Commands : pc[c] # "idle" ~> pc[c] = "idle"
==============================================================================
