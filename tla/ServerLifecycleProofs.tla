----------------------- MODULE ServerLifecycleProofs -----------------------
(***************************************************************************)
(* Proofs about ServerLifecycle, for any number of commands and servers.   *)
(*                                                                         *)
(* That the PID file names the server that answers says nothing of the     *)
(* many steps before it: that nobody removed the file the server is still  *)
(* writing, and that no stop command is about to remove it.  The inductive *)
(* invariant follows the one server that has touched the PID file since    *)
(* the last start that met nobody (Sole), and what a stop command knows of *)
(* its target (Aimed).                                                     *)
(***************************************************************************)
EXTENDS ServerLifecycle, TLAPS

-----------------------------------------------------------------------------
(* The inductive invariant.                                                *)

\* A server between truncating the PID file and its end.
Active(s) == phase[s] \notin {"none", "begin", "dead"}

\* A server that has not opened the PID file yet has lost nothing.
Fresher == \A s \in Pids : phase[s] \in {"none", "begin"} => ~unlinked[s]

\* A PID in the file, or in a stop command, was given to a process, and the
\* command removes the file only when that process is dead.
Aimed ==
    /\ pidFile \in Pids => phase[pidFile] # "none"
    /\ \A c \in Commands :
          /\ pc[c] \in Stopping => phase[target[c]] # "none"
          /\ pc[c] = "remove" => phase[target[c]] = "dead"

\* The only server that has touched the PID file, and every stop command that
\* is under way is about this server.
Sole(s) ==
    /\ \A t \in Pids : Active(t) => t = s
    /\ phase[s] = "writing" => ~unlinked[s]
    /\ phase[s] \in {"opening", "binding", "bound", "serving"} => pidFile = s
    /\ phase[s] \in {"closing", "exiting"} => pidFile \in {s, Missing}
    /\ \A c \in Commands : pc[c] \in Stopping => phase[s] \notin Starting /\ target[c] = s

Undisturbed == ~overlap => \A s \in Pids : Active(s) => Sole(s)

IInv == TypeOK /\ Fresher /\ Aimed /\ Undisturbed

-----------------------------------------------------------------------------
(* Steps of a server.                                                      *)

\* A process moves.
LEMMA ToPhase ==
    ASSUME TypeOK, NEW s \in Pids, NEW point \in Phases, To(s, point)
    PROVE  /\ phase' \in [Pids -> Phases] /\ phase'[s] = point
           /\ \A t \in Pids : t # s => phase'[t] = phase[t]
BY DEF TypeOK, To

\* A process dies.
LEMMA DiePhase ==
    ASSUME TypeOK, NEW s \in Pids, Die(s)
    PROVE  /\ phase' \in [Pids -> Phases] /\ phase'[s] = "dead"
           /\ \A t \in Pids : t # s => phase'[t] = phase[t]
           /\ term' \in [Pids -> BOOLEAN] /\ unlinked' \in [Pids -> BOOLEAN]
           /\ \A t \in Pids : ~unlinked[t] => ~unlinked'[t]
<1>1. "dead" \in Phases /\ To(s, "dead")
  BY DEF Phases, Die
<1>2. term' = [term EXCEPT ![s] = FALSE] /\ unlinked' = [unlinked EXCEPT ![s] = FALSE]
  BY DEF Die
<1>3. term' \in [Pids -> BOOLEAN] /\ unlinked' \in [Pids -> BOOLEAN]
  BY <1>2 DEF TypeOK
<1>4. \A t \in Pids : ~unlinked[t] => ~unlinked'[t]
  BY <1>2 DEF TypeOK
<1> QED
  BY <1>1, <1>3, <1>4, ToPhase

\* A server that goes on without touching the PID file, or dies.
LEMMA ServerMove ==
    ASSUME IInv, NEW s \in Pids, Alive(s), UNCHANGED <<pidFile, commandVars, overlap>>,
           phase' \in [Pids -> Phases], \A t \in Pids : t # s => phase'[t] = phase[t],
           \/ phase'[s] = "dead"
           \/ phase[s] = "opening" /\ phase'[s] = "binding"
           \/ phase[s] = "binding" /\ phase'[s] = "bound"
           \/ phase[s] = "bound" /\ phase'[s] = "serving"
           \/ phase[s] = "serving" /\ phase'[s] = "closing",
           term' \in [Pids -> BOOLEAN], unlinked' \in [Pids -> BOOLEAN],
           \A t \in Pids : ~unlinked[t] => ~unlinked'[t]
    PROVE  IInv'
<1>0. TypeOK /\ Fresher /\ Aimed /\ Undisturbed /\ UNCHANGED <<pc, target>>
  BY DEF IInv, commandVars
<1>1. TypeOK'
  BY <1>0 DEF TypeOK, commandVars
<1>2. Fresher'
  BY <1>0 DEF Fresher
<1>3. Aimed'
  BY <1>0 DEF Aimed, Alive, TypeOK, Stopping
<1>4. Undisturbed'
  <2> SUFFICES ASSUME ~overlap', NEW t \in Pids, Active(t)' PROVE Sole(t)'
    BY DEF Undisturbed
  <2>1. Active(t)
    BY DEF Active
  <2>2. Sole(t)
    BY <1>0, <2>1 DEF Undisturbed
  <2>3. \A u \in Pids : Active(u)' => u = t
    BY <2>2 DEF Sole, Active
  <2> QED
    BY <1>0, <2>1, <2>2, <2>3 DEF Sole, Active, Starting
<1> QED
  BY <1>1, <1>2, <1>3, <1>4 DEF IInv

\* Opening the database, listening, serving, shutting down, exiting, crashing.
LEMMA GoesOn ==
    ASSUME IInv, NEW s \in Pids,
           OpenStore(s) \/ Listen(s) \/ Serve(s) \/ Shutdown(s) \/ Exit(s) \/ Crash(s)
    PROVE  IInv'
<1>0. TypeOK /\ Alive(s) /\ UNCHANGED <<pidFile, commandVars, overlap>>
  BY DEF IInv, OpenStore, Listen, Serve, Shutdown, Exit, Crash, Alive
<1>1. CASE Die(s)
  BY <1>0, <1>1, DiePhase, ServerMove
<1>2. ASSUME NEW point \in Phases, To(s, point), UNCHANGED <<term, unlinked>>,
             \/ phase[s] = "opening" /\ point = "binding"
             \/ phase[s] = "binding" /\ point = "bound"
             \/ phase[s] = "bound" /\ point = "serving"
             \/ phase[s] = "serving" /\ point = "closing"
      PROVE  IInv'
  <2>1. /\ phase' \in [Pids -> Phases] /\ phase'[s] = point
        /\ \A t \in Pids : t # s => phase'[t] = phase[t]
    BY <1>0, <1>2, ToPhase
  <2>2. term' \in [Pids -> BOOLEAN] /\ unlinked' \in [Pids -> BOOLEAN] /\ unlinked' = unlinked
    BY <1>0, <1>2 DEF TypeOK
  <2> QED
    BY <1>0, <1>2, <2>1, <2>2, ServerMove
<1>3. {"binding", "bound", "serving", "closing"} \subseteq Phases
  BY DEF Phases
<1> QED
  BY <1>1, <1>2, <1>3 DEF OpenStore, Listen, Serve, Shutdown, Exit, Crash

\* From here a server that meets nobody is the only one.
LEMMA TruncateStep ==
    ASSUME IInv, NEW s \in Pids, TruncatePidFile(s)
    PROVE  IInv'
<1>0. /\ TypeOK /\ Fresher /\ Aimed /\ phase[s] = "begin" /\ pidFile' = Blank
      /\ To(s, "writing") /\ UNCHANGED <<term, unlinked, pc, target>> /\ "writing" \in Phases
  BY DEF IInv, TruncatePidFile, commandVars, Phases
<1>1. /\ phase' \in [Pids -> Phases] /\ phase'[s] = "writing"
      /\ \A t \in Pids : t # s => phase'[t] = phase[t]
  BY <1>0, ToPhase
<1>2. overlap' \in BOOLEAN /\ (~overlap' => ~Crowded(s))
  <2>1. overlap' = Crowded(s) /\ Crowded(s) \in BOOLEAN
    BY DEF TruncatePidFile, Crowded
  <2> QED
    BY <2>1
<1>3. TypeOK'
  BY <1>0, <1>1, <1>2 DEF TypeOK
<1>4. Fresher'
  BY <1>0, <1>1 DEF Fresher
<1>5. Aimed'
  BY <1>0, <1>1, FileAssumption DEF Aimed, TypeOK, Stopping
<1>6. Undisturbed'
  <2> SUFFICES ASSUME ~overlap', NEW t \in Pids, Active(t)' PROVE Sole(t)'
    BY DEF Undisturbed
  <2>1. (\A u \in Pids \ {s} : ~Alive(u)) /\ \A c \in Commands : pc[c] \notin Stopping
    BY <1>2 DEF Crowded
  <2>2. \A u \in Pids : Active(u)' => u = s
    BY <1>1, <2>1 DEF Active, Alive
  <2>3. t = s /\ ~unlinked'[s]
    BY <1>0, <2>2 DEF Fresher
  <2> QED
    BY <1>0, <1>1, <2>1, <2>2, <2>3 DEF Sole
<1> QED
  BY <1>3, <1>4, <1>5, <1>6 DEF IInv

\* It writes its own file, which nobody has removed.
LEMMA WriteStep ==
    ASSUME IInv, NEW s \in Pids, WritePidFile(s)
    PROVE  IInv'
<1>0. /\ TypeOK /\ Fresher /\ Aimed /\ Undisturbed /\ phase[s] = "writing"
      /\ pidFile' = IF unlinked[s] THEN pidFile ELSE s
      /\ To(s, "opening") /\ UNCHANGED <<term, unlinked, pc, target>> /\ "opening" \in Phases
  BY DEF IInv, WritePidFile, commandVars, Phases
<1>1. /\ phase' \in [Pids -> Phases] /\ phase'[s] = "opening"
      /\ \A t \in Pids : t # s => phase'[t] = phase[t]
  BY <1>0, ToPhase
<1>2. overlap' \in BOOLEAN /\ (~overlap' => ~overlap /\ ~Crowded(s))
  <2>1. overlap' = (overlap \/ Crowded(s)) /\ Crowded(s) \in BOOLEAN /\ overlap \in BOOLEAN
    BY <1>0 DEF WritePidFile, Crowded, TypeOK
  <2> QED
    BY <2>1
<1>3. TypeOK'
  BY <1>0, <1>1, <1>2 DEF TypeOK
<1>4. Fresher'
  BY <1>0, <1>1 DEF Fresher
<1>5. Aimed'
  BY <1>0, <1>1 DEF Aimed, TypeOK, Stopping
<1>6. Undisturbed'
  <2> SUFFICES ASSUME ~overlap', NEW t \in Pids, Active(t)' PROVE Sole(t)'
    BY DEF Undisturbed
  <2>1. Sole(s)
    BY <1>0, <1>2 DEF Undisturbed, Active
  <2>2. \A u \in Pids : Active(u)' => u = s
    BY <1>1, <2>1 DEF Sole, Active
  <2>3. \A c \in Commands : pc[c] \notin Stopping
    BY <1>2 DEF Crowded
  <2>4. t = s /\ pidFile' = s
    BY <1>0, <2>1, <2>2 DEF Sole
  <2> QED
    BY <1>0, <1>1, <2>2, <2>3, <2>4 DEF Sole
<1> QED
  BY <1>3, <1>4, <1>5, <1>6 DEF IInv

\* The PID file is removed; a server that is writing it loses it.
LEMMA RemoveType ==
    ASSUME TypeOK, RemovePidFile
    PROVE  /\ pidFile' = Missing /\ unlinked' \in [Pids -> BOOLEAN]
           /\ \A t \in Pids : ~unlinked[t] /\ phase[t] # "writing" => ~unlinked'[t]
<1>1. \A t \in Pids : (unlinked[t] \/ phase[t] = "writing") \in BOOLEAN
  BY DEF TypeOK
<1>2. unlinked' = [t \in Pids |-> unlinked[t] \/ phase[t] = "writing"]
  BY DEF RemovePidFile
<1>3. unlinked' \in [Pids -> BOOLEAN]
  BY <1>1, <1>2, Zenon
<1>4. \A t \in Pids : ~unlinked[t] /\ phase[t] # "writing" => ~unlinked'[t]
  BY <1>2, Zenon
<1> QED
  BY <1>3, <1>4 DEF RemovePidFile

\* A server removes the PID file on its way out.
LEMMA RemoveStep ==
    ASSUME IInv, NEW s \in Pids, DeferredRemove(s) \/ SignalRemove(s)
    PROVE  IInv'
<1>0. /\ TypeOK /\ Fresher /\ Aimed /\ Undisturbed /\ phase[s] \in {"closing", "exiting"}
      /\ RemovePidFile /\ UNCHANGED <<term, pc, target, overlap>> /\ "exiting" \in Phases
  BY DEF IInv, DeferredRemove, SignalRemove, commandVars, Phases
<1>1. /\ phase' \in [Pids -> Phases] /\ phase'[s] \in {"closing", "exiting"}
      /\ \A t \in Pids : t # s => phase'[t] = phase[t]
  <2>1. CASE DeferredRemove(s)
    BY <1>0, <2>1, ToPhase DEF DeferredRemove
  <2>2. CASE SignalRemove(s)
    BY <1>0, <2>2 DEF SignalRemove, TypeOK
  <2> QED
    BY <2>1, <2>2
<1>2. /\ pidFile' = Missing /\ unlinked' \in [Pids -> BOOLEAN]
      /\ \A t \in Pids : ~unlinked[t] /\ phase[t] # "writing" => ~unlinked'[t]
  BY <1>0, RemoveType
<1>3. TypeOK'
  BY <1>0, <1>1, <1>2 DEF TypeOK
<1>4. Fresher'
  BY <1>0, <1>1, <1>2 DEF Fresher
<1>5. Aimed'
  BY <1>0, <1>1, <1>2, FileAssumption DEF Aimed, TypeOK, Stopping
<1>6. Undisturbed'
  <2> SUFFICES ASSUME ~overlap', NEW t \in Pids, Active(t)' PROVE Sole(t)'
    BY DEF Undisturbed
  <2>1. Sole(s)
    BY <1>0 DEF Undisturbed, Active
  <2>2. \A u \in Pids : Active(u)' => u = s
    BY <1>1, <2>1 DEF Sole, Active
  <2>3. t = s
    BY <2>2
  <2> QED
    BY <1>0, <1>1, <1>2, <2>1, <2>2, <2>3 DEF Sole, Starting
<1> QED
  BY <1>3, <1>4, <1>5, <1>6 DEF IInv

-----------------------------------------------------------------------------
(* Steps of a command.                                                     *)

\* A new process has touched nothing.
LEMMA BeginStep ==
    ASSUME IInv, NEW s \in Fresh, To(s, "begin"), UNCHANGED <<pidFile, term, unlinked, overlap>>,
           \/ UNCHANGED commandVars
           \/ \E c \in Commands : /\ pc[c] = "check" /\ Go(c, "poll")
                                  /\ target' = [target EXCEPT ![c] = s]
    PROVE  IInv'
<1>0. /\ TypeOK /\ Fresher /\ Aimed /\ Undisturbed /\ s \in Pids /\ phase[s] = "none"
      /\ "begin" \in Phases
  BY DEF IInv, Fresh, Phases
<1>1. /\ phase' \in [Pids -> Phases] /\ phase'[s] = "begin"
      /\ \A t \in Pids : t # s => phase'[t] = phase[t]
  BY <1>0, ToPhase
<1>2. /\ pc' \in [Commands -> {"idle", "check", "poll"} \cup Stopping]
      /\ target' \in [Commands -> Pids \cup {0}]
      /\ \A c \in Commands : pc'[c] \in Stopping =>
            pc'[c] = pc[c] /\ target'[c] = target[c] /\ target[c] \in Pids
  BY <1>0 DEF TypeOK, commandVars, Go, Stopping
<1>3. TypeOK'
  BY <1>0, <1>1, <1>2 DEF TypeOK
<1>4. Fresher'
  BY <1>0, <1>1 DEF Fresher
<1>5. Aimed'
  <2>1. pidFile' \in Pids => phase'[pidFile'] # "none"
    BY <1>0, <1>1 DEF Aimed
  <2>2. ASSUME NEW c \in Commands, pc'[c] \in Stopping
        PROVE  /\ phase'[target'[c]] # "none"
               /\ pc'[c] = "remove" => phase'[target'[c]] = "dead"
    BY <1>0, <1>1, <1>2, <2>2 DEF Aimed
  <2> QED
    BY <2>1, <2>2 DEF Aimed, Stopping
<1>6. Undisturbed'
  <2> SUFFICES ASSUME ~overlap', NEW t \in Pids, Active(t)' PROVE Sole(t)'
    BY DEF Undisturbed
  <2>1. t # s /\ Active(t) /\ phase'[t] = phase[t]
    BY <1>1 DEF Active
  <2>2. Sole(t)
    BY <1>0, <2>1 DEF Undisturbed
  <2>3. \A u \in Pids : Active(u)' => u = t
    BY <1>1, <2>2 DEF Sole, Active
  <2> QED
    BY <1>2, <2>1, <2>2, <2>3 DEF Sole
<1> QED
  BY <1>3, <1>4, <1>5, <1>6 DEF IInv

\* A command that is not a stop, or is over, leaves the servers alone.
LEMMA PlainStep ==
    ASSUME IInv, NEW c \in Commands, UNCHANGED <<pidFile, serverVars, overlap>>,
           NEW point \in {"idle", "check"}, Go(c, point),
           UNCHANGED target \/ target' = [target EXCEPT ![c] = 0]
    PROVE  IInv'
<1>0. /\ TypeOK /\ Fresher /\ Aimed /\ Undisturbed /\ UNCHANGED <<phase, term, unlinked>>
  BY DEF IInv, serverVars
<1>1. /\ pc' \in [Commands -> {"idle", "check", "poll"} \cup Stopping]
      /\ target' \in [Commands -> Pids \cup {0}]
      /\ \A d \in Commands : pc'[d] \in Stopping =>
            pc'[d] = pc[d] /\ target'[d] = target[d] /\ target[d] \in Pids
  BY <1>0 DEF TypeOK, Go, Stopping
<1>2. TypeOK'
  BY <1>0, <1>1 DEF TypeOK
<1>3. Fresher' /\ Aimed'
  BY <1>0, <1>1 DEF Fresher, Aimed, Stopping
<1>4. Undisturbed'
  <2> SUFFICES ASSUME ~overlap', NEW t \in Pids, Active(t)' PROVE Sole(t)'
    BY DEF Undisturbed
  <2>1. Sole(t)
    BY <1>0 DEF Undisturbed, Active
  <2> QED
    BY <1>0, <1>1, <2>1 DEF Sole, Active
<1> QED
  BY <1>2, <1>3, <1>4 DEF IInv

\* A stop command that meets no start aims at the only server there is.
LEMMA StopStep ==
    ASSUME IInv, NEW c \in Commands, runStop(c)
    PROVE  IInv'
<1>0. /\ TypeOK /\ Fresher /\ Aimed /\ Undisturbed /\ pc[c] = "idle"
  BY DEF IInv, runStop
<1>1. overlap' \in BOOLEAN /\ (~overlap' => ~overlap /\ \A s \in Pids : phase[s] \notin Starting)
  <2> DEFINE met == \E s \in Pids : phase[s] \in Starting
  <2>1. overlap' = (overlap \/ met) /\ met \in BOOLEAN /\ overlap \in BOOLEAN
    BY <1>0 DEF runStop, TypeOK
  <2>2. overlap' \in BOOLEAN /\ (~overlap' => ~overlap /\ ~met)
    <3> HIDE DEF met
    <3> QED
      BY <2>1
  <2> QED
    BY <2>2
<1>2. CASE UNCHANGED <<pidFile, serverVars, commandVars>>
  <2>1. TypeOK' /\ Fresher' /\ Aimed'
    BY <1>0, <1>1, <1>2 DEF TypeOK, Fresher, Aimed, serverVars, commandVars
  <2>2. Undisturbed'
    <3> SUFFICES ASSUME ~overlap', NEW t \in Pids, Active(t)' PROVE Sole(t)'
      BY DEF Undisturbed
    <3>1. Sole(t)
      BY <1>0, <1>1, <1>2 DEF Undisturbed, Active, serverVars
    <3> QED
      BY <1>2, <3>1 DEF Sole, Active, serverVars, commandVars
  <2> QED
    BY <2>1, <2>2 DEF IInv
<1>3. CASE pidFile = Blank /\ RemovePidFile /\ UNCHANGED <<phase, term, commandVars>>
  <2>1. /\ pidFile' = Missing /\ unlinked' \in [Pids -> BOOLEAN]
        /\ \A t \in Pids : ~unlinked[t] /\ phase[t] # "writing" => ~unlinked'[t]
    BY <1>0, <1>3, RemoveType
  <2>2. TypeOK' /\ Fresher' /\ Aimed'
    BY <1>0, <1>1, <1>3, <2>1, FileAssumption DEF TypeOK, Fresher, Aimed, commandVars
  <2>3. Undisturbed'
    <3> SUFFICES ASSUME ~overlap', NEW t \in Pids, Active(t)' PROVE FALSE
      BY DEF Undisturbed
    <3>1. Sole(t) /\ Active(t) /\ phase[t] \notin Starting /\ phase[t] \in Phases
      BY <1>0, <1>1, <1>3 DEF Undisturbed, Active, TypeOK
    <3>2. pidFile \in {t, Missing}
      BY <3>1 DEF Sole, Active, Starting, Phases
    <3> QED
      BY <1>3, <3>2, FileAssumption
  <2> QED
    BY <2>2, <2>3 DEF IInv
<1>4. CASE /\ pidFile \in Pids /\ Go(c, "signal") /\ target' = [target EXCEPT ![c] = pidFile]
           /\ UNCHANGED <<pidFile, serverVars>>
  <2>0. UNCHANGED <<pidFile, phase, term, unlinked>>
    BY <1>4 DEF serverVars
  <2>1. /\ pc' \in [Commands -> {"idle", "check", "poll"} \cup Stopping]
        /\ target' \in [Commands -> Pids \cup {0}]
        /\ pc'[c] = "signal" /\ target'[c] = pidFile
        /\ \A d \in Commands : d # c => pc'[d] = pc[d] /\ target'[d] = target[d]
    BY <1>0, <1>4 DEF TypeOK, Go, Stopping
  <2>2. TypeOK'
    BY <1>0, <1>1, <1>4, <2>0, <2>1 DEF TypeOK
  <2>3. Fresher' /\ Aimed'
    BY <1>0, <1>4, <2>0, <2>1 DEF Fresher, Aimed
  <2>4. Undisturbed'
    <3> SUFFICES ASSUME ~overlap', NEW t \in Pids, Active(t)' PROVE Sole(t)'
      BY DEF Undisturbed
    <3>1. Sole(t) /\ Active(t) /\ phase[t] \notin Starting /\ phase[t] \in Phases
      BY <1>0, <1>1, <2>0 DEF Undisturbed, Active, TypeOK
    <3>2. pidFile = t
      BY <1>4, <3>1, FileAssumption DEF Sole, Active, Starting, Phases
    <3> QED
      BY <2>0, <2>1, <3>1, <3>2 DEF Sole, Active
  <2> QED
    BY <2>2, <2>3, <2>4 DEF IInv
<1> QED
  BY <1>2, <1>3, <1>4 DEF runStop

\* A stop command goes on with its target, which it may end.
LEMMA StoppingMove ==
    ASSUME IInv, NEW c \in Commands, pc[c] \in Stopping, NEW point \in Stopping, Go(c, point),
           UNCHANGED <<pidFile, target, overlap>>,
           phase' \in [Pids -> Phases], term' \in [Pids -> BOOLEAN], unlinked' \in [Pids -> BOOLEAN],
           \A t \in Pids : ~unlinked[t] => ~unlinked'[t],
           \A t \in Pids : phase'[t] # phase[t] => phase'[t] = "dead" /\ phase[t] # "none",
           point = "remove" => phase'[target[c]] = "dead"
    PROVE  IInv'
<1>0. TypeOK /\ Fresher /\ Aimed /\ Undisturbed /\ target[c] \in Pids
  BY DEF IInv, TypeOK
<1>1. /\ pc' \in [Commands -> {"idle", "check", "poll"} \cup Stopping] /\ pc'[c] = point
      /\ \A d \in Commands : d # c => pc'[d] = pc[d]
  BY <1>0 DEF TypeOK, Go
<1>2. TypeOK'
  BY <1>0, <1>1 DEF TypeOK
<1>3. Fresher'
  BY <1>0 DEF Fresher
<1>4. Aimed'
  <2>1. pidFile' \in Pids => phase'[pidFile'] # "none"
    BY <1>0 DEF Aimed
  <2>2. ASSUME NEW d \in Commands, pc'[d] \in Stopping
        PROVE  /\ phase'[target'[d]] # "none"
               /\ pc'[d] = "remove" => phase'[target'[d]] = "dead"
    <3>1. pc[d] \in Stopping /\ target[d] \in Pids /\ phase[target[d]] # "none"
      BY <1>0, <1>1, <2>2 DEF TypeOK, Aimed
    <3> QED
      BY <1>0, <1>1, <3>1 DEF Aimed
  <2> QED
    BY <2>1, <2>2 DEF Aimed, Stopping
<1>5. Undisturbed'
  <2> SUFFICES ASSUME ~overlap', NEW t \in Pids, Active(t)' PROVE Sole(t)'
    BY DEF Undisturbed
  <2>1. Active(t) /\ phase'[t] = phase[t]
    BY DEF Active
  <2>2. Sole(t)
    BY <1>0, <2>1 DEF Undisturbed
  <2>3. \A u \in Pids : Active(u)' => u = t
    BY <2>2 DEF Sole, Active
  <2>4. \A d \in Commands : pc'[d] \in Stopping => pc[d] \in Stopping
    BY <1>1
  <2> QED
    BY <2>1, <2>2, <2>3, <2>4 DEF Sole
<1> QED
  BY <1>2, <1>3, <1>4, <1>5 DEF IInv

\* SIGTERM, the wait for it to take effect, SIGKILL.
LEMMA SignalStep ==
    ASSUME IInv, NEW c \in Commands, Signal(c) \/ Gone(c) \/ WaitTimesOut(c)
    PROVE  IInv'
<1>0. /\ TypeOK /\ Aimed /\ pc[c] \in {"signal", "wait"} /\ UNCHANGED <<pidFile, target, overlap>>
  BY DEF IInv, Signal, Gone, WaitTimesOut
<1>1. pc[c] \in Stopping /\ target[c] \in Pids /\ phase[target[c]] # "none"
  BY <1>0 DEF Stopping, TypeOK, Aimed
<1>2. CASE Die(target[c]) /\ \E point \in Stopping : Go(c, point)
  BY <1>0, <1>1, <1>2, DiePhase, StoppingMove
<1>3. CASE UNCHANGED <<phase, unlinked>> /\ Go(c, "wait") /\ term' \in [Pids -> BOOLEAN]
  <2>1. /\ phase' \in [Pids -> Phases] /\ unlinked' \in [Pids -> BOOLEAN] /\ "wait" \in Stopping
        /\ phase' = phase /\ unlinked' = unlinked
    BY <1>0, <1>3 DEF TypeOK, Stopping
  <2> QED
    BY <1>0, <1>1, <1>3, <2>1, StoppingMove
<1>4. CASE Gone(c)
  <2>1. /\ phase' = phase /\ phase' \in [Pids -> Phases] /\ unlinked' = unlinked
        /\ unlinked' \in [Pids -> BOOLEAN] /\ term' \in [Pids -> BOOLEAN]
        /\ "remove" \in Stopping /\ Go(c, "remove")
    BY <1>0, <1>4 DEF TypeOK, Stopping, Gone, serverVars
  <2>2. phase'[target[c]] = "dead"
    BY <1>1, <1>4, <2>1 DEF Gone, Alive
  <2> QED
    BY <1>0, <1>1, <2>1, <2>2, StoppingMove
<1>5. CASE Signal(c)
  <2>1. Go(c, "wait") /\ "wait" \in Stopping
    BY <1>5 DEF Signal, Stopping
  <2>2. CASE Die(target[c])
    BY <1>2, <2>1, <2>2
  <2>3. CASE term' = [term EXCEPT ![target[c]] = TRUE] /\ UNCHANGED <<phase, unlinked>>
    <3>1. term' \in [Pids -> BOOLEAN]
      BY <1>0, <2>3 DEF TypeOK
    <3> QED
      BY <1>3, <2>1, <2>3, <3>1
  <2>4. CASE UNCHANGED serverVars
    BY <1>0, <1>3, <2>1, <2>4 DEF serverVars, TypeOK
  <2> QED
    BY <1>5, <2>2, <2>3, <2>4 DEF Signal
<1>6. CASE WaitTimesOut(c)
  BY <1>2, <1>6 DEF WaitTimesOut, Stopping
<1> QED
  BY <1>4, <1>5, <1>6

\* The PID file is removed when the target is dead, so it is nobody's unless the
\* start of another server met this command.
LEMMA StoppedStep ==
    ASSUME IInv, NEW c \in Commands, Stopped(c)
    PROVE  IInv'
<1>0. /\ TypeOK /\ Fresher /\ Aimed /\ Undisturbed /\ pc[c] = "remove"
      /\ RemovePidFile /\ UNCHANGED <<phase, term, overlap>>
      /\ Go(c, "idle") /\ target' = [target EXCEPT ![c] = 0]
  BY DEF IInv, Stopped, Return
<1>1. /\ pidFile' = Missing /\ unlinked' \in [Pids -> BOOLEAN]
      /\ \A t \in Pids : ~unlinked[t] /\ phase[t] # "writing" => ~unlinked'[t]
  BY <1>0, RemoveType
<1>2. /\ pc' \in [Commands -> {"idle", "check", "poll"} \cup Stopping] /\ pc'[c] = "idle"
      /\ target' \in [Commands -> Pids \cup {0}]
      /\ \A d \in Commands : d # c => pc'[d] = pc[d] /\ target'[d] = target[d]
  BY <1>0 DEF TypeOK, Go
<1>3. TypeOK'
  BY <1>0, <1>1, <1>2 DEF TypeOK, Stopping
<1>4. Fresher'
  BY <1>0, <1>1 DEF Fresher
<1>5. Aimed'
  BY <1>0, <1>1, <1>2, FileAssumption DEF Aimed, Stopping
<1>6. Undisturbed'
  <2> SUFFICES ASSUME ~overlap', NEW t \in Pids, Active(t)' PROVE FALSE
    BY DEF Undisturbed
  <2>1. Sole(t) /\ Active(t)
    BY <1>0 DEF Undisturbed, Active
  <2>2. target[c] = t /\ phase[target[c]] = "dead"
    BY <1>0, <2>1 DEF Sole, Aimed, Stopping
  <2> QED
    BY <2>1, <2>2 DEF Active
<1> QED
  BY <1>3, <1>4, <1>5, <1>6 DEF IInv

-----------------------------------------------------------------------------
(* The theorems.                                                           *)

\* The initial states satisfy it.
LEMMA InitInvariant == Init => IInv
BY FileAssumption
DEF Init, IInv, TypeOK, Phases, Fresher, Aimed, Undisturbed, Active, Stopping

\* Every step preserves it.
LEMMA StepInvariant == IInv /\ [Next]_vars => IInv'
<1> SUFFICES ASSUME IInv, [Next]_vars PROVE IInv'
  OBVIOUS
<1>1. ASSUME NEW s \in Pids, runServerForeground(s) \/ SignalRemove(s) \/ Crash(s) PROVE IInv'
  BY <1>1, TruncateStep, WriteStep, GoesOn, RemoveStep DEF runServerForeground
<1>2. ASSUME NEW c \in Commands, Step(c) PROVE IInv'
  <2>1. CASE AlreadyRunning(c) \/ SpawnFails(c) \/ Ready(c) \/ PollTimesOut(c)
    BY <2>1, PlainStep DEF AlreadyRunning, SpawnFails, Ready, PollTimesOut, Return
  <2>2. CASE Spawn(c)
    BY <2>2, BeginStep DEF Spawn
  <2> QED
    BY <1>2, <2>1, <2>2, SignalStep, StoppedStep DEF Step
<1>3. ASSUME NEW c \in Commands, runServerDaemon(c) PROVE IInv'
  BY <1>3, PlainStep DEF runServerDaemon
<1>4. CASE StartForeground
  BY <1>4, BeginStep DEF StartForeground
<1>5. CASE UNCHANGED vars
  <2>1. TypeOK' /\ Fresher' /\ Aimed'
    BY <1>5 DEF IInv, TypeOK, Fresher, Aimed, vars, serverVars, commandVars
  <2>2. Undisturbed'
    BY <1>5 DEF IInv, Undisturbed, Sole, Active, vars, serverVars, commandVars
  <2> QED
    BY <2>1, <2>2 DEF IInv
<1> QED
  BY <1>1, <1>2, <1>3, <1>4, <1>5, StopStep DEF Next

\* The invariant, and with it the types of all variables.
THEOREM Invariant == Spec => []IInv
<1> QED
  BY InitInvariant, StepInvariant, PTL DEF Spec

\* runServerForeground.  For any number of servers and commands: unless its
\* start met another server or a stop command, the PID file names the server
\* that answers.
THEOREM PidFileIsRight == Spec => []PidFileNamesServer
<1>1. IInv => PidFileNamesServer
  BY DEF IInv, PidFileNamesServer, Serving, Undisturbed, Sole, Active
<1> QED
  BY <1>1, Invariant, PTL

\* runStop.  Under the same condition nothing answers any more when stop reports
\* success, whether its target ended by itself or was killed.
THEOREM StopIsTrue == Spec => StopMeansStopped
<1> DEFINE P == \A c \in Commands : pc[c] = "remove" /\ pc'[c] = "idle" /\ ~overlap => Serving = {}
<1>1. IInv => P
  <2> SUFFICES ASSUME IInv, NEW c \in Commands, pc[c] = "remove", ~overlap, NEW s \in Serving
               PROVE  FALSE
    OBVIOUS
  <2>1. s \in Pids /\ phase[s] = "serving" /\ Sole(s)
    BY DEF IInv, Serving, Undisturbed, Active
  <2>2. target[c] = s /\ phase[target[c]] = "dead"
    BY <2>1 DEF IInv, Sole, Aimed, Stopping
  <2> QED
    BY <2>1, <2>2
<1>2. IInv /\ [Next]_vars => [P]_vars
  BY <1>1
<1> QED
  BY <1>2, Invariant, PTL DEF Spec, StopMeansStopped
=============================================================================
