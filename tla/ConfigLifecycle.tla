-------------------------- MODULE ConfigLifecycle --------------------------
(***************************************************************************)
(* Pointing npm at the gateway and back:                                   *)
(*                                                                         *)
(*   internal/config/lifecycle.go  EnableNpm, DisableNpm, Status, Init;    *)
(*   internal/config/journal.go    the transaction they run (Begin, Stage, *)
(*                                 Commit) and RecoverJournal;             *)
(*   internal/config/store.go      journal.json and state.json;            *)
(*   internal/config/npmrc.go      InspectNpmrc, GenerateEnabledContent;   *)
(*   cmd/installgate/main.go       the commands that call them.            *)
(*                                                                         *)
(* Each process runs one command at a time.  A step is one durable write   *)
(* (every write of the code is atomic: temporary file, sync, rename) or    *)
(* one read of a shared file.  FileStateStore.mu excludes goroutines of    *)
(* one process only, so it orders nothing here.  A process may be killed   *)
(* between any two steps.  runEnable calls Status and then EnableNpm, which *)
(* here are two commands in a row.                                         *)
(*                                                                         *)
(* The content of .npmrc is a pair: the developer's text, and whether the  *)
(* registry line points at the gateway.                                    *)
(***************************************************************************)
EXTENDS Naturals, FiniteSets

CONSTANTS
    Procs,          \* installgate processes that may run at the same time
    Texts,          \* the texts a developer's .npmrc may have
    Unsupported,    \* those with credentials or a private registry
    PublicOnly,     \* "registry=https://registry.npmjs.org/"
    NoText,         \* the text of a file that does not exist
    None,           \* no journal, no prior configuration
    MaxTx,          \* bound on enable and disable commands
    MaxCrashes,     \* bound on killed processes
    ReEnable,       \* is enable also run while npm points at the gateway?
    DisableWhen,    \* is disable run only when npm is "enabled", also when a
                    \* transaction was "interrupted", or "always"?
    EditAnytime,    \* does the developer edit .npmrc at any moment, or only
                    \* while InstallGate has no part in it?
    WriteFails,     \* may a write of a transaction fail?
    SaveFails,      \* may SaveState fail?  The code drops the error.
    RecoverFails    \* may RecoverJournal fail?  Dropped by most callers.

ASSUME TextsAssumption ==
    /\ Unsupported \subseteq Texts
    /\ PublicOnly \in Texts \ Unsupported
    /\ NoText \notin Texts
ASSUME BoundsAssumption == MaxTx \in Nat /\ MaxCrashes \in Nat
ASSUME SwitchesAssumption ==
    /\ {ReEnable, EditAnytime, WriteFails, SaveFails, RecoverFails} \subseteq BOOLEAN
    /\ DisableWhen \in {"enabled", "interrupted", "always"}

Content == [text : Texts \cup {NoText}, gw : BOOLEAN]
File(t) == [text |-> t, gw |-> FALSE]
Absent  == File(NoText)

\* GenerateEnabledContent replaces or adds the registry line.
GenerateEnabledContent(c) == [c EXCEPT !.gw = TRUE]

\* What the developer may have in place before InstallGate touches the file.
UserContent == {File(t) : t \in Texts \cup {NoText}}

\* InspectNpmrc refuses credentials and private registries; a gateway URL is
\* a loopback URL, which it accepts.
Inspectable(c) == c.text \notin Unsupported

Transaction == [id : 0 .. MaxTx, action : {"enable", "disable"},
                prior : Content, staged : BOOLEAN]

ASSUME NoneAssumption == None \notin Content /\ None \notin Transaction

VARIABLES
    npmrc,      \* the content of .npmrc
    journal,    \* journal.json
    state,      \* state.json: Enabled and PriorConfig
    temps,      \* transactions whose staged file exists
    gatewayUp,  \* does the health route answer?
    pc, cmd,    \* where each process is, and the command it runs
    tx,         \* the transaction each process has in memory
    own,        \* the identifier of the transaction of its own
    nextTx,     \* transaction identifiers used so far
    crashes,    \* processes killed so far
    orig        \* what the developer last put into .npmrc (ghost)

files == <<npmrc, journal, state, temps>>
locals == <<pc, cmd, tx, own>>
vars  == <<files, gatewayUp, locals, nextTx, crashes, orig>>

Points == {"idle", "recRead", "recTemp", "recRestore", "recSave", "recClear",
           "inspect", "health", "load", "fallback", "begin", "stage",
           "commit", "save", "clear"}

NoState == [enabled |-> FALSE, prior |-> None]

TypeOK ==
    /\ npmrc \in Content
    /\ journal \in Transaction \cup {None}
    /\ state \in [enabled : BOOLEAN, prior : Content \cup {None}]
    /\ temps \subseteq 0 .. MaxTx
    /\ gatewayUp \in BOOLEAN
    /\ pc \in [Procs -> Points]
    /\ cmd \in [Procs -> {"none", "status", "enable", "disable"}]
    /\ tx \in [Procs -> Transaction \cup {None}]
    /\ own \in [Procs -> 0 .. MaxTx]
    /\ nextTx \in 0 .. MaxTx
    /\ crashes \in 0 .. MaxCrashes
    /\ orig \in UserContent

Init ==
    /\ npmrc \in UserContent
    /\ orig = npmrc
    /\ journal = None
    /\ state = NoState
    /\ temps = {}
    /\ gatewayUp \in BOOLEAN
    /\ pc = [p \in Procs |-> "idle"]
    /\ cmd = [p \in Procs |-> "none"]
    /\ tx = [p \in Procs |-> None]
    /\ own = [p \in Procs |-> 0]
    /\ nextTx = 0
    /\ crashes = 0

-----------------------------------------------------------------------------
(* Bookkeeping.                                                            *)

At(p, point) == pc[p] = point

Go(p, point) == pc' = [pc EXCEPT ![p] = point] /\ UNCHANGED <<cmd, tx, own>>

\* The command ends, with or without an error.
Exit(p) ==
    /\ pc' = [pc EXCEPT ![p] = "idle"]
    /\ cmd' = [cmd EXCEPT ![p] = "none"]
    /\ tx' = [tx EXCEPT ![p] = None]
    /\ own' = own

NotEnvironment == UNCHANGED <<gatewayUp, nextTx, crashes, orig>>

\* An error the code returns to the user: the command stops where it is.
Fail(p) ==
    /\ WriteFails
    /\ pc[p] \in {"begin", "stage", "commit", "clear"}
    /\ Exit(p)
    /\ UNCHANGED files /\ NotEnvironment

\* The command that goes on when RecoverJournal is done.
AfterRecovery(p) ==
    CASE cmd[p] = "status"  -> "idle"
      [] cmd[p] = "enable"  -> "inspect"
      [] cmd[p] = "disable" -> "load"

Recovered(p) ==
    /\ pc' = [pc EXCEPT ![p] = AfterRecovery(p)]
    /\ cmd' = [cmd EXCEPT ![p] = IF @ = "status" THEN "none" ELSE @]
    /\ tx' = [tx EXCEPT ![p] = None]
    /\ own' = own

\* No command runs and no transaction is pending.
AtRest == journal = None /\ \A p \in Procs : At(p, "idle")

-----------------------------------------------------------------------------
(* The developer issues commands.                                          *)

\* "installgate status" and "installgate init" do nothing but recover.
StartStatus(p) ==
    /\ At(p, "idle")
    /\ pc' = [pc EXCEPT ![p] = "recRead"]
    /\ cmd' = [cmd EXCEPT ![p] = "status"]
    /\ UNCHANGED <<files, gatewayUp, tx, own, nextTx, crashes, orig>>

Start(p, c) ==
    /\ At(p, "idle")
    /\ nextTx < MaxTx
    /\ nextTx' = nextTx + 1
    /\ own' = [own EXCEPT ![p] = nextTx + 1]
    /\ pc' = [pc EXCEPT ![p] = "recRead"]
    /\ cmd' = [cmd EXCEPT ![p] = c]
    /\ UNCHANGED <<files, gatewayUp, tx, crashes, orig>>

StartEnable(p) ==
    /\ ReEnable \/ ~npmrc.gw \/ journal # None
    /\ Start(p, "enable")

DisableSensible ==
    CASE DisableWhen = "enabled"     -> npmrc.gw /\ journal = None
      [] DisableWhen = "interrupted" -> npmrc.gw \/ journal # None
      [] DisableWhen = "always"      -> TRUE

StartDisable(p) ==
    /\ DisableSensible
    /\ Start(p, "disable")

-----------------------------------------------------------------------------
(* RecoverJournal.                                                         *)

RecoverNothing(p) ==
    /\ At(p, "recRead")
    /\ journal = None
    /\ Recovered(p)
    /\ UNCHANGED files /\ NotEnvironment

RecoverRead(p) ==
    /\ At(p, "recRead")
    /\ journal # None
    /\ tx' = [tx EXCEPT ![p] = journal]
    /\ pc' = [pc EXCEPT ![p] = "recTemp"]
    /\ UNCHANGED <<files, cmd, own>> /\ NotEnvironment

RecoverTemp(p) ==
    /\ At(p, "recTemp")
    /\ temps' = IF tx[p].staged THEN temps \ {tx[p].id} ELSE temps
    /\ Go(p, "recRestore")
    /\ UNCHANGED <<npmrc, journal, state>> /\ NotEnvironment

\* Mutant: recovery of a transaction that staged nothing leaves the file.
RecoverRestoreStaged(p) ==
    /\ At(p, "recRestore")
    /\ npmrc' = IF tx[p].staged THEN npmrc ELSE tx[p].prior
    /\ Go(p, "recSave")
    /\ UNCHANGED <<journal, state, temps>> /\ NotEnvironment

\* The file is removed or rewritten, whatever the phase of the transaction.
RecoverRestore(p) ==
    /\ At(p, "recRestore")
    /\ npmrc' = tx[p].prior
    /\ Go(p, "recSave")
    /\ UNCHANGED <<journal, state, temps>> /\ NotEnvironment

\* The journal cannot be read, the file not restored or the journal not
\* removed: EnableNpm, DisableNpm and Init drop the error and go on, and
\* Status reports it.
RecoverFail(p) ==
    /\ RecoverFails
    /\ journal # None
    /\ pc[p] \in {"recRead", "recRestore", "recClear"}
    /\ Recovered(p)
    /\ UNCHANGED files /\ NotEnvironment

\* Mutant: recovery forgets to reset the state.
RecoverSaveNot(p) ==
    /\ At(p, "recSave")
    /\ Go(p, "recClear")
    /\ UNCHANGED files /\ NotEnvironment

RecoverSave(p) ==
    /\ At(p, "recSave")
    /\ state' \in {NoState} \cup (IF SaveFails THEN {state} ELSE {})
    /\ Go(p, "recClear")
    /\ UNCHANGED <<npmrc, journal, temps>> /\ NotEnvironment

\* Mutant: the journal stays.
RecoverClearNot(p) ==
    /\ At(p, "recClear")
    /\ Recovered(p)
    /\ UNCHANGED files /\ NotEnvironment

RecoverClear(p) ==
    /\ At(p, "recClear")
    /\ journal' = None
    /\ Recovered(p)
    /\ UNCHANGED <<npmrc, state, temps>> /\ NotEnvironment

-----------------------------------------------------------------------------
(* EnableNpm up to its transaction.                                        *)

Draft(p, action, prior) ==
    tx' = [tx EXCEPT ![p] = [id |-> own[p], action |-> action,
                             prior |-> prior, staged |-> FALSE]]

EnableInspect(p) ==
    /\ At(p, "inspect")
    /\ IF Inspectable(npmrc)
       THEN /\ Draft(p, "enable", npmrc)
            /\ pc' = [pc EXCEPT ![p] = "health"]
            /\ UNCHANGED <<cmd, own>>
       ELSE Exit(p)
    /\ UNCHANGED files /\ NotEnvironment

\* Mutant: the prior configuration is read again when it is captured, after
\* the gateway has answered.
EnableHealthRereads(p) ==
    /\ At(p, "health")
    /\ IF gatewayUp
       THEN /\ Draft(p, "enable", npmrc)
            /\ pc' = [pc EXCEPT ![p] = "begin"]
            /\ UNCHANGED <<cmd, own>>
       ELSE Exit(p)
    /\ UNCHANGED files /\ NotEnvironment

EnableHealth(p) ==
    /\ At(p, "health")
    /\ IF gatewayUp THEN Go(p, "begin") ELSE Exit(p)
    /\ UNCHANGED files /\ NotEnvironment

-----------------------------------------------------------------------------
(* DisableNpm up to its transaction.                                       *)

DisableLoad(p) ==
    /\ At(p, "load")
    /\ IF state.prior # None
       THEN /\ Draft(p, "disable", state.prior)
            /\ pc' = [pc EXCEPT ![p] = "begin"]
       ELSE /\ pc' = [pc EXCEPT ![p] = "fallback"]
            /\ tx' = tx
    /\ UNCHANGED <<files, cmd, own>> /\ NotEnvironment

\* No prior configuration is known: a file that exists is replaced by the
\* public registry, whether or not it points at the gateway.
DisableFallback(p) ==
    /\ At(p, "fallback")
    /\ IF Inspectable(npmrc) /\ npmrc # Absent
       THEN /\ Draft(p, "disable", File(PublicOnly))
            /\ pc' = [pc EXCEPT ![p] = "begin"]
            /\ UNCHANGED <<cmd, own>>
       ELSE Exit(p)
    /\ UNCHANGED files /\ NotEnvironment

-----------------------------------------------------------------------------
(* The transaction.                                                        *)

BeginTransaction(p) ==
    /\ At(p, "begin")
    /\ journal' = tx[p]
    /\ Go(p, IF tx[p].action = "disable" /\ tx[p].prior = Absent
             THEN "commit" ELSE "stage")
    /\ UNCHANGED <<npmrc, state, temps>> /\ NotEnvironment

\* The temporary file and the journal that names it.  Until the journal does,
\* no other process can find the file.
StageTransaction(p) ==
    /\ At(p, "stage")
    /\ temps' = temps \cup {tx[p].id}
    /\ tx' = [tx EXCEPT ![p].staged = TRUE]
    /\ journal' = tx'[p]
    /\ pc' = [pc EXCEPT ![p] = "commit"]
    /\ UNCHANGED <<npmrc, state, cmd, own>> /\ NotEnvironment

StagedContent(t) ==
    IF t.action = "enable" THEN GenerateEnabledContent(t.prior) ELSE t.prior

\* Mutant: a file that did not exist before is not removed.
CommitKeepsFile(p) ==
    /\ At(p, "commit")
    /\ npmrc' = IF tx[p].staged THEN StagedContent(tx[p]) ELSE npmrc
    /\ temps' = temps \ {tx[p].id}
    /\ Go(p, "save")
    /\ UNCHANGED <<journal, state>> /\ NotEnvironment

\* Rename of the staged file (which may be gone: an error), or removal.
CommitTransaction(p) ==
    /\ At(p, "commit")
    /\ IF tx[p].staged /\ tx[p].id \notin temps
       THEN Exit(p) /\ UNCHANGED <<npmrc, temps>>
       ELSE /\ npmrc' = StagedContent(tx[p])
            /\ temps' = temps \ {tx[p].id}
            /\ Go(p, "save")
    /\ UNCHANGED <<journal, state>> /\ NotEnvironment

CommittedState(t) ==
    IF t.action = "enable" THEN [enabled |-> TRUE, prior |-> t.prior] ELSE NoState

CommitSave(p) ==
    /\ At(p, "save")
    /\ state' \in {CommittedState(tx[p])} \cup (IF SaveFails THEN {state} ELSE {})
    /\ Go(p, "clear")
    /\ UNCHANGED <<npmrc, journal, temps>> /\ NotEnvironment

CommitClear(p) ==
    /\ At(p, "clear")
    /\ journal' = None
    /\ Exit(p)
    /\ UNCHANGED <<npmrc, state, temps>> /\ NotEnvironment

-----------------------------------------------------------------------------
(* The environment.                                                        *)

\* The process is killed; what it wrote stays.
Crash(p) ==
    /\ crashes < MaxCrashes
    /\ ~At(p, "idle")
    /\ crashes' = crashes + 1
    /\ Exit(p)
    /\ UNCHANGED <<files, gatewayUp, nextTx, orig>>

\* "installgate stop" and start; nothing looks at .npmrc.
GatewayStop ==
    /\ gatewayUp
    /\ gatewayUp' = FALSE
    /\ UNCHANGED <<files, locals, nextTx, crashes, orig>>

GatewayStart ==
    /\ ~gatewayUp
    /\ gatewayUp' = TRUE
    /\ UNCHANGED <<files, locals, nextTx, crashes, orig>>

\* The developer, or npm for him ("npm login"), edits or removes .npmrc.  The
\* line that points at the gateway stays or goes.  Nothing keeps him from it
\* while npm is enabled, a transaction is pending or a command runs.
UserEdit(c) ==
    /\ EditAnytime \/ (~npmrc.gw /\ AtRest)
    /\ c.gw => npmrc.gw
    /\ npmrc' = c
    /\ orig' = File(c.text)
    /\ UNCHANGED <<journal, state, temps, gatewayUp, locals, nextTx, crashes>>

Edits == \E c \in Content : UserEdit(c)

-----------------------------------------------------------------------------
RecoverJournal(p) ==
    \/ RecoverNothing(p) \/ RecoverRead(p) \/ RecoverTemp(p) \/ RecoverRestore(p)
    \/ RecoverFail(p) \/ RecoverSave(p) \/ RecoverClear(p)

RunTransaction(p) ==
    \/ BeginTransaction(p) \/ StageTransaction(p) \/ CommitTransaction(p)
    \/ CommitSave(p) \/ CommitClear(p) \/ Fail(p)

\* What a process does once its command runs.
Proceed(p) ==
    \/ RecoverJournal(p)
    \/ EnableInspect(p) \/ EnableHealth(p) \/ DisableLoad(p) \/ DisableFallback(p)
    \/ RunTransaction(p)

Next ==
    \/ \E p \in Procs :
          StartStatus(p) \/ StartEnable(p) \/ StartDisable(p) \/ Proceed(p) \/ Crash(p)
    \/ GatewayStop \/ GatewayStart
    \/ Edits

Spec == Init /\ [][Next]_vars

\* A command runs to its end unless it is killed, and the developer sooner or
\* later looks at the status.
FairSpec ==
    /\ Spec
    /\ \A p \in Procs : WF_vars(Proceed(p)) /\ WF_vars(StartStatus(p))

-----------------------------------------------------------------------------
(* Properties.                                                             *)

\* The developer's configuration is never lost: at every instant, also
\* between the steps of a command and after a crash, .npmrc is what the
\* developer had or that with the registry line replaced, and in the second
\* case the original is on disk, in the journal or in the state.
NothingLost ==
    \/ npmrc = orig
    \/ /\ npmrc = GenerateEnabledContent(orig)
       /\ \/ journal # None /\ journal.prior = orig
          \/ state.prior = orig

\* When no command runs and no transaction is pending, state.json tells the
\* truth about .npmrc.
StateTellsTruth ==
    AtRest => state.enabled = npmrc.gw

\* A disable that reports success has put the developer's bytes back
\* ("Restore byte-for-byte, including when no value was set", DisableNpm).
DisableRestores ==
    [][\A p \in Procs :
          (cmd[p] = "disable" /\ pc[p] = "clear" /\ journal' # journal) => npmrc' = orig]_vars

\* The configurations InstallGate keeps: in the journal, in the state and in
\* the memory of a command.
Kept == {c \in Content :
            \/ journal # None /\ journal.prior = c
            \/ state.prior = c
            \/ \E p \in Procs : tx[p] # None /\ tx[p].prior = c}

\* A file with credentials or a private registry (InspectNpmrc refuses it) is
\* never copied into InstallGate's own files ("never persist npm credentials",
\* docs/SPEC.md:51), even when the credentials appear while a command runs.
\* It is not written over either, in whatever order commands are run, fail,
\* are killed and are retried, unless an earlier configuration was kept when
\* it was put in place: that one is what DisableNpm and RecoverJournal write,
\* without a look at the file.
UnsupportedUntouched ==
    [][npmrc.text \in Unsupported =>
          /\ npmrc \notin Kept'
          /\ Kept = {} => Kept' = {} /\ (npmrc' = npmrc \/ Edits)]_vars

\* An interrupted transaction is recovered by the commands that follow.
InterruptionsRecovered == journal # None ~> journal = None
=============================================================================
