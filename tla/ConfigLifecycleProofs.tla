----------------------- MODULE ConfigLifecycleProofs -----------------------
(***************************************************************************)
(* Proofs about ConfigLifecycle, for every content of .npmrc and every     *)
(* number of commands and crashes.                                         *)
(*                                                                         *)
(* Typed holds under any circumstances.  Lifecycle says, for every point   *)
(* of a command, what the three files hold relative to the developer's     *)
(* original; it is needed because whether a step loses the original        *)
(* depends on the files the earlier steps of the same command wrote.       *)
(* KeptSupported is about what InstallGate keeps, with any number of        *)
(* processes, failures and edits.                                          *)
(***************************************************************************)
EXTENDS ConfigLifecycle, TLAPS

USE TextsAssumption, BoundsAssumption, SwitchesAssumption, NoneAssumption

Recovering == {"recTemp", "recRestore", "recSave", "recClear"}
Committing == {"stage", "commit", "save", "clear"}

-----------------------------------------------------------------------------
(* Types.                                                                  *)

\* A process that recovers or runs a transaction has one in memory, and a
\* process that recovers knows what to do next.
Drafted ==
    \A p \in Procs :
        /\ pc[p] \in Recovering \cup Committing \cup {"health", "begin"} => tx[p] # None
        /\ pc[p] \in Recovering \cup {"recRead"} => cmd[p] \in {"status", "enable", "disable"}

Typed == TypeOK /\ Drafted

StateFile == [enabled : BOOLEAN, prior : Content \cup {None}]

\* What the commands write into .npmrc is a content of .npmrc.
LEMMA Contents ==
    /\ UserContent \subseteq Content
    /\ File(PublicOnly) \in Content
    /\ \A c \in Content : GenerateEnabledContent(c) \in Content
<1>1. ASSUME NEW t \in Texts \cup {NoText} PROVE File(t) \in Content
  BY DEF File, Content
<1>2. File(PublicOnly) \in Content
  BY DEF File, Content
<1>3. ASSUME NEW c \in Content PROVE GenerateEnabledContent(c) \in Content
  BY DEF Content, GenerateEnabledContent
<1> QED
  BY <1>1, <1>2, <1>3 DEF UserContent

\* The developer's own file does not point at the gateway, and replacing the
\* registry line makes it (GenerateEnabledContent).
LEMMA Originals ==
    ASSUME NEW c \in UserContent
    PROVE  c # None /\ c.gw = FALSE /\ GenerateEnabledContent(c).gw = TRUE
<1>1. PICK t \in Texts \cup {NoText} : c = File(t)
  BY DEF UserContent
<1>2. c \in Content
  BY Contents
<1> QED
  BY <1>1, <1>2 DEF File, GenerateEnabledContent

\* Transactions as they are drafted, staged and committed.
LEMMA Transactions ==
    /\ \A i \in 0 .. MaxTx, a \in {"enable", "disable"}, c \in Content :
          [id |-> i, action |-> a, prior |-> c, staged |-> FALSE] \in Transaction
    /\ \A t \in Transaction :
          /\ t.id \in 0 .. MaxTx
          /\ t.prior \in Content
          /\ [t EXCEPT !.staged = TRUE] \in Transaction
          /\ StagedContent(t) \in Content
          /\ CommittedState(t) \in StateFile
    /\ NoState \in StateFile
BY Contents DEF Transaction, StagedContent, CommittedState, StateFile, NoState

\* Every step of every command keeps the types.
LEMMA TypedStep ==
    ASSUME Typed, [Next]_vars
    PROVE  Typed'
<1>0. state \in StateFile
  BY DEF Typed, TypeOK, StateFile
<1>a. state' \in StateFile => state' \in [enabled : BOOLEAN, prior : Content \cup {None}]
  BY DEF StateFile
<1> USE <1>0, <1>a, Contents, Transactions
    DEF Typed, TypeOK, Drafted, Recovering, Committing, Points, At, NotEnvironment, files, locals
<1>1. ASSUME NEW p \in Procs, StartStatus(p) PROVE Typed'
  BY <1>1 DEF StartStatus
<1>2. ASSUME NEW p \in Procs, StartEnable(p) PROVE Typed'
  BY <1>2 DEF StartEnable, Start
<1>3. ASSUME NEW p \in Procs, StartDisable(p) PROVE Typed'
  BY <1>3 DEF StartDisable, Start, DisableSensible
<1>4. ASSUME NEW p \in Procs, RecoverNothing(p) PROVE Typed'
  BY <1>4 DEF RecoverNothing, Recovered, AfterRecovery
<1>5. ASSUME NEW p \in Procs, RecoverRead(p) PROVE Typed'
  BY <1>5 DEF RecoverRead
<1>6. ASSUME NEW p \in Procs, RecoverTemp(p) PROVE Typed'
  BY <1>6 DEF RecoverTemp, Go
<1>7. ASSUME NEW p \in Procs, RecoverRestore(p) PROVE Typed'
  BY <1>7 DEF RecoverRestore, Go
<1>8. ASSUME NEW p \in Procs, RecoverFail(p) PROVE Typed'
  BY <1>8 DEF RecoverFail, Recovered, AfterRecovery
<1>9. ASSUME NEW p \in Procs, RecoverSave(p) PROVE Typed'
  BY <1>9 DEF RecoverSave, Go
<1>10. ASSUME NEW p \in Procs, RecoverClear(p) PROVE Typed'
  BY <1>10 DEF RecoverClear, Recovered, AfterRecovery
<1>11. ASSUME NEW p \in Procs, EnableInspect(p) PROVE Typed'
  BY <1>11 DEF EnableInspect, Draft, Exit
<1>12. ASSUME NEW p \in Procs, EnableHealth(p) PROVE Typed'
  BY <1>12 DEF EnableHealth, Go, Exit
<1>13. ASSUME NEW p \in Procs, DisableLoad(p) PROVE Typed'
  BY <1>13 DEF DisableLoad, Draft, StateFile
<1>14. ASSUME NEW p \in Procs, DisableFallback(p) PROVE Typed'
  BY <1>14 DEF DisableFallback, Draft, Exit
<1>15. ASSUME NEW p \in Procs, BeginTransaction(p) PROVE Typed'
  BY <1>15 DEF BeginTransaction, Go
<1>16. ASSUME NEW p \in Procs, StageTransaction(p) PROVE Typed'
  BY <1>16 DEF StageTransaction
<1>17. ASSUME NEW p \in Procs, CommitTransaction(p) PROVE Typed'
  <2>1. tx[p] \in Transaction
    BY <1>17 DEF CommitTransaction
  <2>2. temps \ {tx[p].id} \subseteq 0 .. MaxTx /\ StagedContent(tx[p]) \in Content
    BY <2>1
  <2>3. CASE tx[p].staged /\ tx[p].id \notin temps
    BY <1>17, <2>3 DEF CommitTransaction, Exit
  <2>4. CASE ~(tx[p].staged /\ tx[p].id \notin temps)
    BY <1>17, <2>2, <2>4 DEF CommitTransaction, Go
  <2> QED
    BY <2>3, <2>4
<1>18. ASSUME NEW p \in Procs, CommitSave(p) PROVE Typed'
  <2>1. tx[p] \in Transaction
    BY <1>18 DEF CommitSave
  <2>2. state' \in StateFile
    BY <1>18, <2>1 DEF CommitSave
  <2> QED
    BY <1>18, <2>2 DEF CommitSave, Go
<1>19. ASSUME NEW p \in Procs, CommitClear(p) PROVE Typed'
  BY <1>19 DEF CommitClear, Exit
<1>20. ASSUME NEW p \in Procs, Fail(p) PROVE Typed'
  BY <1>20 DEF Fail, Exit
<1>21. ASSUME NEW p \in Procs, Crash(p) PROVE Typed'
  BY <1>21 DEF Crash, Exit
<1>22. CASE GatewayStop
  BY <1>22 DEF GatewayStop
<1>23. CASE GatewayStart
  BY <1>23 DEF GatewayStart
<1>24. ASSUME NEW c \in Content, UserEdit(c) PROVE Typed'
  BY <1>24 DEF UserEdit, File, UserContent, Content
<1>25. CASE UNCHANGED vars
  BY <1>25 DEF vars
<1> QED
  BY <1>1, <1>2, <1>3, <1>4, <1>5, <1>6, <1>7, <1>8, <1>9, <1>10, <1>11, <1>12, <1>13,
     <1>14, <1>15, <1>16, <1>17, <1>18, <1>19, <1>20, <1>21, <1>22, <1>23, <1>24, <1>25
     DEF Next, Edits, Proceed, RecoverJournal, RunTransaction

\* The types and what they rest on, with any number of processes and failures.
THEOREM TypedAlways == Spec => []Typed
<1>1. Init => Typed
  <2> SUFFICES ASSUME Init PROVE Typed
    OBVIOUS
  <2>1. state \in [enabled : BOOLEAN, prior : Content \cup {None}]
    BY DEF Init, NoState
  <2>2. Drafted
    BY DEF Init, Drafted, Recovering, Committing
  <2> QED
    BY <2>1, <2>2, Contents DEF Init, Typed, TypeOK, Points
<1>2. Typed /\ [Next]_vars => Typed'
  BY TypedStep
<1> QED
  BY <1>1, <1>2, PTL DEF Spec

\* The files, and what every process has in memory, keep their types.
THEOREM TypeCorrect == Spec => []TypeOK
<1>1. Typed => TypeOK
  BY DEF Typed
<1> QED
  BY <1>1, TypedAlways, PTL

-----------------------------------------------------------------------------
(* Commands that do not overlap and are run when they make sense.          *)

\* The circumstances: one command at a time, enable and disable only where
\* they have something to do, .npmrc edited by the developer only where
\* InstallGate has no part in it, and SaveState and the restoring write succeed.
Careful ==
    /\ \A p, q \in Procs : p = q
    /\ ~ReEnable /\ DisableWhen = "enabled" /\ ~EditAnytime
    /\ ~SaveFails /\ ~RecoverFails

\* Nothing is pending: state.json agrees with .npmrc.
Off == npmrc = orig /\ state = NoState
On  == npmrc = GenerateEnabledContent(orig) /\ state = [enabled |-> TRUE, prior |-> orig]

\* The transaction p runs is about the original and starts from a file that
\* agrees with it.
Sound(p) == /\ tx[p] # None /\ tx[p].prior = orig
            /\ tx[p].action = cmd[p]

Control(p) ==
    /\ pc[p] = "recRead" => cmd[p] \in {"status", "enable", "disable"}
    /\ (pc[p] = "recRead" /\ cmd[p] = "disable") => (journal = None /\ On)
    /\ (pc[p] = "recRead" /\ cmd[p] = "enable") => (journal # None \/ Off)
    /\ pc[p] \in Recovering =>
          journal # None /\ tx[p] = journal /\ cmd[p] \in {"status", "enable"}
    /\ pc[p] \in {"recSave", "recClear"} => npmrc = orig
    /\ pc[p] = "recClear" => state = NoState
    /\ pc[p] = "inspect" => (cmd[p] = "enable" /\ journal = None /\ Off)
    /\ pc[p] = "health" => (cmd[p] = "enable" /\ journal = None /\ Off /\ Sound(p))
    /\ pc[p] = "load" => (cmd[p] = "disable" /\ journal = None /\ On)
    /\ pc[p] # "fallback"
    /\ pc[p] = "begin" => (journal = None /\ Sound(p))
    /\ pc[p] \in Committing => (journal # None /\ Sound(p))
    /\ pc[p] \in {"begin", "stage", "commit"} => IF cmd[p] = "enable" THEN Off ELSE On
    /\ pc[p] \in {"save", "clear"} =>
          npmrc = IF cmd[p] = "enable" THEN GenerateEnabledContent(orig) ELSE orig
    /\ pc[p] = "clear" => state = CommittedState(tx[p])

Lifecycle ==
    /\ npmrc \in {orig, GenerateEnabledContent(orig)}
    /\ journal # None => journal.prior = orig
    /\ journal = None => On \/ Off
    /\ \A p \in Procs : Control(p)


\* One step of one command, or of the environment, keeps Lifecycle.
LEMMA LifecycleStep ==
    ASSUME Careful, Typed, Typed', Lifecycle, [Next]_vars
    PROVE  Lifecycle'
<1>0. orig # None
  BY Originals DEF Typed, TypeOK
<1> USE DEF Careful, Typed, TypeOK, Drafted, Lifecycle, Control, On, Off, Sound, NoState, Recovering, Committing,
            Points, Content, UserContent, File, GenerateEnabledContent, Transaction,
            At, NotEnvironment, files, locals
<1>1. ASSUME NEW p \in Procs, StartStatus(p) PROVE Lifecycle'
  BY <1>1 DEF StartStatus
<1>2. ASSUME NEW p \in Procs, StartEnable(p) PROVE Lifecycle'
  BY <1>2 DEF StartEnable, Start
<1>3. ASSUME NEW p \in Procs, StartDisable(p) PROVE Lifecycle'
  BY <1>3 DEF StartDisable, Start, DisableSensible
<1>4. ASSUME NEW p \in Procs, RecoverNothing(p) PROVE Lifecycle'
  BY <1>4 DEF RecoverNothing, Recovered, AfterRecovery
<1>5. ASSUME NEW p \in Procs, RecoverRead(p) PROVE Lifecycle'
  BY <1>5 DEF RecoverRead
<1>6. ASSUME NEW p \in Procs, RecoverTemp(p) PROVE Lifecycle'
  BY <1>6 DEF RecoverTemp, Go
<1>7. ASSUME NEW p \in Procs, RecoverRestore(p) PROVE Lifecycle'
  BY <1>7 DEF RecoverRestore, Go
<1>8. ASSUME NEW p \in Procs, RecoverFail(p) PROVE Lifecycle'
  BY <1>8 DEF RecoverFail, Recovered, AfterRecovery
<1>9. ASSUME NEW p \in Procs, RecoverSave(p) PROVE Lifecycle'
  BY <1>9 DEF RecoverSave, Go
<1>10. ASSUME NEW p \in Procs, RecoverClear(p) PROVE Lifecycle'
  BY <1>10 DEF RecoverClear, Recovered, AfterRecovery
<1>11. ASSUME NEW p \in Procs, EnableInspect(p) PROVE Lifecycle'
  BY <1>11 DEF EnableInspect, Draft, Exit
<1>12. ASSUME NEW p \in Procs, EnableHealth(p) PROVE Lifecycle'
  BY <1>12 DEF EnableHealth, Go, Exit
<1>13. ASSUME NEW p \in Procs, DisableLoad(p) PROVE Lifecycle'
  <2>1. state.prior = orig /\ orig # None
    BY <1>0, <1>13 DEF DisableLoad
  <2> QED
    BY <1>13, <2>1 DEF DisableLoad, Draft
<1>14. ASSUME NEW p \in Procs, DisableFallback(p) PROVE Lifecycle'
  BY <1>14 DEF DisableFallback, Draft, Exit
<1>15. ASSUME NEW p \in Procs, BeginTransaction(p) PROVE Lifecycle'
  BY <1>15 DEF BeginTransaction, Go
<1>16. ASSUME NEW p \in Procs, StageTransaction(p) PROVE Lifecycle'
  BY <1>16 DEF StageTransaction
<1>17. ASSUME NEW p \in Procs, CommitTransaction(p) PROVE Lifecycle'
  BY <1>17 DEF CommitTransaction, Go, Exit, StagedContent
<1>18. ASSUME NEW p \in Procs, CommitSave(p) PROVE Lifecycle'
  BY <1>18 DEF CommitSave, Go, CommittedState
<1>19. ASSUME NEW p \in Procs, CommitClear(p) PROVE Lifecycle'
  <2>1. On \/ Off
    BY <1>19 DEF CommitClear, CommittedState
  <2> QED
    BY <1>19, <2>1 DEF CommitClear, Exit
<1>20. ASSUME NEW p \in Procs, Fail(p) PROVE Lifecycle'
  BY <1>20 DEF Fail, Exit
<1>21. ASSUME NEW p \in Procs, Crash(p) PROVE Lifecycle'
  BY <1>21 DEF Crash, Exit
<1>22. CASE GatewayStop
  BY <1>22 DEF GatewayStop
<1>23. CASE GatewayStart
  BY <1>23 DEF GatewayStart
<1>24. ASSUME NEW c \in Content, UserEdit(c) PROVE Lifecycle'
  BY <1>24 DEF UserEdit, AtRest
<1>25. CASE UNCHANGED vars
  BY <1>25 DEF vars
<1> QED
  BY <1>1, <1>2, <1>3, <1>4, <1>5, <1>6, <1>7, <1>8, <1>9, <1>10, <1>11, <1>12, <1>13,
     <1>14, <1>15, <1>16, <1>17, <1>18, <1>19, <1>20, <1>21, <1>22, <1>23, <1>24, <1>25
     DEF Next, Edits, Proceed, RecoverJournal, RunTransaction

\* What the files hold at every point of every command.
THEOREM LifecycleInvariant ==
    ASSUME Careful
    PROVE  Spec => []Lifecycle
<1>1. Init => Lifecycle
  BY DEF Init, Lifecycle, Control, Off, NoState, Recovering, Committing
<1>2. Typed /\ Typed' /\ Lifecycle /\ [Next]_vars => Lifecycle'
  BY LifecycleStep
<1> QED
  BY <1>1, <1>2, TypedAlways, PTL DEF Spec

\* No crash and no failed write between the steps of enable, disable or
\* recovery loses what the developer had in .npmrc.
THEOREM ConfigurationSurvives ==
    ASSUME Careful
    PROVE  Spec => []NothingLost
<1>1. Typed /\ Lifecycle => NothingLost
  BY DEF Lifecycle, NothingLost, Control, On, Off, Typed
<1> QED
  BY <1>1, LifecycleInvariant, TypedAlways, PTL

\* state.json agrees with .npmrc whenever nothing runs and nothing is
\* pending (CommitTransaction and RecoverJournal write both).
THEOREM StateIsTrue ==
    ASSUME Careful
    PROVE  Spec => []StateTellsTruth
<1>1. Typed /\ Lifecycle => StateTellsTruth
  <2> SUFFICES ASSUME Typed, Lifecycle, AtRest PROVE state.enabled = npmrc.gw
    BY DEF StateTellsTruth
  <2>1. On \/ Off
    BY DEF Lifecycle, AtRest
  <2>2. orig.gw = FALSE /\ GenerateEnabledContent(orig).gw = TRUE
    BY Originals DEF Typed, TypeOK
  <2>3. CASE On
    BY <2>2, <2>3 DEF On
  <2>4. CASE Off
    BY <2>2, <2>4 DEF Off, NoState
  <2> QED
    BY <2>1, <2>3, <2>4
<1> QED
  BY <1>1, LifecycleInvariant, TypedAlways, PTL

\* A disable that reports success has restored the developer's bytes.
THEOREM DisableGivesBack ==
    ASSUME Careful
    PROVE  Spec => DisableRestores
<1>1. ASSUME Typed, Typed', Lifecycle, [Next]_vars, NEW p \in Procs,
             cmd[p] = "disable", pc[p] = "clear", journal' # journal
      PROVE  npmrc' = orig
  <2> USE <1>1 DEF Careful, At
  <2>1. PICK q \in Procs : RecoverClear(q) \/ BeginTransaction(q) \/ StageTransaction(q) \/ CommitClear(q)
    BY Zenon DEF Next, Edits, Proceed, RecoverJournal, RunTransaction, StartStatus, StartEnable, StartDisable, Start,
       RecoverNothing, RecoverRead, RecoverTemp, RecoverRestore, RecoverFail, RecoverSave,
       EnableInspect, EnableHealth, DisableLoad, DisableFallback, CommitTransaction, CommitSave,
       Fail, Crash, GatewayStop, GatewayStart, UserEdit, files, vars
  <2>2. CommitClear(q) /\ q = p
    BY <2>1 DEF RecoverClear, BeginTransaction, StageTransaction
  <2> QED
    BY <2>2 DEF CommitClear, Lifecycle, Control
<1> DEFINE Restores == \A p \in Procs :
        (cmd[p] = "disable" /\ pc[p] = "clear" /\ journal' # journal) => npmrc' = orig
<1>2. Typed /\ Typed' /\ Lifecycle /\ [Next]_vars => [Restores]_vars
  BY <1>1
<1> QED
  BY <1>2, LifecycleInvariant, TypedAlways, PTL DEF Spec, DisableRestores

-----------------------------------------------------------------------------
(* Files with credentials or a private registry, in any order of commands  *)
(* and edits, with any number of processes and whatever fails.             *)

Supported(c) == c.text \notin Unsupported

\* Nothing that InstallGate keeps has credentials or a private registry.
KeptSupported ==
    /\ journal # None => Supported(journal.prior)
    /\ state.prior # None => Supported(state.prior)
    /\ \A p \in Procs : tx[p] # None => Supported(tx[p].prior)

\* The invariant is about the configurations of Kept.
LEMMA KeptAreSupported ==
    ASSUME Typed, KeptSupported
    PROVE  \A c \in Kept : Supported(c)
<1> SUFFICES ASSUME NEW c \in Kept PROVE Supported(c)
  OBVIOUS
<1>1. c \in Content /\ c # None
  BY DEF Kept
<1> QED
  BY <1>1 DEF Kept, KeptSupported

\* What EnableNpm captures has been inspected, and every other configuration
\* is passed on from one that is kept already.
LEMMA KeptStep ==
    ASSUME Typed, KeptSupported, [Next]_vars
    PROVE  KeptSupported'
<1> USE DEF Typed, TypeOK, Drafted, KeptSupported, Supported, NoState, Recovering, Committing,
            Transaction, At, NotEnvironment, files, locals
<1>1. ASSUME NEW p \in Procs, StartStatus(p) \/ StartEnable(p) \/ StartDisable(p)
      PROVE  KeptSupported'
  BY <1>1 DEF StartStatus, StartEnable, StartDisable, Start
<1>2. ASSUME NEW p \in Procs, RecoverNothing(p) \/ RecoverFail(p) \/ RecoverClear(p)
      PROVE  KeptSupported'
  BY <1>2 DEF RecoverNothing, RecoverFail, RecoverClear, Recovered
<1>3. ASSUME NEW p \in Procs, RecoverRead(p) PROVE KeptSupported'
  BY <1>3 DEF RecoverRead
<1>4. ASSUME NEW p \in Procs, RecoverTemp(p) \/ RecoverRestore(p) PROVE KeptSupported'
  BY <1>4 DEF RecoverTemp, RecoverRestore, Go
<1>5. ASSUME NEW p \in Procs, RecoverSave(p) PROVE KeptSupported'
  BY <1>5 DEF RecoverSave, Go
<1>6. ASSUME NEW p \in Procs, EnableInspect(p) PROVE KeptSupported'
  BY <1>6 DEF EnableInspect, Inspectable, Draft, Exit
<1>7. ASSUME NEW p \in Procs, EnableHealth(p) PROVE KeptSupported'
  BY <1>7 DEF EnableHealth, Go, Exit
<1>8. ASSUME NEW p \in Procs, DisableLoad(p) PROVE KeptSupported'
  BY <1>8 DEF DisableLoad, Draft
<1>9. ASSUME NEW p \in Procs, DisableFallback(p) PROVE KeptSupported'
  BY <1>9 DEF DisableFallback, File, Draft, Exit
<1>10. ASSUME NEW p \in Procs, BeginTransaction(p) PROVE KeptSupported'
  BY <1>10 DEF BeginTransaction, Go
<1>11. ASSUME NEW p \in Procs, StageTransaction(p) PROVE KeptSupported'
  BY <1>11 DEF StageTransaction
<1>12. ASSUME NEW p \in Procs, CommitTransaction(p) PROVE KeptSupported'
  BY <1>12 DEF CommitTransaction, Go, Exit
<1>13. ASSUME NEW p \in Procs, CommitSave(p) PROVE KeptSupported'
  BY <1>13 DEF CommitSave, Go, CommittedState
<1>14. ASSUME NEW p \in Procs, CommitClear(p) \/ Fail(p) \/ Crash(p) PROVE KeptSupported'
  BY <1>14 DEF CommitClear, Fail, Crash, Exit
<1>15. CASE GatewayStop \/ GatewayStart \/ Edits \/ UNCHANGED vars
  BY <1>15 DEF GatewayStop, GatewayStart, Edits, UserEdit, vars
<1> QED
  BY <1>1, <1>2, <1>3, <1>4, <1>5, <1>6, <1>7, <1>8, <1>9, <1>10, <1>11, <1>12, <1>13,
     <1>14, <1>15 DEF Next, Proceed, RecoverJournal, RunTransaction

\* Credentials never enter journal.json, state.json or a transaction.
THEOREM CredentialsNeverKept == Spec => []KeptSupported
<1>1. Init => KeptSupported
  BY DEF Init, KeptSupported, NoState
<1>2. Typed /\ KeptSupported /\ [Next]_vars => KeptSupported'
  BY KeptStep
<1> QED
  BY <1>1, <1>2, TypedAlways, PTL DEF Spec

\* Nothing is kept: no journal, no prior configuration, no transaction.
NothingKept ==
    /\ journal = None
    /\ state.prior = None
    /\ \A p \in Procs : tx[p] = None

\* The two ways of saying it agree.
LEMMA NothingInKept ==
    ASSUME Typed
    PROVE  Kept = {} <=> NothingKept
<1>1. /\ journal # None => journal.prior \in Content
      /\ state.prior # None => state.prior \in Content
      /\ \A p \in Procs : tx[p] # None => tx[p].prior \in Content
  BY DEF Typed, TypeOK, Transaction
<1>2. ASSUME Kept = {} PROVE NothingKept
  BY <1>1, <1>2 DEF Kept, NothingKept
<1>3. ASSUME NothingKept PROVE Kept = {}
  BY <1>3 DEF Kept, NothingKept
<1> QED
  BY <1>2, <1>3

\* With nothing kept, no command gets hold of a configuration while the file
\* is one that InspectNpmrc refuses: the commands that inspect it stop, and
\* those that do not have nothing to write.
LEMMA RefusedStep ==
    ASSUME Typed, NothingKept, npmrc.text \in Unsupported, [Next]_vars
    PROVE  NothingKept' /\ (npmrc' = npmrc \/ Edits)
<1>1. \A p \in Procs : pc[p] \notin Recovering \cup Committing \cup {"health", "begin"}
  BY DEF Typed, Drafted, NothingKept
<1> USE DEF NothingKept, At, NotEnvironment, files, locals
<1>2. ASSUME NEW p \in Procs, StartStatus(p) \/ StartEnable(p) \/ StartDisable(p) \/ Crash(p)
      PROVE  NothingKept' /\ npmrc' = npmrc
  BY <1>2 DEF StartStatus, StartEnable, StartDisable, Start, Crash, Exit, Typed, TypeOK
<1>3. ASSUME NEW p \in Procs, RecoverJournal(p)
      PROVE  NothingKept' /\ npmrc' = npmrc
  BY <1>1, <1>3 DEF RecoverJournal, RecoverNothing, RecoverRead, RecoverTemp, RecoverRestore,
     RecoverFail, RecoverSave, RecoverClear, Recovered, Recovering, Typed, TypeOK
<1>4. ASSUME NEW p \in Procs, EnableInspect(p) \/ EnableHealth(p)
      PROVE  NothingKept' /\ npmrc' = npmrc
  BY <1>1, <1>4 DEF EnableInspect, EnableHealth, Inspectable, Exit, Typed, TypeOK
<1>5. ASSUME NEW p \in Procs, DisableLoad(p) \/ DisableFallback(p)
      PROVE  NothingKept' /\ npmrc' = npmrc
  BY <1>5 DEF DisableLoad, DisableFallback, Inspectable, Exit, Typed, TypeOK
<1>6. ASSUME NEW p \in Procs PROVE ~RunTransaction(p)
  BY <1>1 DEF RunTransaction, BeginTransaction, StageTransaction, CommitTransaction, CommitSave,
     CommitClear, Fail, Committing
<1>7. CASE GatewayStop \/ GatewayStart \/ UNCHANGED vars
  BY <1>7 DEF GatewayStop, GatewayStart, vars
<1>8. CASE Edits
  BY <1>8 DEF Edits, UserEdit
<1> QED
  BY <1>2, <1>3, <1>4, <1>5, <1>6, <1>7, <1>8 DEF Next, Proceed

\* A file that InspectNpmrc refuses is never copied, and it is not written
\* over unless an earlier configuration was kept when it was put in place.
THEOREM UnsupportedStays == Spec => UnsupportedUntouched
<1> DEFINE Left == npmrc.text \in Unsupported =>
                     /\ npmrc \notin Kept'
                     /\ Kept = {} => Kept' = {} /\ (npmrc' = npmrc \/ Edits)
<1>1. ASSUME Typed, Typed', KeptSupported', [Next]_vars, npmrc.text \in Unsupported
      PROVE  /\ npmrc \notin Kept'
             /\ Kept = {} => Kept' = {} /\ (npmrc' = npmrc \/ Edits)
  <2>1. \A c \in Kept' : Supported(c)
    <3>1. (\A c \in Kept : Supported(c))'
      BY <1>1, KeptAreSupported, PTL
    <3> QED
      BY <3>1
  <2>2. npmrc \notin Kept'
    BY <1>1, <2>1 DEF Supported
  <2>3. (Kept = {} <=> NothingKept) /\ (Kept = {} <=> NothingKept)'
    BY <1>1, NothingInKept, PTL
  <2>4. ASSUME Kept = {} PROVE Kept' = {} /\ (npmrc' = npmrc \/ Edits)
    BY <1>1, <2>3, <2>4, RefusedStep
  <2> QED
    BY <2>2, <2>4
<1>2. Typed /\ Typed' /\ KeptSupported' /\ [Next]_vars => [Left]_vars
  BY <1>1
<1> QED
  BY <1>2, TypedAlways, CredentialsNeverKept, PTL DEF Spec, UnsupportedUntouched
=============================================================================
