------------------------------ MODULE Database ------------------------------
(***************************************************************************)
(* The SQLite database that every installgate process shares:              *)
(*                                                                         *)
(*   internal/store/migrations.go   ordered schema migrations              *)
(*   internal/store/sqlite.go       OpenSQLite, ApplyMigrations, Close,    *)
(*                                  SaveDecision, AppendAudit,             *)
(*                                  ClearEvidenceCache, Backup             *)
(*   internal/store/audit.go        ExportAuditJSON                        *)
(*   cmd/installgate/main.go        runBackup, runRestore, runCache        *)
(*                                                                         *)
(* A process opens the database, brings the schema up to date and then     *)
(* runs commands; every statement outside a transaction and every          *)
(* transaction is one commit.  The database is the file as of the last     *)
(* checkpoint and the commits in its write-ahead log: with synchronous =   *)
(* NORMAL a power failure keeps some prefix of the log, while the end of a *)
(* process loses nothing.                                                  *)
(***************************************************************************)
EXTENDS Integers, Sequences, FiniteSets, SequencesExt

CONSTANTS
    Servers, Tools, \* gateway processes, processes that run CLI commands
    LastMigration,  \* the migrations are 1 .. LastMigration
    Packages,
    Batch,          \* batchSize of ExportAuditJSON
    Window,         \* how many events cache rebuild looks at
    MaxWal,         \* commits in the log before SQLite checkpoints by itself
    MaxEvents,      \* bound on the length of the audit log
    MaxFailures,    \* bound on kills, failed statements and power failures
    MaxRestores,    \* bound on restores of an intact database
    Torn,           \* a file that is part of a database
    Missing         \* no file

Procs      == Servers \cup Tools
Migrations == 1 .. LastMigration

ASSUME MigrationsAssumption == LastMigration \in Nat \ {0}
ASSUME BatchAssumption == Batch \in Nat \ {0} /\ Window \in Nat \ {0} /\ MaxWal \in Nat \ {0}
ASSUME BoundsAssumption == {MaxEvents, MaxFailures, MaxRestores} \subseteq Nat

\* A decision: its document and its audit event carry the same identifier.
Events  == [pkg : Packages, verdict : {"allow", "block"}]
Content == [meta : BOOLEAN,                 \* is there a schema_migrations table?
            recorded : SUBSET Migrations,   \* its rows
            schema : SUBSET Migrations,     \* whose tables and indexes exist
            decisions : SUBSET Events, audit : Seq(Events),
            cache : SUBSET Packages]        \* cached_allows

Empty == [meta |-> FALSE, recorded |-> {}, schema |-> {}, decisions |-> {}, audit |-> <<>>,
          cache |-> {}]

ASSUME FilesAssumption == Torn \notin Content /\ Missing \notin Content \cup {Torn}

VARIABLES
    durable,    \* the database file
    commits,    \* the write-ahead log: the content after each commit
    synced,     \* has the database file been synced since it was restored?
    backup,     \* the backup file
    image,      \* what runRestore read from it
    pc, applied, work, from,    \* each process and its locals
    unsaved,    \* history: decisions that SaveDecision failed to save
    faults, outages, restores

fileVars  == <<durable, commits, synced>>
localVars == <<applied, work, from>>
faultVars == <<faults, outages, restores>>
vars      == <<fileVars, backup, image, pc, localVars, unsaved, faultVars>>

Points     == {"off", "init", "read", "migrate", "ready", "record", "export", "exported",
               "rebuild", "refill", "vacuum", "unlink", "overwrite", "writing"}
Restoring  == {"unlink", "overwrite", "writing"}

\* Every variable has its type; the log belongs to an intact file.
TypeOK ==
    /\ durable \in Content \cup {Torn}
    /\ commits \in Seq(Content) /\ Len(commits) <= MaxWal
    /\ durable = Torn => commits = <<>>
    /\ synced \in BOOLEAN
    /\ backup \in Content \cup {Torn, Missing} /\ image \in Content \cup {Torn, Missing}
    /\ pc \in [Procs -> Points]
    /\ applied \in [Procs -> SUBSET Migrations]
    /\ work \in [Procs -> Seq(Events)] /\ from \in [Procs -> Seq(Events)]
    /\ unsaved \subseteq Events
    /\ faults \in Nat /\ outages \in Nat /\ faults + outages <= MaxFailures
    /\ restores \in 0 .. MaxRestores

\* A new machine, or one with a backup of an older release that knew fewer
\* migrations.
Init ==
    /\ durable = Empty /\ commits = <<>> /\ synced = TRUE
    /\ backup \in {Missing, [Empty EXCEPT !.meta = TRUE, !.recorded = {1}, !.schema = {1}]}
    /\ image = Missing
    /\ pc = [p \in Procs |-> "off"]
    /\ applied = [p \in Procs |-> {}]
    /\ work = [p \in Procs |-> <<>>] /\ from = [p \in Procs |-> <<>>]
    /\ unsaved = {}
    /\ faults = 0 /\ outages = 0 /\ restores = 0

\* What a reader sees.
Current == IF commits = <<>> THEN durable ELSE Last(commits)

\* The commit that finds the log full checkpoints what is in it; one that
\* changes no page is not logged.
Commit(c) ==
    IF c = Current THEN UNCHANGED fileVars
    ELSE IF Len(commits) < MaxWal
    THEN commits' = Append(commits, c) /\ UNCHANGED <<durable, synced>>
    ELSE commits' = <<c>> /\ durable' = Current /\ synced' = TRUE

\* Something goes wrong.
Fault == faults + outages < MaxFailures /\ faults' = faults + 1 /\ UNCHANGED <<outages, restores>>

Go(p, point) == pc' = [pc EXCEPT ![p] = point]
Idle(p) == /\ applied' = [applied EXCEPT ![p] = {}]
           /\ work' = [work EXCEPT ![p] = <<>>]
           /\ from' = [from EXCEPT ![p] = <<>>]
\* getStore has returned.
Working(p) == pc[p] \notin {"off", "init", "read", "migrate"} \cup Restoring

-----------------------------------------------------------------------------
(* getStore: open and migrate.                                             *)

\* No process opens the database during a restore: that is left to the
\* operator.  A file that is no database is refused.
OpenSQLite(p) ==
    /\ pc[p] = "off"
    /\ \A q \in Procs : pc[q] \notin Restoring
    /\ durable # Torn
    /\ Go(p, "init")
    /\ UNCHANGED <<fileVars, backup, image, localVars, unsaved, faultVars>>

initMigrationTable(p) ==
    /\ pc[p] = "init"
    /\ IF Current.meta THEN UNCHANGED fileVars ELSE Commit([Current EXCEPT !.meta = TRUE])
    /\ Go(p, "read")
    /\ UNCHANGED <<backup, image, localVars, unsaved, faultVars>>

\* Mutant: no row is ever seen.
NoneApplied == {}

AppliedVersions == Current.recorded

getAppliedVersions(p) ==
    /\ pc[p] = "read"
    /\ applied' = [applied EXCEPT ![p] = AppliedVersions]
    /\ Go(p, "migrate")
    /\ UNCHANGED <<fileVars, backup, image, work, from, unsaved, faultVars>>

\* Mutant: the tables are created before the transaction that records them.
MigratedInTwo(c, m) ==
    IF m \in c.schema THEN [c EXCEPT !.recorded = @ \cup {m}]
                      ELSE [c EXCEPT !.schema = @ \cup {m}]

\* The transaction of applyMigration.
Migrated(c, m) == [c EXCEPT !.schema = @ \cup {m}, !.recorded = @ \cup {m}]

\* The next missing migration.  One that another process has recorded since
\* getAppliedVersions violates the primary key: rollback, exit.
applyMigration(p) ==
    /\ pc[p] = "migrate"
    /\ \E m \in Migrations \ applied[p] :
          /\ \A k \in Migrations \ applied[p] : m <= k
          /\ IF m \in Current.recorded
             THEN Go(p, "off") /\ Idle(p) /\ UNCHANGED fileVars
             ELSE /\ Commit(Migrated(Current, m))
                  /\ applied' = [applied EXCEPT ![p] = @ \cup {m}]
                  /\ UNCHANGED <<pc, work, from>>
    /\ UNCHANGED <<backup, image, unsaved, faultVars>>

\* Mutant: migrations are left to the server's next start.
MigrationsDoneEarly(p) == 1 \in applied[p]

MigrationsDone(p) == Migrations \subseteq applied[p]

ApplyMigrations(p) ==
    /\ pc[p] = "migrate" /\ MigrationsDone(p)
    /\ Go(p, "ready") /\ Idle(p)
    /\ UNCHANGED <<fileVars, backup, image, unsaved, faultVars>>

\* Mutant: the log is removed without a checkpoint.
CloseDropsLog(p) ==
    /\ pc[p] = "ready"
    /\ Go(p, "off")
    /\ commits' = <<>>
    /\ UNCHANGED <<durable, synced, backup, image, localVars, unsaved, faultVars>>

\* The last connection to close checkpoints and removes the log.
Close(p) ==
    /\ pc[p] = "ready"
    /\ Go(p, "off")
    /\ IF \A q \in Procs \ {p} : pc[q] = "off"
       THEN durable' = Current /\ commits' = <<>> /\ synced' = TRUE
       ELSE UNCHANGED fileVars
    /\ UNCHANGED <<backup, image, localVars, unsaved, faultVars>>

-----------------------------------------------------------------------------
(* Decisions: EvaluateSnapshot saves the document, then the audit event,   *)
(* each in a commit of its own, and ignores both errors.                   *)

\* Mutant: the audit event is written first.
SaveDecisionLast(p) ==
    /\ pc[p] = "ready"
    /\ Len(Current.audit) < MaxEvents
    /\ \E e \in Events :
          /\ work' = [work EXCEPT ![p] = <<e>>]
          /\ Commit([Current EXCEPT !.audit = Append(@, e)])
    /\ Go(p, "record")
    /\ UNCHANGED <<backup, image, applied, from, unsaved, faultVars>>

SaveDecision(p) ==
    /\ pc[p] = "ready"
    /\ Len(Current.audit) < MaxEvents
    /\ \E e \in Events :
          /\ work' = [work EXCEPT ![p] = <<e>>]
          /\ \/ /\ Commit([Current EXCEPT !.decisions = @ \cup {e}])
                /\ UNCHANGED <<unsaved, faultVars>>
             \/ Fault /\ unsaved' = unsaved \cup {e} /\ UNCHANGED fileVars
    /\ Go(p, "record")
    /\ UNCHANGED <<backup, image, applied, from>>

AppendAudit(p) ==
    /\ pc[p] = "record"
    /\ \/ /\ Len(Current.audit) < MaxEvents
          /\ Commit([Current EXCEPT !.audit = @ \o work[p]])
          /\ UNCHANGED faultVars
       \/ Fault /\ UNCHANGED fileVars
    /\ Go(p, "ready") /\ Idle(p)
    /\ UNCHANGED <<backup, image, unsaved>>

\* Mutant: the newest events come first.
ListNewest(limit, offset) ==
    LET a == Reverse(Current.audit)
    IN  SubSeq(a, offset + 1, IF offset + limit < Len(a) THEN offset + limit ELSE Len(a))

\* ORDER BY id ASC LIMIT limit OFFSET offset.
ListAuditEvents(limit, offset) ==
    LET a == Current.audit
    IN  SubSeq(a, offset + 1, IF offset + limit < Len(a) THEN offset + limit ELSE Len(a))

ExportAuditJSON(p) ==
    /\ pc[p] = "ready"
    /\ from' = [from EXCEPT ![p] = Current.audit]
    /\ work' = [work EXCEPT ![p] = <<>>]
    /\ Go(p, "export")
    /\ UNCHANGED <<fileVars, backup, image, applied, unsaved, faultVars>>

\* One page; a short one is the last.
ExportBatch(p) ==
    LET events == ListAuditEvents(Batch, Len(work[p]))
    IN  /\ pc[p] = "export"
        /\ work' = [work EXCEPT ![p] = @ \o events]
        /\ Go(p, IF Len(events) < Batch THEN "exported" ELSE "export")
        /\ UNCHANGED <<fileVars, backup, image, applied, from, unsaved, faultVars>>

ExportReturns(p) ==
    /\ pc[p] = "exported"
    /\ Go(p, "ready") /\ Idle(p)
    /\ UNCHANGED <<fileVars, backup, image, unsaved, faultVars>>

-----------------------------------------------------------------------------
(* installgate cache clear, and cache rebuild, which goes on from there.   *)

ClearEvidenceCache(p) ==
    /\ pc[p] = "ready"
    /\ Commit([Current EXCEPT !.cache = {}])
    /\ pc' \in {[pc EXCEPT ![p] = "ready"], [pc EXCEPT ![p] = "rebuild"]}
    /\ UNCHANGED <<backup, image, localVars, unsaved, faultVars>>

\* The oldest events only; if they cannot be read, none.
RebuildList(p) ==
    /\ pc[p] = "rebuild"
    /\ \/ work' = [work EXCEPT ![p] = ListAuditEvents(Window, 0)] /\ UNCHANGED faultVars
       \/ Fault /\ UNCHANGED work
    /\ Go(p, "refill")
    /\ UNCHANGED <<fileVars, backup, image, applied, from, unsaved>>

\* SaveCachedAllow for each decision that allowed, one commit each; an error is
\* ignored.
RebuildSave(p) ==
    /\ pc[p] = "refill" /\ work[p] # <<>>
    /\ \/ /\ Head(work[p]).verdict = "allow"
          /\ Commit([Current EXCEPT !.cache = @ \cup {Head(work[p]).pkg}])
          /\ UNCHANGED faultVars
       \/ Head(work[p]).verdict = "allow" /\ Fault /\ UNCHANGED fileVars
       \/ Head(work[p]).verdict # "allow" /\ UNCHANGED <<fileVars, faultVars>>
    /\ work' = [work EXCEPT ![p] = Tail(@)]
    /\ UNCHANGED <<backup, image, pc, applied, from, unsaved>>

RebuildReturns(p) ==
    /\ pc[p] = "refill" /\ work[p] = <<>>
    /\ Go(p, "ready")
    /\ UNCHANGED <<fileVars, backup, image, localVars, unsaved, faultVars>>

-----------------------------------------------------------------------------
(* Backup and restore.                                                     *)

\* The old backup is removed first.
Backup(p) ==
    /\ pc[p] = "ready"
    /\ backup' = Missing
    /\ Go(p, "vacuum")
    /\ UNCHANGED <<fileVars, image, localVars, unsaved, faultVars>>

\* VACUUM INTO copies the snapshot one reader sees.
VacuumInto(p) ==
    /\ pc[p] = "vacuum"
    /\ backup' = Current
    /\ Go(p, "ready")
    /\ UNCHANGED <<fileVars, image, localVars, unsaved, faultVars>>

\* The probe only opens the file, so part of a database passes.  Nothing stops
\* runRestore while the database is in use: that too is left to the operator.
RestoreRead(p) ==
    /\ \A q \in Procs : pc[q] = "off"
    /\ restores < MaxRestores \/ durable = Torn
    /\ backup # Missing
    /\ image' = backup
    /\ restores' = IF restores < MaxRestores THEN restores + 1 ELSE restores
    /\ Go(p, "unlink")
    /\ UNCHANGED <<fileVars, backup, localVars, unsaved, faults, outages>>

RestoreRemoveWal(p) ==
    /\ pc[p] = "unlink"
    /\ commits' = <<>>
    /\ Go(p, "overwrite")
    /\ UNCHANGED <<durable, synced, backup, image, localVars, unsaved, faultVars>>

\* os.WriteFile truncates the file in place: for a while it is an empty
\* database, then part of one.
RestoreTruncate(p) ==
    /\ pc[p] = "overwrite"
    /\ durable' \in {Empty, Torn} /\ synced' = FALSE
    /\ Go(p, "writing")
    /\ UNCHANGED <<commits, backup, image, localVars, unsaved, faultVars>>

RestoreWrite(p) ==
    /\ pc[p] = "writing"
    /\ durable' = image /\ image' = Missing
    /\ Go(p, "off")
    /\ UNCHANGED <<commits, synced, backup, localVars, unsaved, faultVars>>

-----------------------------------------------------------------------------
(* Failures.                                                               *)

\* A process is killed or gives up (the database stays locked, the disk is
\* full): its open transaction is rolled back.  A backup is left empty or in
\* part.
Kill(p) ==
    /\ pc[p] # "off"
    /\ Fault
    /\ Go(p, "off") /\ Idle(p)
    /\ IF pc[p] = "vacuum" THEN backup' \in {Missing, Empty, Torn} ELSE UNCHANGED backup
    /\ image' = IF pc[p] \in Restoring THEN Missing ELSE image
    /\ UNCHANGED <<fileVars, unsaved>>

\* The log is recovered up to the last frame that was written.
Survivors == {SubSeq(commits, 1, n) : n \in 0 .. Len(commits)}

\* Every process is gone; a restored file that was never synced may be too.
PowerLoss ==
    /\ faults + outages < MaxFailures
    /\ outages' = outages + 1
    /\ pc' = [p \in Procs |-> "off"]
    /\ applied' = [p \in Procs |-> {}]
    /\ work' = [p \in Procs |-> <<>>] /\ from' = [p \in Procs |-> <<>>]
    /\ \/ durable' = durable /\ commits' \in Survivors
       \/ ~synced /\ durable' \in {Empty, Torn} /\ commits' = <<>>
    /\ synced' = TRUE
    /\ IF \E p \in Procs : pc[p] = "vacuum" THEN backup' \in {Missing, Empty, Torn}
       ELSE UNCHANGED backup
    /\ image' = Missing
    /\ UNCHANGED <<unsaved, faults, restores>>

-----------------------------------------------------------------------------
getStore(p) ==
    \/ OpenSQLite(p) \/ initMigrationTable(p) \/ getAppliedVersions(p) \/ applyMigration(p)
    \/ ApplyMigrations(p)

Decide(p) == SaveDecision(p) \/ AppendAudit(p)

Command(p) ==
    \/ ExportAuditJSON(p) \/ ExportBatch(p) \/ ExportReturns(p)
    \/ ClearEvidenceCache(p) \/ RebuildList(p) \/ RebuildSave(p)
    \/ RebuildReturns(p) \/ Backup(p) \/ VacuumInto(p)

runRestore(p) ==
    \/ RestoreRead(p) \/ RestoreRemoveWal(p) \/ RestoreTruncate(p) \/ RestoreWrite(p)

Next ==
    \/ \E p \in Procs : getStore(p) \/ Close(p) \/ Kill(p)
    \/ \E p \in Servers : Decide(p)
    \/ \E p \in Tools : Command(p) \/ runRestore(p)
    \/ PowerLoss

Spec == Init /\ [][Next]_vars

\* A command that failed to open the database is run again, a process that is
\* migrating or restoring goes on, and a restore that was interrupted is run
\* again.
FairSpec ==
    /\ Spec
    /\ \A p \in Procs : WF_vars(getStore(p))
    /\ \A p \in Tools : WF_vars((durable = Torn \/ pc[p] \in Restoring) /\ runRestore(p))

-----------------------------------------------------------------------------
(* Properties.                                                             *)

\* Every state of the file that can be found at some time.
Files == {c \in {durable, backup} \cup Range(commits) : c \in Content}

\* The schema that exists is the schema that is recorded, and it is a prefix of
\* the migrations: through racing processes, faults, power failures, backups and
\* restores that are interrupted at any point.
SchemaRecorded ==
    \A c \in Files :
        /\ c.schema = c.recorded
        /\ \A m \in c.recorded : 1 .. m \subseteq c.recorded
        /\ c.recorded # {} => c.meta

\* A process past getStore always finds the whole schema, also after a backup of
\* an older release was restored.
SchemaBeforeUse ==
    \A p \in Procs : Working(p) => Current.schema = Migrations

\* An export that runs while others append has no gap and no duplicate, and has
\* every event that was there when it began.
ExportComplete ==
    \A p \in Procs : pc[p] = "exported" =>
        IsPrefix(from[p], work[p]) /\ IsPrefix(work[p], Current.audit)

\* Whatever a power failure cuts off, an audit event never survives without the
\* decision document it names, unless saving the document had failed.
AuditExplained ==
    \A c \in Files : Range(c.audit) \subseteq c.decisions \cup unsaved

\* The audit log only grows: it is cut by nothing but a power failure or a
\* restore.
AuditAppendOnly ==
    [][\/ \E p \in Procs : pc[p] \in Restoring
       \/ outages' # outages
       \/ durable # Torn /\ IsPrefix(Current.audit, Current'.audit)
       \/ durable = Torn /\ UNCHANGED fileVars]_vars

\* Two first starts may fail each other, a restore may be cut off half-way, but
\* not for ever: commands that are run again get to work, unless neither the
\* database nor the backup is left whole.
StartsEventually ==
    []<>((durable = Torn /\ backup \in {Torn, Missing}) \/ \E p \in Procs : Working(p))
=============================================================================
