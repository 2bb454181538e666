--------------------------- MODULE DatabaseProofs ---------------------------
(***************************************************************************)
(* Proofs about Database, for any number of processes, migrations, events  *)
(* and failures.                                                           *)
(*                                                                         *)
(* No property is inductive by itself.  The file alone does not say why a  *)
(* process may record the next migration, append its event or skip a page: *)
(* that rests on what the process read before, and the database may have   *)
(* changed since.  The inductive invariant says, for each process, what is *)
(* still true of what it read (Local), because a database in use only      *)
(* grows (Grows) and nobody uses one that is being restored (Alone).       *)
(***************************************************************************)
EXTENDS Database, SequenceTheorems, TLAPS

-----------------------------------------------------------------------------
(* The inductive invariant.                                                *)

Tables(c) ==
    /\ c.schema = c.recorded
    /\ \A m \in c.recorded : 1 .. m \subseteq c.recorded
    /\ c.recorded # {} => c.meta

Explained(c, u) == Range(c.audit) \subseteq c.decisions \cup u

Sound(c, u) == Tables(c) /\ Explained(c, u)

\* Every copy of the database is sound, also the one a restore has read.
Stored ==
    /\ \A c \in {durable, backup, image} : c \in Content => Sound(c, unsaved)
    /\ \A i \in 1 .. Len(commits) : Sound(commits[i], unsaved)

\* A restore has the database for itself.
Alone == \A p, q \in Procs : pc[p] \in Restoring /\ q # p => pc[q] = "off"

\* A restore has an image and no log to apply to it.
Restores(p) ==
    /\ pc[p] \in Restoring => image # Missing
    /\ pc[p] \in {"overwrite", "writing"} => commits = <<>>

\* A process has opened a database, and what it has read of the schema holds.
Opened(p) ==
    pc[p] \notin {"off"} \cup Restoring =>
        /\ durable # Torn
        /\ pc[p] # "init" => Current.meta
        /\ pc[p] = "migrate" => applied[p] \subseteq Current.recorded
        /\ pc[p] \notin {"init", "read", "migrate"} => Migrations \subseteq Current.recorded

\* The event that is about to be appended has its document.
Records(p) == pc[p] = "record" => Range(work[p]) \subseteq Current.decisions \cup unsaved

\* What has been exported is a first part of the log.
Exports(p) ==
    pc[p] \in {"export", "exported"} =>
        /\ IsPrefix(from[p], Current.audit) /\ IsPrefix(work[p], Current.audit)
        /\ pc[p] = "exported" => Len(from[p]) <= Len(work[p])

Local(p) == Restores(p) /\ Opened(p) /\ Records(p) /\ Exports(p)

IInv == TypeOK /\ Stored /\ Alone /\ \A p \in Procs : Local(p)

\* A database in use changes like this.
Grows(c, d) ==
    /\ c.meta => d.meta
    /\ c.recorded \subseteq d.recorded
    /\ c.decisions \subseteq d.decisions
    /\ IsPrefix(c.audit, d.audit)

-----------------------------------------------------------------------------
(* Prefixes.                                                               *)

\* A prefix element by element.
LEMMA PrefixPoints ==
    ASSUME NEW S, NEW s \in Seq(S), NEW t \in Seq(S)
    PROVE  IsPrefix(s, t) <=> Len(s) <= Len(t) /\ \A i \in 1 .. Len(s) : s[i] = t[i]
<1>0. Len(s) \in Nat /\ Len(t) \in Nat
  BY LenProperties
<1>1. SubSeq(s, 1, Len(s)) = s
  BY SubSeqFull
<1>2. ASSUME Len(s) <= Len(t)
      PROVE  /\ SubSeq(t, 1, Len(s)) \in Seq(S) /\ Len(SubSeq(t, 1, Len(s))) = Len(s)
             /\ \A i \in 1 .. Len(s) : SubSeq(t, 1, Len(s))[i] = t[i]
  <2>1. \A i \in 1 .. Len(s) : t[i] \in S
    BY <1>0, <1>2, ElementOfSeq
  <2> QED
    BY <1>0, <2>1, SubSeqProperties
<1>3. ASSUME Len(s) <= Len(t), SubSeq(t, 1, Len(s)) = s
      PROVE  \A i \in 1 .. Len(s) : s[i] = t[i]
  BY <1>2, <1>3
<1>4. ASSUME Len(s) <= Len(t), \A i \in 1 .. Len(s) : s[i] = t[i]
      PROVE  SubSeq(t, 1, Len(s)) = s
  BY <1>2, <1>4, SeqEqual
<1> QED
  BY <1>1, <1>3, <1>4 DEF IsPrefix

\* Everything is a prefix of itself, and a prefix of a prefix is one.
LEMMA PrefixOrder ==
    ASSUME NEW S, NEW s \in Seq(S), NEW t \in Seq(S), NEW u \in Seq(S)
    PROVE  IsPrefix(s, s) /\ (IsPrefix(s, t) /\ IsPrefix(t, u) => IsPrefix(s, u))
<1>0. Len(s) \in Nat /\ Len(t) \in Nat /\ Len(u) \in Nat
  BY LenProperties
<1> QED
  BY <1>0, PrefixPoints

\* Of two prefixes of one sequence the shorter is a prefix of the longer.
LEMMA PrefixesNest ==
    ASSUME NEW S, NEW s \in Seq(S), NEW t \in Seq(S), NEW u \in Seq(S),
           IsPrefix(s, u), IsPrefix(t, u), Len(s) <= Len(t)
    PROVE  IsPrefix(s, t)
<1>0. Len(s) \in Nat /\ Len(t) \in Nat /\ Len(u) \in Nat
  BY LenProperties
<1>1. \A i \in 1 .. Len(s) : s[i] = u[i]
  BY PrefixPoints
<1>2. \A i \in 1 .. Len(t) : t[i] = u[i]
  BY PrefixPoints
<1>3. \A i \in 1 .. Len(s) : s[i] = t[i]
  BY <1>0, <1>1, <1>2
<1> QED
  BY <1>3, PrefixPoints

\* Nothing is a prefix of everything.
LEMMA PrefixOfNothing ==
    ASSUME NEW S, NEW s \in Seq(S)
    PROVE  IsPrefix(<<>>, s)
<1>1. Len(<<>>) = 0 /\ 0 <= Len(s)
  BY EmptySeq, LenProperties
<1>2. SubSeq(<<>>, 1, 0) = <<>> /\ SubSeq(s, 1, 0) = <<>>
  BY SubSeqEmpty
<1> QED
  BY <1>1, <1>2 DEF IsPrefix

\* Appending makes no difference to what is there.
LEMMA PrefixOfConcat ==
    ASSUME NEW S, NEW s \in Seq(S), NEW t \in Seq(S)
    PROVE  IsPrefix(s, s \o t) /\ s \o t \in Seq(S)
<1>0. Len(s) \in Nat /\ Len(t) \in Nat
  BY LenProperties
<1>1. /\ s \o t \in Seq(S) /\ Len(s \o t) = Len(s) + Len(t)
      /\ \A i \in 1 .. Len(s) : (s \o t)[i] = s[i]
  BY <1>0, ConcatProperties
<1> DEFINE st == s \o t
<1>2. st \in Seq(S) /\ Len(s) <= Len(st) /\ \A i \in 1 .. Len(s) : s[i] = st[i]
  BY <1>0, <1>1
<1> HIDE DEF st
<1>3. IsPrefix(s, st)
  BY <1>2, PrefixPoints
<1> QED
  BY <1>2, <1>3 DEF st

\* ListAuditEvents: a page after a prefix makes a longer prefix, and one that
\* is not full makes it the whole.
LEMMA PageExtends ==
    ASSUME Current.audit \in Seq(Events), NEW w \in Seq(Events), IsPrefix(w, Current.audit),
           NEW limit \in Nat \ {0}
    PROVE  /\ ListAuditEvents(limit, Len(w)) \in Seq(Events)
           /\ w \o ListAuditEvents(limit, Len(w)) \in Seq(Events)
           /\ IsPrefix(w \o ListAuditEvents(limit, Len(w)), Current.audit)
           /\ Len(ListAuditEvents(limit, Len(w))) < limit
                 => Len(w \o ListAuditEvents(limit, Len(w))) = Len(Current.audit)
<1> DEFINE a == Current.audit
           n == IF Len(w) + limit < Len(a) THEN Len(w) + limit ELSE Len(a)
           l == SubSeq(a, Len(w) + 1, n)
<1>0. a \in Seq(Events) /\ Len(w) \in Nat /\ Len(a) \in Nat /\ IsPrefix(w, a)
  BY LenProperties
<1>1. Len(w) <= Len(a) /\ \A i \in 1 .. Len(w) : w[i] = a[i]
  BY <1>0, PrefixPoints
<1>2. n \in Nat /\ Len(w) <= n /\ n <= Len(a)
  BY <1>0, <1>1
<1>3. ListAuditEvents(limit, Len(w)) = l
  BY DEF ListAuditEvents
<1> HIDE DEF a
<1>4. \A i \in Len(w) + 1 .. n : a[i] \in Events
  BY <1>0, <1>2, ElementOfSeq
<1>5. n < Len(w) + limit => n = Len(a)
  BY <1>0
<1> HIDE DEF n
<1>6. /\ l \in Seq(Events) /\ Len(l) = n - Len(w)
      /\ \A i \in 1 .. n - Len(w) : l[i] = a[Len(w) + i]
  <2>1. /\ l \in Seq(Events)
        /\ Len(l) = IF Len(w) + 1 <= n THEN n - (Len(w) + 1) + 1 ELSE 0
        /\ \A i \in 1 .. n - (Len(w) + 1) + 1 : l[i] = a[Len(w) + 1 + i - 1]
    BY <1>0, <1>2, <1>4, SubSeqProperties
  <2> QED
    BY <1>0, <1>2, <2>1
<1> HIDE DEF l
<1>7. /\ w \o l \in Seq(Events) /\ Len(w \o l) = n
      /\ \A i \in 1 .. n : (w \o l)[i] = IF i <= Len(w) THEN w[i] ELSE l[i - Len(w)]
  BY <1>0, <1>2, <1>6, ConcatProperties
<1>8. \A i \in 1 .. n : (w \o l)[i] = a[i]
  <2> SUFFICES ASSUME NEW i \in 1 .. n PROVE (w \o l)[i] = a[i]
    OBVIOUS
  <2>1. CASE i <= Len(w)
    BY <1>0, <1>1, <1>2, <1>7, <2>1
  <2>2. CASE ~(i <= Len(w))
    <3>1. i - Len(w) \in 1 .. n - Len(w) /\ Len(w) + (i - Len(w)) = i
      BY <1>0, <1>2, <2>2
    <3> QED
      BY <1>6, <1>7, <2>2, <3>1
  <2> QED
    BY <2>1, <2>2
<1>9. IsPrefix(w \o l, a)
  BY <1>0, <1>2, <1>7, <1>8, PrefixPoints
<1> QED
  BY <1>0, <1>2, <1>3, <1>5, <1>6, <1>7, <1>9 DEF a

-----------------------------------------------------------------------------
(* What a commit does to the database.                                     *)

\* A process that has the database open sees a database.
LEMMA CurrentContent ==
    ASSUME TypeOK, Stored, durable # Torn
    PROVE  Current \in Content /\ Sound(Current, unsaved)
<1>0. durable \in Content /\ commits \in Seq(Content)
  BY DEF TypeOK
<1>1. CASE commits = <<>>
  BY <1>0, <1>1 DEF Current, Stored
<1>2. CASE commits # <<>>
  <2>1. Len(commits) \in 1 .. Len(commits) /\ Last(commits) \in Content
    BY <1>0, <1>2, EmptySeq, ElementOfSeq DEF Last
  <2> QED
    BY <1>2, <2>1 DEF Current, Stored, Last
<1> QED
  BY <1>1, <1>2

\* The fields of a database.
LEMMA ContentFields ==
    ASSUME NEW c \in Content
    PROVE  /\ c.meta \in BOOLEAN /\ c.recorded \subseteq Migrations /\ c.schema \subseteq Migrations
           /\ c.decisions \subseteq Events /\ c.audit \in Seq(Events) /\ c.cache \subseteq Packages
BY DEF Content

\* Nothing is lost by doing nothing.
LEMMA GrowsOrder ==
    ASSUME NEW c \in Content
    PROVE  Grows(c, c)
BY ContentFields, PrefixOrder DEF Grows

\* The database file, the log and what is in them.
Disk ==
    /\ durable \in Content \cup {Torn}
    /\ commits \in Seq(Content) /\ Len(commits) <= MaxWal
    /\ durable = Torn => commits = <<>>
    /\ synced \in BOOLEAN
    /\ durable \in Content => Sound(durable, unsaved)
    /\ \A i \in 1 .. Len(commits) : Sound(commits[i], unsaved)

\* More unsaved decisions explain no less.
LEMMA SoundStays ==
    ASSUME NEW c, NEW u, NEW v, Sound(c, u), u \subseteq v
    PROVE  Sound(c, v)
BY DEF Sound, Explained

\* Whatever else happens, the files that stay as they are stay sound.
LEMMA DiskStays ==
    ASSUME TypeOK, Stored, UNCHANGED fileVars, unsaved \subseteq unsaved'
    PROVE  Disk' /\ Current' = Current
<1>1. Current' = Current
  BY DEF Current, fileVars
<1> QED
  BY <1>1, SoundStays DEF Disk, TypeOK, Stored, fileVars

\* A commit on top of an intact database.
LEMMA CommitStep ==
    ASSUME TypeOK, Stored, durable # Torn, UNCHANGED unsaved,
           NEW c \in Content, Sound(c, unsaved), Commit(c)
    PROVE  Disk' /\ Current' = c /\ durable' # Torn
<1>0. /\ Current \in Content /\ Sound(Current, unsaved) /\ Torn \notin Content
      /\ Len(commits) \in Nat /\ MaxWal \in Nat \ {0}
      /\ commits \in Seq(Content) /\ Len(commits) <= MaxWal
      /\ durable \in Content
  BY CurrentContent, LenProperties, FilesAssumption, BatchAssumption DEF TypeOK
<1>1. CASE c = Current
  BY <1>1, DiskStays DEF Commit, fileVars
<1>2. CASE c # Current /\ Len(commits) < MaxWal
  <2>1. commits' = Append(commits, c) /\ UNCHANGED <<durable, synced>>
    BY <1>2 DEF Commit
  <2>2. /\ commits' \in Seq(Content) /\ commits' # <<>> /\ Len(commits') = Len(commits) + 1
        /\ \A i \in 1 .. Len(commits) : commits'[i] = commits[i]
        /\ commits'[Len(commits) + 1] = c
    BY <1>0, <2>1, AppendProperties
  <2>3. Current' = c
    BY <2>2 DEF Current, Last
  <2>4. \A i \in 1 .. Len(commits') : Sound(commits'[i], unsaved)
    BY <1>0, <2>2 DEF Stored
  <2>5. Len(commits') <= MaxWal
    BY <1>0, <1>2, <2>2
  <2> QED
    BY <1>0, <2>1, <2>2, <2>3, <2>4, <2>5 DEF Disk, TypeOK, Stored
<1>3. CASE c # Current /\ ~(Len(commits) < MaxWal)
  <2>1. commits' = <<c>> /\ durable' = Current /\ synced' = TRUE
    BY <1>3 DEF Commit
  <2>2. /\ commits' \in Seq(Content) /\ commits' # <<>> /\ Len(commits') = 1 /\ commits'[1] = c
    BY <2>1
  <2>3. Current' = c
    BY <2>2 DEF Current, Last
  <2> QED
    BY <1>0, <2>1, <2>2, <2>3 DEF Disk
<1> QED
  BY <1>1, <1>2, <1>3

-----------------------------------------------------------------------------
(* A step of a process that uses the database.                             *)

\* The bounded counters.
Counters == /\ faults \in Nat /\ outages \in Nat /\ faults + outages <= MaxFailures
            /\ restores \in 0 .. MaxRestores

\* Only process p moves.
Runs(p) ==
    /\ pc' \in [Procs -> Points] /\ applied' \in [Procs -> SUBSET Migrations]
    /\ work' \in [Procs -> Seq(Events)] /\ from' \in [Procs -> Seq(Events)]
    /\ \A q \in Procs \ {p} : /\ pc'[q] = pc[q] /\ applied'[q] = applied[q]
                              /\ work'[q] = work[q] /\ from'[q] = from[q]

\* A fault is counted within its bound.
LEMMA CountersStay ==
    ASSUME TypeOK, UNCHANGED faultVars \/ Fault
    PROVE  Counters'
<1>1. CASE UNCHANGED faultVars
  BY <1>1 DEF TypeOK, faultVars, Counters
<1>2. CASE Fault
  BY <1>2, BoundsAssumption DEF TypeOK, Fault, Counters
<1> QED
  BY <1>1, <1>2

\* What another process has read stays true of a database that grows.
LEMMA LocalStays ==
    ASSUME TypeOK, NEW q \in Procs, Local(q), pc[q] \notin Restoring,
           pc'[q] = pc[q], applied'[q] = applied[q], work'[q] = work[q], from'[q] = from[q],
           durable' # Torn, Current \in Content, Current' \in Content,
           Grows(Current, Current'), unsaved \subseteq unsaved'
    PROVE  Local(q)'
<1>1. Restores(q)'
  BY DEF Restores, Restoring
<1>2. Opened(q)'
  BY DEF Local, Opened, Grows
<1>3. Records(q)'
  BY DEF Local, Records, Grows
<1>4. Exports(q)'
  <2>1. /\ from[q] \in Seq(Events) /\ work[q] \in Seq(Events)
        /\ Current.audit \in Seq(Events) /\ Current'.audit \in Seq(Events)
    BY ContentFields DEF TypeOK
  <2> QED
    BY <2>1, PrefixOrder DEF Local, Exports, Grows
<1> QED
  BY <1>1, <1>2, <1>3, <1>4 DEF Local

\* A process uses the database: there is one, and no restore is under way.
LEMMA InUse ==
    ASSUME IInv, NEW p \in Procs, pc[p] \notin {"off"} \cup Restoring
    PROVE  /\ \A q \in Procs : pc[q] \notin Restoring
           /\ durable # Torn
           /\ Current \in Content /\ Sound(Current, unsaved)
<1>1. durable # Torn
  BY DEF IInv, Local, Opened
<1>2. \A q \in Procs : pc[q] \notin Restoring
  BY DEF IInv, Alone
<1> QED
  BY <1>1, <1>2, CurrentContent DEF IInv

\* A step that keeps the database growing needs a look at its own process only.
LEMMA GrowStep ==
    ASSUME IInv, NEW p \in Procs, \A q \in Procs : pc[q] \notin Restoring,
           durable # Torn, durable' # Torn, Disk', Current' \in Content, Grows(Current, Current'),
           unsaved \subseteq unsaved', unsaved' \subseteq Events,
           backup' \in Content \cup {Torn, Missing},
           backup' \in Content => Sound(backup', unsaved'),
           UNCHANGED image, Counters', Runs(p), pc'[p] \notin Restoring,
           Opened(p)', Records(p)', Exports(p)'
    PROVE  IInv'
<1>1. TypeOK'
  BY DEF IInv, TypeOK, Disk, Counters, Runs
<1>2. Stored'
  BY SoundStays DEF IInv, Stored, Disk
<1>3. Alone'
  BY DEF Runs, Alone
<1>4. Local(p)'
  BY DEF Local, Restores, Restoring
<1>5. ASSUME NEW q \in Procs \ {p} PROVE Local(q)'
  <2>1. Current \in Content
    BY CurrentContent DEF IInv
  <2> QED
    BY <1>5, <2>1, LocalStays DEF IInv, Runs
<1> QED
  BY <1>1, <1>2, <1>3, <1>4, <1>5 DEF IInv

\* The same where the files and their history stay as they are.
LEMMA ReadStep ==
    ASSUME IInv, NEW p \in Procs, \A q \in Procs : pc[q] \notin Restoring,
           durable # Torn, UNCHANGED <<fileVars, unsaved, image>>,
           backup' \in Content \cup {Torn, Missing}, backup' \in Content => Sound(backup', unsaved),
           Counters', Runs(p), pc'[p] \notin Restoring,
           Opened(p)', Records(p)', Exports(p)'
    PROVE  IInv'
<1>1. Disk' /\ Current' = Current /\ durable' = durable
  BY DiskStays DEF IInv, fileVars
<1>2. Current \in Content /\ Grows(Current, Current)
  BY CurrentContent, GrowsOrder DEF IInv
<1>3. unsaved' = unsaved /\ unsaved \subseteq Events
  BY DEF IInv, TypeOK
<1> QED
  BY <1>1, <1>2, <1>3, GrowStep

\* A process that has returned or waits for its next command says nothing.
LEMMA PlainLocal ==
    ASSUME NEW p \in Procs,
           \/ pc'[p] = "off"
           \/ /\ pc'[p] \in {"ready", "rebuild", "refill", "vacuum"}
              /\ durable' # Torn /\ Current'.meta /\ Migrations \subseteq Current'.recorded
    PROVE  Opened(p)' /\ Records(p)' /\ Exports(p)' /\ pc'[p] \notin Restoring
BY DEF Opened, Records, Exports, Restoring

\* Moving one process.
LEMMA GoRuns ==
    ASSUME TypeOK, NEW p \in Procs, NEW point \in Points, Go(p, point)
    PROVE  /\ pc' \in [Procs -> Points] /\ pc'[p] = point
           /\ \A q \in Procs \ {p} : pc'[q] = pc[q]
           /\ UNCHANGED localVars \/ Idle(p) => Runs(p)
<1>1. /\ pc' \in [Procs -> Points] /\ pc'[p] = point
      /\ \A q \in Procs \ {p} : pc'[q] = pc[q]
  BY DEF TypeOK, Go
<1>2. CASE UNCHANGED localVars
  BY <1>1, <1>2 DEF TypeOK, localVars, Runs
<1>3. CASE Idle(p)
  <2>1. <<>> \in Seq(Events)
    BY EmptySeq
  <2> QED
    BY <1>1, <1>3, <2>1 DEF TypeOK, Idle, Runs
<1> QED
  BY <1>1, <1>2, <1>3

-----------------------------------------------------------------------------
(* getStore and Close.                                                     *)

\* What a commit may not touch stays, whichever field it sets.
LEMMA FieldSet ==
    ASSUME NEW c \in Content
    PROVE  /\ [c EXCEPT !.meta = TRUE] \in Content
           /\ \A m \in Migrations : Migrated(c, m) \in Content
           /\ \A e \in Events : [c EXCEPT !.decisions = @ \cup {e}] \in Content
           /\ \A w \in Seq(Events) : [c EXCEPT !.audit = @ \o w] \in Content
           /\ \A s \in SUBSET Packages : [c EXCEPT !.cache = s] \in Content
<1>1. \A w \in Seq(Events) : c.audit \o w \in Seq(Events)
  BY ContentFields, ConcatProperties
<1> QED
  BY <1>1 DEF Content, Migrated

\* A database is opened, its table of migrations is made and read.
LEMMA OpenStep ==
    ASSUME IInv, NEW p \in Procs,
           OpenSQLite(p) \/ initMigrationTable(p) \/ getAppliedVersions(p)
    PROVE  IInv'
<1>0. /\ TypeOK /\ Stored /\ Local(p) /\ UNCHANGED <<backup, image, unsaved, faultVars>>
      /\ "init" \in Points /\ "read" \in Points /\ "migrate" \in Points
      /\ backup' \in Content \cup {Torn, Missing} /\ (backup' \in Content => Sound(backup', unsaved))
      /\ backup' \in Content => Sound(backup', unsaved')
  BY DEF IInv, TypeOK, Stored, OpenSQLite, initMigrationTable, getAppliedVersions, Points
<1>1. Counters'
  BY <1>0, CountersStay
<1>2. CASE OpenSQLite(p)
  <2>1. Runs(p) /\ pc'[p] = "init" /\ durable # Torn /\ UNCHANGED fileVars
    BY <1>0, <1>2, GoRuns DEF OpenSQLite
  <2>2. Opened(p)' /\ Records(p)' /\ Exports(p)' /\ pc'[p] \notin Restoring
    BY <2>1 DEF Opened, Records, Exports, fileVars, Restoring
  <2> QED
    BY <1>0, <1>1, <1>2, <2>1, <2>2, ReadStep DEF OpenSQLite
<1>3. CASE initMigrationTable(p)
  <2>1. Runs(p) /\ pc'[p] = "read" /\ pc[p] = "init"
    BY <1>0, <1>3, GoRuns DEF initMigrationTable
  <2>2. /\ \A q \in Procs : pc[q] \notin Restoring
        /\ durable # Torn /\ Current \in Content /\ Sound(Current, unsaved)
    BY <2>1, InUse DEF Restoring
  <2>3. CASE Current.meta
    <3>1. UNCHANGED fileVars /\ Current' = Current
      BY <1>3, <2>3 DEF initMigrationTable, fileVars, Current
    <3>2. Opened(p)' /\ Records(p)' /\ Exports(p)' /\ pc'[p] \notin Restoring
      BY <2>1, <2>2, <2>3, <3>1 DEF Opened, Records, Exports, fileVars, Restoring
    <3> QED
      BY <1>0, <1>1, <2>1, <2>2, <3>1, <3>2, ReadStep
  <2>4. CASE ~Current.meta
    <3> DEFINE c == [Current EXCEPT !.meta = TRUE]
    <3>1. c \in Content /\ Commit(c)
      BY <1>3, <2>2, <2>4, FieldSet DEF initMigrationTable
    <3>2. /\ c.meta /\ c.recorded = Current.recorded /\ c.schema = Current.schema
          /\ c.decisions = Current.decisions /\ c.audit = Current.audit
      BY <2>2 DEF Content
    <3> HIDE DEF c
    <3>3. Sound(c, unsaved)
      BY <2>2, <3>2 DEF Sound, Tables, Explained
    <3>4. Grows(Current, c)
      BY <2>2, <3>2, GrowsOrder DEF Grows
    <3>5. Disk' /\ Current' = c /\ durable' # Torn
      BY <1>0, <2>2, <3>1, <3>3, CommitStep
    <3>6. Opened(p)' /\ Records(p)' /\ Exports(p)' /\ pc'[p] \notin Restoring
      BY <2>1, <3>2, <3>5 DEF Opened, Records, Exports, Restoring
    <3>7. unsaved \subseteq unsaved' /\ unsaved' \subseteq Events
      BY <1>0 DEF TypeOK
    <3> QED
      BY <1>0, <1>1, <2>1, <2>2, <3>1, <3>4, <3>5, <3>6, <3>7, GrowStep
  <2> QED
    BY <2>3, <2>4
<1>4. CASE getAppliedVersions(p)
  <2>1. /\ pc[p] = "read" /\ Go(p, "migrate") /\ UNCHANGED <<fileVars, work, from>>
        /\ applied' = [applied EXCEPT ![p] = Current.recorded]
    BY <1>4 DEF getAppliedVersions, AppliedVersions
  <2>2. /\ \A q \in Procs : pc[q] \notin Restoring
        /\ durable # Torn /\ Current \in Content /\ Current' = Current
    BY <2>1, InUse DEF Restoring, fileVars, Current
  <2>3. Runs(p) /\ pc'[p] = "migrate" /\ applied'[p] = Current.recorded
    BY <1>0, <2>1, <2>2, GoRuns, ContentFields DEF TypeOK, Runs
  <2>4. Opened(p)' /\ Records(p)' /\ Exports(p)' /\ pc'[p] \notin Restoring
    BY <1>0, <2>1, <2>2, <2>3 DEF Local, Opened, Records, Exports, fileVars, Restoring
  <2> QED
    BY <1>0, <1>1, <2>1, <2>2, <2>3, <2>4, ReadStep
<1> QED
  BY <1>2, <1>3, <1>4

\* The tables of a migration and its row come together, after those of all the
\* migrations before it: the process has applied them or seen them.
LEMMA MigrateStep ==
    ASSUME IInv, NEW p \in Procs, applyMigration(p)
    PROVE  IInv'
<1>0. /\ TypeOK /\ Stored /\ Local(p) /\ UNCHANGED <<backup, image, unsaved, faultVars>>
      /\ "off" \in Points /\ pc[p] = "migrate"
      /\ backup' \in Content \cup {Torn, Missing}
      /\ backup' \in Content => Sound(backup', unsaved) /\ Sound(backup', unsaved')
      /\ unsaved \subseteq unsaved' /\ unsaved' \subseteq Events
  BY DEF IInv, TypeOK, Stored, applyMigration, Points
<1>1. Counters'
  BY <1>0, CountersStay
<1>2. /\ \A q \in Procs : pc[q] \notin Restoring
      /\ durable # Torn /\ Current \in Content /\ Sound(Current, unsaved)
  BY <1>0, InUse DEF Restoring
<1>3. PICK m \in Migrations \ applied[p] :
         /\ \A k \in Migrations \ applied[p] : m <= k
         /\ IF m \in Current.recorded
            THEN Go(p, "off") /\ Idle(p) /\ UNCHANGED fileVars
            ELSE /\ Commit(Migrated(Current, m))
                 /\ applied' = [applied EXCEPT ![p] = @ \cup {m}]
                 /\ UNCHANGED <<pc, work, from>>
  BY DEF applyMigration
<1>4. CASE m \in Current.recorded
  <2>1. Runs(p) /\ pc'[p] = "off" /\ UNCHANGED fileVars
    BY <1>0, <1>3, <1>4, GoRuns
  <2> QED
    BY <1>0, <1>1, <1>2, <2>1, PlainLocal, ReadStep
<1>5. CASE m \notin Current.recorded
  <2> DEFINE c == Migrated(Current, m)
  <2>1. c \in Content /\ Commit(c)
    BY <1>2, <1>3, <1>5, FieldSet
  <2>2. /\ c.meta = Current.meta /\ c.recorded = Current.recorded \cup {m}
        /\ c.schema = Current.schema \cup {m}
        /\ c.decisions = Current.decisions /\ c.audit = Current.audit
    BY <1>2 DEF Content, Migrated
  <2> HIDE DEF c
  <2>3. Current.meta /\ applied[p] \subseteq Current.recorded
    BY <1>0 DEF Local, Opened, Restoring
  <2>4. 1 .. m \subseteq c.recorded
    <3> SUFFICES ASSUME NEW k \in 1 .. m PROVE k \in c.recorded
      OBVIOUS
    <3>1. k \in Migrations /\ (k = m \/ ~(m <= k))
      BY MigrationsAssumption DEF Migrations
    <3>2. k = m \/ k \in applied[p]
      BY <1>3, <3>1
    <3> QED
      BY <2>2, <2>3, <3>2
  <2>5. Sound(c, unsaved)
    BY <1>2, <2>2, <2>3, <2>4 DEF Sound, Tables, Explained
  <2>6. Grows(Current, c)
    BY <1>2, <2>2, GrowsOrder DEF Grows
  <2>7. Disk' /\ Current' = c /\ durable' # Torn
    BY <1>0, <1>2, <2>1, <2>5, CommitStep
  <2>8. Runs(p) /\ pc'[p] = "migrate" /\ applied'[p] = applied[p] \cup {m}
    <3>1. applied' = [applied EXCEPT ![p] = applied[p] \cup {m}] /\ UNCHANGED <<pc, work, from>>
      BY <1>3, <1>5
    <3>2. applied[p] \cup {m} \in SUBSET Migrations
      BY <1>0 DEF TypeOK
    <3> QED
      BY <1>0, <3>1, <3>2 DEF TypeOK, Runs
  <2>9. Opened(p)' /\ Records(p)' /\ Exports(p)' /\ pc'[p] \notin Restoring
    BY <2>2, <2>3, <2>7, <2>8 DEF Opened, Records, Exports, Restoring
  <2> QED
    BY <1>0, <1>1, <1>2, <2>1, <2>6, <2>7, <2>8, <2>9, GrowStep
<1> QED
  BY <1>4, <1>5

\* The schema is complete when a process starts to work; the last process that
\* closes the database moves the log into the file.
LEMMA DoneStep ==
    ASSUME IInv, NEW p \in Procs, ApplyMigrations(p) \/ Close(p)
    PROVE  IInv'
<1>0. /\ TypeOK /\ Stored /\ Local(p) /\ UNCHANGED <<backup, image, unsaved, faultVars>>
      /\ "off" \in Points /\ "ready" \in Points /\ pc[p] \in {"migrate", "ready"}
      /\ backup' \in Content \cup {Torn, Missing}
      /\ backup' \in Content => Sound(backup', unsaved) /\ Sound(backup', unsaved')
      /\ unsaved \subseteq unsaved' /\ unsaved' \subseteq Events
  BY DEF IInv, TypeOK, Stored, ApplyMigrations, Close, Points
<1>1. Counters'
  BY <1>0, CountersStay
<1>2. /\ \A q \in Procs : pc[q] \notin Restoring
      /\ durable # Torn /\ Current \in Content /\ Sound(Current, unsaved)
  BY <1>0, InUse DEF Restoring
<1>3. CASE ApplyMigrations(p)
  <2>1. Runs(p) /\ pc'[p] = "ready" /\ UNCHANGED fileVars
    BY <1>0, <1>3, GoRuns DEF ApplyMigrations
  <2>2. durable' # Torn /\ Current'.meta /\ Migrations \subseteq Current'.recorded
    BY <1>0, <1>2, <1>3, <2>1
    DEF ApplyMigrations, MigrationsDone, Local, Opened, Restoring, fileVars, Current
  <2> QED
    BY <1>0, <1>1, <1>2, <2>1, <2>2, PlainLocal, ReadStep
<1>4. CASE Close(p)
  <2>1. Runs(p) /\ pc'[p] = "off"
    BY <1>0, <1>4, GoRuns DEF Close
  <2>2. CASE UNCHANGED fileVars
    BY <1>0, <1>1, <1>2, <2>1, <2>2, PlainLocal, ReadStep
  <2>3. CASE durable' = Current /\ commits' = <<>> /\ synced' = TRUE
    <3>1. Current' = Current
      BY <2>3 DEF Current
    <3>2. Disk' /\ durable' # Torn
      BY <1>0, <1>2, <2>3, BatchAssumption, FilesAssumption, EmptySeq DEF Disk
    <3> QED
      BY <1>0, <1>1, <1>2, <2>1, <3>1, <3>2, GrowsOrder, PlainLocal, GrowStep
  <2> QED
    BY <1>4, <2>2, <2>3 DEF Close
<1> QED
  BY <1>3, <1>4

-----------------------------------------------------------------------------
(* Decisions, commands and backups.                                        *)

\* A working process and the database it works on.
LEMMA AtWork ==
    ASSUME IInv, NEW p \in Procs,
           pc[p] \in {"ready", "record", "export", "exported", "rebuild", "refill", "vacuum"}
    PROVE  /\ \A q \in Procs : pc[q] \notin Restoring
           /\ durable # Torn /\ Current \in Content /\ Sound(Current, unsaved)
           /\ Current.meta /\ Migrations \subseteq Current.recorded
           /\ TypeOK /\ Stored /\ Local(p)
           /\ backup \in Content \cup {Torn, Missing}
           /\ backup \in Content => Sound(backup, unsaved)
           /\ unsaved \subseteq Events
<1>1. pc[p] \notin {"off", "init", "read", "migrate"} \cup Restoring
  BY DEF Restoring
<1>2. /\ \A q \in Procs : pc[q] \notin Restoring
      /\ durable # Torn /\ Current \in Content /\ Sound(Current, unsaved)
  BY <1>1, InUse
<1>3. TypeOK /\ Stored /\ Local(p)
  BY DEF IInv
<1> QED
  BY <1>1, <1>2, <1>3 DEF Local, Opened, TypeOK, Stored

\* A step of a working process that leaves the files alone.
LEMMA PlainStep ==
    ASSUME IInv, NEW p \in Procs,
           pc[p] \in {"ready", "record", "export", "exported", "rebuild", "refill", "vacuum"},
           UNCHANGED <<fileVars, unsaved, image>>,
           backup' \in {backup, Current, Missing, Empty, Torn},
           UNCHANGED faultVars \/ Fault, Runs(p),
           pc'[p] \in {"off", "ready", "rebuild", "refill", "vacuum"}
    PROVE  IInv'
<1>1. /\ \A q \in Procs : pc[q] \notin Restoring
      /\ durable # Torn /\ Current \in Content /\ Sound(Current, unsaved)
      /\ Current.meta /\ Migrations \subseteq Current.recorded
      /\ TypeOK /\ backup \in Content \cup {Torn, Missing}
      /\ backup \in Content => Sound(backup, unsaved)
  BY AtWork
<1>2. Empty \in Content /\ Sound(Empty, unsaved)
  BY EmptySeq DEF Empty, Content, Sound, Tables, Explained, Range
<1>3. /\ backup' \in Content \cup {Torn, Missing}
      /\ backup' \in Content => Sound(backup', unsaved)
  BY <1>1, <1>2, FilesAssumption
<1>4. Counters'
  BY <1>1, CountersStay
<1>5. Current' = Current /\ durable' = durable
  BY DEF fileVars, Current
<1>6. Opened(p)' /\ Records(p)' /\ Exports(p)' /\ pc'[p] \notin Restoring
  BY <1>1, <1>5, PlainLocal
<1> QED
  BY <1>1, <1>3, <1>4, <1>6, ReadStep

\* A commit of a working process.
LEMMA WriteStep ==
    ASSUME IInv, NEW p \in Procs,
           pc[p] \in {"ready", "record", "export", "exported", "rebuild", "refill", "vacuum"},
           NEW c \in Content, Sound(c, unsaved), Grows(Current, c), Commit(c),
           UNCHANGED <<unsaved, backup, image, faultVars>>, Runs(p),
           \/ pc'[p] \in {"ready", "rebuild", "refill"}
           \/ pc'[p] = "record" /\ Range(work'[p]) \subseteq c.decisions \cup unsaved
    PROVE  IInv'
<1>1. /\ \A q \in Procs : pc[q] \notin Restoring
      /\ durable # Torn /\ Current.meta /\ Migrations \subseteq Current.recorded
      /\ TypeOK /\ Stored /\ backup \in Content \cup {Torn, Missing}
      /\ backup \in Content => Sound(backup, unsaved)
      /\ unsaved \subseteq Events
  BY AtWork
<1>2. Disk' /\ Current' = c /\ durable' # Torn
  BY <1>1, CommitStep
<1>3. c.meta /\ Migrations \subseteq c.recorded
  BY <1>1 DEF Grows
<1>4. Counters'
  BY <1>1, CountersStay
<1>5. Opened(p)' /\ Records(p)' /\ Exports(p)' /\ pc'[p] \notin Restoring
  BY <1>2, <1>3 DEF Opened, Records, Exports, Restoring
<1> QED
  BY <1>1, <1>2, <1>4, <1>5, GrowStep

\* The document comes first, or is known to be missing.
LEMMA SaveDecisionStep ==
    ASSUME IInv, NEW p \in Procs, SaveDecision(p)
    PROVE  IInv'
<1>0. pc[p] = "ready" /\ Go(p, "record") /\ UNCHANGED <<backup, image, applied, from>>
      /\ "record" \in Points
  BY DEF SaveDecision, Points
<1>1. /\ \A q \in Procs : pc[q] \notin Restoring
      /\ durable # Torn /\ Current \in Content /\ Sound(Current, unsaved)
      /\ Current.meta /\ Migrations \subseteq Current.recorded
      /\ TypeOK /\ Stored /\ backup \in Content \cup {Torn, Missing}
      /\ backup \in Content => Sound(backup, unsaved)
      /\ unsaved \subseteq Events
  BY <1>0, AtWork
<1>2. PICK e \in Events :
         /\ work' = [work EXCEPT ![p] = <<e>>]
         /\ \/ /\ Commit([Current EXCEPT !.decisions = @ \cup {e}])
               /\ UNCHANGED <<unsaved, faultVars>>
            \/ Fault /\ unsaved' = unsaved \cup {e} /\ UNCHANGED fileVars
  BY DEF SaveDecision
<1>3. <<e>> \in Seq(Events) /\ Range(<<e>>) = {e}
  BY DEF Range
<1>4. Runs(p) /\ pc'[p] = "record" /\ Range(work'[p]) = {e}
  BY <1>0, <1>1, <1>2, <1>3, GoRuns DEF TypeOK, Runs
<1>5. CASE Commit([Current EXCEPT !.decisions = @ \cup {e}]) /\ UNCHANGED <<unsaved, faultVars>>
  <2> DEFINE c == [Current EXCEPT !.decisions = @ \cup {e}]
  <2>1. c \in Content /\ Commit(c)
    BY <1>1, <1>5, FieldSet
  <2>2. /\ c.meta = Current.meta /\ c.recorded = Current.recorded /\ c.schema = Current.schema
        /\ c.decisions = Current.decisions \cup {e} /\ c.audit = Current.audit
    BY <1>1 DEF Content
  <2> HIDE DEF c
  <2>3. Sound(c, unsaved) /\ Grows(Current, c)
    BY <1>1, <2>2, GrowsOrder DEF Sound, Tables, Explained, Grows
  <2> QED
    BY <1>0, <1>4, <1>5, <2>1, <2>2, <2>3, WriteStep
<1>6. CASE Fault /\ unsaved' = unsaved \cup {e} /\ UNCHANGED fileVars
  <2>1. Disk' /\ Current' = Current /\ durable' = durable
    BY <1>1, <1>6, DiskStays DEF fileVars
  <2>2. Counters'
    BY <1>1, <1>6, CountersStay
  <2>3. Opened(p)' /\ Records(p)' /\ Exports(p)' /\ pc'[p] \notin Restoring
    BY <1>1, <1>4, <1>6, <2>1 DEF Opened, Records, Exports, Restoring
  <2>4. unsaved \subseteq unsaved' /\ unsaved' \subseteq Events
    BY <1>1, <1>6
  <2>5. /\ backup' \in Content \cup {Torn, Missing}
        /\ backup' \in Content => Sound(backup', unsaved')
    BY <1>0, <1>1, <2>4, SoundStays
  <2>6. Current' \in Content /\ Grows(Current, Current') /\ durable' # Torn
    BY <1>1, <2>1, GrowsOrder
  <2> QED
    BY <1>0, <1>1, <1>4, <2>1, <2>2, <2>3, <2>4, <2>5, <2>6, GrowStep
<1> QED
  BY <1>2, <1>5, <1>6

\* The event follows its document.
LEMMA AppendAuditStep ==
    ASSUME IInv, NEW p \in Procs, AppendAudit(p)
    PROVE  IInv'
<1>0. pc[p] = "record" /\ Go(p, "ready") /\ Idle(p) /\ UNCHANGED <<backup, image, unsaved>>
      /\ "ready" \in Points
  BY DEF AppendAudit, Points
<1>1. /\ durable # Torn /\ Current \in Content /\ Sound(Current, unsaved)
      /\ TypeOK /\ Local(p) /\ work[p] \in Seq(Events)
  BY <1>0, AtWork DEF TypeOK
<1>2. Runs(p) /\ pc'[p] = "ready"
  BY <1>0, <1>1, GoRuns
<1>3. CASE Commit([Current EXCEPT !.audit = @ \o work[p]]) /\ UNCHANGED faultVars
  <2> DEFINE c == [Current EXCEPT !.audit = @ \o work[p]]
  <2>1. c \in Content /\ Commit(c)
    BY <1>1, <1>3, FieldSet
  <2>2. /\ c.meta = Current.meta /\ c.recorded = Current.recorded /\ c.schema = Current.schema
        /\ c.decisions = Current.decisions /\ c.audit = Current.audit \o work[p]
    BY <1>1 DEF Content
  <2> HIDE DEF c
  <2>3. Current.audit \in Seq(Events)
    BY <1>1, ContentFields
  <2>4. Range(c.audit) = Range(Current.audit) \cup Range(work[p]) /\ IsPrefix(Current.audit, c.audit)
    BY <1>1, <2>2, <2>3, RangeConcatenation, PrefixOfConcat
  <2>5. Range(work[p]) \subseteq Current.decisions \cup unsaved
    BY <1>0, <1>1 DEF Local, Records
  <2>6. Sound(c, unsaved) /\ Grows(Current, c)
    BY <1>1, <2>2, <2>4, <2>5 DEF Sound, Tables, Explained, Grows
  <2> QED
    BY <1>0, <1>2, <1>3, <2>1, <2>6, WriteStep
<1>4. CASE Fault /\ UNCHANGED fileVars
  BY <1>0, <1>2, <1>4, PlainStep
<1> QED
  BY <1>3, <1>4 DEF AppendAudit

\* An export reads one page after the other of a log that others append to.
LEMMA ExportStep ==
    ASSUME IInv, NEW p \in Procs, ExportAuditJSON(p) \/ ExportBatch(p) \/ ExportReturns(p)
    PROVE  IInv'
<1>0. /\ pc[p] \in {"ready", "export", "exported"}
      /\ UNCHANGED <<fileVars, backup, image, unsaved, faultVars>>
      /\ "ready" \in Points /\ "export" \in Points /\ "exported" \in Points
  BY DEF ExportAuditJSON, ExportBatch, ExportReturns, Points
<1>1. /\ \A q \in Procs : pc[q] \notin Restoring
      /\ durable # Torn /\ Current \in Content
      /\ Current.meta /\ Migrations \subseteq Current.recorded
      /\ TypeOK /\ Local(p) /\ backup \in Content \cup {Torn, Missing}
      /\ backup \in Content => Sound(backup, unsaved)
  BY <1>0, AtWork
<1>2. Current' = Current /\ durable' = durable
  BY <1>0 DEF fileVars, Current
<1>3. Current.audit \in Seq(Events) /\ work[p] \in Seq(Events) /\ from[p] \in Seq(Events)
  BY <1>1, ContentFields DEF TypeOK
<1>4. CASE ExportReturns(p)
  <2>1. Runs(p) /\ pc'[p] = "ready"
    BY <1>0, <1>1, <1>4, GoRuns DEF ExportReturns
  <2> QED
    BY <1>0, <2>1, PlainStep
<1>5. ASSUME Runs(p), pc'[p] \in {"export", "exported"}, Exports(p)'
      PROVE  IInv'
  <2>1. Opened(p)' /\ Records(p)' /\ pc'[p] \notin Restoring
    BY <1>1, <1>2, <1>5 DEF Opened, Records, Restoring
  <2>2. Counters'
    BY <1>0, <1>1, CountersStay
  <2> QED
    BY <1>0, <1>1, <1>5, <2>1, <2>2, ReadStep
<1>6. CASE ExportAuditJSON(p)
  <2>1. /\ pc[p] = "ready" /\ from' = [from EXCEPT ![p] = Current.audit] /\ Go(p, "export")
        /\ work' = [work EXCEPT ![p] = <<>>] /\ UNCHANGED applied /\ <<>> \in Seq(Events)
    BY <1>6, EmptySeq DEF ExportAuditJSON
  <2>2. Runs(p) /\ pc'[p] = "export" /\ from'[p] = Current.audit /\ work'[p] = <<>>
    BY <1>0, <1>1, <1>3, <2>1, GoRuns DEF TypeOK, Runs
  <2>3. Exports(p)'
    BY <1>2, <1>3, <2>2, PrefixOrder, PrefixOfNothing DEF Exports
  <2> QED
    BY <1>5, <2>2, <2>3
<1>7. CASE ExportBatch(p)
  <2> DEFINE l == ListAuditEvents(Batch, Len(work[p]))
  <2>1. /\ pc[p] = "export" /\ work' = [work EXCEPT ![p] = work[p] \o l]
        /\ Go(p, IF Len(l) < Batch THEN "exported" ELSE "export") /\ UNCHANGED <<applied, from>>
    BY <1>7 DEF ExportBatch
  <2>2. IsPrefix(from[p], Current.audit) /\ IsPrefix(work[p], Current.audit)
    BY <1>1, <2>1 DEF Local, Exports
  <2>3. /\ l \in Seq(Events) /\ work[p] \o l \in Seq(Events)
        /\ IsPrefix(work[p] \o l, Current.audit)
        /\ Len(l) < Batch => Len(work[p] \o l) = Len(Current.audit)
    BY <1>3, <2>2, PageExtends, BatchAssumption
  <2>4. Len(from[p]) <= Len(Current.audit)
    BY <1>3, <2>2, PrefixPoints
  <2> DEFINE point == IF Len(l) < Batch THEN "exported" ELSE "export"
  <2>5. point \in {"export", "exported"} /\ (point = "exported" => Len(l) < Batch) /\ Go(p, point)
    BY <2>1
  <2> HIDE DEF point, l
  <2>6. Runs(p) /\ pc'[p] = point /\ from'[p] = from[p] /\ work'[p] = work[p] \o l
    BY <1>0, <1>1, <2>1, <2>3, <2>5, GoRuns DEF TypeOK, Runs
  <2>7. Exports(p)'
    BY <1>2, <2>2, <2>3, <2>4, <2>5, <2>6 DEF Exports
  <2> QED
    BY <1>5, <2>5, <2>6, <2>7
<1> QED
  BY <1>4, <1>6, <1>7

\* The cache says nothing about the rest.
LEMMA CacheStep ==
    ASSUME IInv, NEW p \in Procs,
           ClearEvidenceCache(p) \/ RebuildList(p) \/ RebuildSave(p) \/ RebuildReturns(p)
    PROVE  IInv'
<1>0. /\ pc[p] \in {"ready", "rebuild", "refill"} /\ UNCHANGED <<backup, image, unsaved>>
      /\ "ready" \in Points /\ "rebuild" \in Points /\ "refill" \in Points
  BY DEF ClearEvidenceCache, RebuildList, RebuildSave, RebuildReturns, Points
<1>1. /\ Current \in Content /\ Sound(Current, unsaved) /\ TypeOK
      /\ work[p] \in Seq(Events) /\ Current.audit \in Seq(Events)
  BY <1>0, AtWork, ContentFields DEF TypeOK
<1>2. ASSUME NEW s \in SUBSET Packages, Commit([Current EXCEPT !.cache = s]), UNCHANGED faultVars,
             Runs(p), pc'[p] \in {"ready", "rebuild", "refill"}
      PROVE  IInv'
  <2> DEFINE c == [Current EXCEPT !.cache = s]
  <2>1. c \in Content /\ Commit(c)
    BY <1>1, <1>2, FieldSet
  <2>2. /\ c.meta = Current.meta /\ c.recorded = Current.recorded /\ c.schema = Current.schema
        /\ c.decisions = Current.decisions /\ c.audit = Current.audit
    BY <1>1 DEF Content
  <2> HIDE DEF c
  <2>3. Sound(c, unsaved) /\ Grows(Current, c)
    BY <1>1, <2>2, GrowsOrder DEF Sound, Tables, Explained, Grows
  <2> QED
    BY <1>0, <1>2, <2>1, <2>3, WriteStep
<1>3. CASE ClearEvidenceCache(p)
  <2>1. PICK point \in {"ready", "rebuild"} : Go(p, point)
    BY <1>3 DEF ClearEvidenceCache, Go
  <2>2. Runs(p) /\ pc'[p] = point
    BY <1>0, <1>1, <1>3, <2>1, GoRuns DEF ClearEvidenceCache
  <2> QED
    BY <1>2, <1>3, <2>2 DEF ClearEvidenceCache
<1>4. CASE RebuildList(p)
  <2>1. Go(p, "refill") /\ UNCHANGED <<fileVars, applied, from>>
    BY <1>4 DEF RebuildList
  <2>2. <<>> \in Seq(Events) /\ Len(<<>>) = 0
    BY EmptySeq
  <2>3. IsPrefix(<<>>, Current.audit)
    BY <1>1, PrefixOfNothing
  <2>4. ListAuditEvents(Window, 0) \in Seq(Events)
    BY <1>1, <2>2, <2>3, PageExtends, BatchAssumption
  <2>5. work' = [work EXCEPT ![p] = ListAuditEvents(Window, 0)] \/ UNCHANGED work
    BY <1>4 DEF RebuildList
  <2>6. Runs(p) /\ pc'[p] = "refill"
    BY <1>0, <1>1, <2>1, <2>4, <2>5, GoRuns DEF TypeOK, Runs
  <2> QED
    BY <1>0, <1>4, <2>1, <2>6, PlainStep DEF RebuildList
<1>5. CASE RebuildSave(p)
  <2>1. /\ pc[p] = "refill" /\ work[p] # <<>> /\ work' = [work EXCEPT ![p] = Tail(work[p])]
        /\ UNCHANGED <<pc, applied, from>>
    BY <1>5 DEF RebuildSave
  <2>2. Tail(work[p]) \in Seq(Events) /\ Head(work[p]) \in Events
    BY <1>1, <2>1, HeadTailProperties
  <2>3. Runs(p) /\ pc'[p] = "refill"
    BY <1>1, <2>1, <2>2 DEF TypeOK, Runs
  <2>4. Current.cache \cup {Head(work[p]).pkg} \in SUBSET Packages
    BY <1>1, <2>2, ContentFields DEF Events
  <2>5. CASE Commit([Current EXCEPT !.cache = Current.cache \cup {Head(work[p]).pkg}])
             /\ UNCHANGED faultVars
    BY <1>2, <2>3, <2>4, <2>5
  <2>6. CASE UNCHANGED fileVars /\ (UNCHANGED faultVars \/ Fault)
    BY <1>0, <2>3, <2>6, PlainStep
  <2> QED
    BY <1>5, <2>5, <2>6 DEF RebuildSave
<1>6. CASE RebuildReturns(p)
  <2>1. Runs(p) /\ pc'[p] = "ready" /\ UNCHANGED <<fileVars, faultVars>>
    BY <1>0, <1>1, <1>6, GoRuns DEF RebuildReturns
  <2> QED
    BY <1>0, <2>1, PlainStep
<1> QED
  BY <1>3, <1>4, <1>5, <1>6

\* A backup is a copy of what a reader sees.
LEMMA BackupStep ==
    ASSUME IInv, NEW p \in Procs, Backup(p) \/ VacuumInto(p)
    PROVE  IInv'
<1>1. /\ pc[p] \in {"ready", "vacuum"} /\ UNCHANGED <<fileVars, image, localVars, unsaved, faultVars>>
      /\ "ready" \in Points /\ "vacuum" \in Points
      /\ Go(p, "ready") \/ Go(p, "vacuum")
      /\ backup' \in {backup, Current, Missing, Empty, Torn}
  BY DEF Backup, VacuumInto, Points
<1>2. TypeOK
  BY DEF IInv
<1>3. Runs(p) /\ pc'[p] \in {"ready", "vacuum"}
  BY <1>1, <1>2, GoRuns
<1> QED
  BY <1>1, <1>3, PlainStep

-----------------------------------------------------------------------------
(* Restores and failures: nobody else uses the database.                   *)

\* Every process has ended.
LEMMA QuietStep ==
    ASSUME IInv, Disk', unsaved \subseteq unsaved', unsaved' \subseteq Events,
           backup' \in Content \cup {Torn, Missing}, image' \in Content \cup {Torn, Missing},
           backup' \in Content => Sound(backup', unsaved'),
           image' \in Content => Sound(image', unsaved'),
           Counters', NEW p \in Procs, Runs(p), \A q \in Procs \ {p} : pc'[q] = "off",
           Restores(p)', pc'[p] \in {"off"} \cup Restoring
    PROVE  IInv'
<1>1. TypeOK'
  BY DEF IInv, TypeOK, Disk, Counters, Runs
<1>2. Stored'
  BY DEF Stored, Disk
<1>3. Alone'
  BY DEF Alone, Restoring
<1>4. Local(p)'
  BY DEF Local, Opened, Records, Exports, Restoring
<1>5. ASSUME NEW q \in Procs \ {p} PROVE Local(q)'
  BY <1>5 DEF Local, Restores, Opened, Records, Exports, Restoring
<1> QED
  BY <1>1, <1>2, <1>3, <1>4, <1>5 DEF IInv

\* A restore replaces the database by one that was sound, or leaves it torn.
LEMMA RestoreStep ==
    ASSUME IInv, NEW p \in Procs, runRestore(p)
    PROVE  IInv'
<1>0. /\ TypeOK /\ Stored /\ Local(p) /\ UNCHANGED <<backup, localVars, unsaved, faults, outages>>
      /\ "off" \in Points /\ Restoring \subseteq Points
      /\ backup' \in Content \cup {Torn, Missing}
      /\ backup' \in Content => Sound(backup', unsaved')
      /\ unsaved \subseteq unsaved' /\ unsaved' \subseteq Events
  BY DEF IInv, TypeOK, Stored, runRestore, RestoreRead, RestoreRemoveWal, RestoreTruncate,
         RestoreWrite, Points, Restoring, faultVars
<1>1. /\ \A q \in Procs \ {p} : pc[q] = "off"
      /\ pc[p] \in {"off"} \cup Restoring
  BY DEF IInv, Alone, runRestore, RestoreRead, RestoreRemoveWal, RestoreTruncate, RestoreWrite,
         Restoring
<1>2. ASSUME NEW point \in {"off"} \cup Restoring, Go(p, point)
      PROVE  /\ Runs(p) /\ pc'[p] = point /\ \A q \in Procs \ {p} : pc'[q] = "off"
  BY <1>0, <1>1, <1>2, GoRuns
<1>3. Empty \in Content /\ Sound(Empty, unsaved) /\ <<>> \in Seq(Content) /\ Len(<<>>) = 0
  BY EmptySeq DEF Empty, Content, Sound, Tables, Explained, Range
<1>4. CASE RestoreRead(p)
  <2>1. Go(p, "unlink") /\ UNCHANGED fileVars /\ backup # Missing /\ image' = backup
    BY <1>4 DEF RestoreRead
  <2>2. Counters'
    BY <1>0, <1>4, BoundsAssumption DEF RestoreRead, TypeOK, Counters
  <2>3. Disk'
    BY <1>0, <2>1, DiskStays
  <2>4. Runs(p) /\ pc'[p] = "unlink" /\ \A q \in Procs \ {p} : pc'[q] = "off"
    BY <1>2, <2>1 DEF Restoring
  <2>5. Restores(p)' /\ pc'[p] \in {"off"} \cup Restoring
    BY <2>1, <2>4 DEF Restores, Restoring
  <2> QED
    BY <1>0, <2>1, <2>2, <2>3, <2>4, <2>5, QuietStep
<1>5. CASE RestoreRemoveWal(p)
  <2>1. /\ pc[p] = "unlink" /\ Go(p, "overwrite") /\ commits' = <<>> /\ UNCHANGED <<durable, synced>>
        /\ UNCHANGED <<image, faultVars>>
    BY <1>5 DEF RestoreRemoveWal
  <2>2. Counters'
    BY <1>0, <2>1, CountersStay
  <2>3. Disk'
    BY <1>0, <1>3, <2>1, BatchAssumption DEF Disk, TypeOK, Stored
  <2>4. Runs(p) /\ pc'[p] = "overwrite" /\ \A q \in Procs \ {p} : pc'[q] = "off"
    BY <1>2, <2>1 DEF Restoring
  <2>5. Restores(p)' /\ pc'[p] \in {"off"} \cup Restoring
    BY <1>0, <2>1, <2>4 DEF Local, Restores, Restoring
  <2>6. image' \in Content \cup {Torn, Missing} /\ (image' \in Content => Sound(image', unsaved'))
    BY <1>0, <2>1 DEF TypeOK, Stored
  <2> QED
    BY <1>0, <2>2, <2>3, <2>4, <2>5, <2>6, QuietStep
<1>6. CASE RestoreTruncate(p)
  <2>1. /\ pc[p] = "overwrite" /\ Go(p, "writing") /\ durable' \in {Empty, Torn} /\ synced' = FALSE
        /\ UNCHANGED <<commits, image, faultVars>>
    BY <1>6 DEF RestoreTruncate
  <2>2. Counters'
    BY <1>0, <2>1, CountersStay
  <2>3. commits = <<>> /\ image # Missing
    BY <1>0, <2>1 DEF Local, Restores, Restoring
  <2>4. Disk'
    <3>1. durable' \in Content \cup {Torn} /\ (durable' \in Content => Sound(durable', unsaved'))
      BY <1>0, <1>3, <2>1, FilesAssumption
    <3>2. synced' \in BOOLEAN
      BY <2>1, Zenon
    <3>3. commits' = <<>> /\ commits' \in Seq(Content) /\ Len(commits') = 0 /\ 0 <= MaxWal
      BY <1>3, <2>1, <2>3, BatchAssumption
    <3> QED
      BY <3>1, <3>2, <3>3 DEF Disk
  <2>5. Runs(p) /\ pc'[p] = "writing" /\ \A q \in Procs \ {p} : pc'[q] = "off"
    BY <1>2, <2>1 DEF Restoring
  <2>6. Restores(p)' /\ pc'[p] \in {"off"} \cup Restoring
    BY <2>1, <2>3, <2>5 DEF Restores, Restoring
  <2>7. image' \in Content \cup {Torn, Missing} /\ (image' \in Content => Sound(image', unsaved'))
    BY <1>0, <2>1 DEF TypeOK, Stored
  <2> QED
    BY <1>0, <2>2, <2>4, <2>5, <2>6, <2>7, QuietStep
<1>7. CASE RestoreWrite(p)
  <2>1. /\ pc[p] = "writing" /\ Go(p, "off") /\ durable' = image /\ image' = Missing
        /\ UNCHANGED <<commits, synced, faultVars>>
    BY <1>7 DEF RestoreWrite
  <2>2. Counters'
    BY <1>0, <2>1, CountersStay
  <2>3. commits = <<>> /\ image # Missing
    BY <1>0, <2>1 DEF Local, Restores, Restoring
  <2>4. Disk'
    BY <1>0, <1>3, <2>1, <2>3, BatchAssumption DEF Disk, TypeOK, Stored
  <2>5. Runs(p) /\ pc'[p] = "off" /\ \A q \in Procs \ {p} : pc'[q] = "off"
    BY <1>2, <2>1
  <2>6. Restores(p)'
    BY <2>5 DEF Restores, Restoring
  <2> QED
    BY <1>0, <2>1, <2>2, <2>4, <2>5, <2>6, FilesAssumption, QuietStep
<1> QED
  BY <1>4, <1>5, <1>6, <1>7 DEF runRestore

\* A process that is killed leaves the database as the last commit left it.
LEMMA KillStep ==
    ASSUME IInv, NEW p \in Procs, Kill(p)
    PROVE  IInv'
<1>0. /\ TypeOK /\ Stored /\ UNCHANGED <<fileVars, unsaved>> /\ Fault /\ Go(p, "off") /\ Idle(p)
      /\ "off" \in Points /\ unsaved \subseteq Events /\ pc[p] # "off"
  BY DEF IInv, TypeOK, Kill, Points
<1>1. Runs(p) /\ pc'[p] = "off" /\ \A q \in Procs \ {p} : pc'[q] = pc[q]
  BY <1>0, GoRuns
<1>2. Counters'
  BY <1>0, CountersStay
<1>3. /\ backup' \in Content \cup {Torn, Missing}
      /\ backup' \in Content => Sound(backup', unsaved)
  <2>1. Empty \in Content /\ Sound(Empty, unsaved)
    BY EmptySeq DEF Empty, Content, Sound, Tables, Explained, Range
  <2>2. backup' \in {backup, Missing, Empty, Torn}
    BY DEF Kill
  <2> QED
    BY <1>0, <2>1, <2>2, FilesAssumption DEF TypeOK, Stored
<1>4. CASE pc[p] \in Restoring
  <2>1. \A q \in Procs \ {p} : pc'[q] = "off"
    BY <1>1, <1>4 DEF IInv, Alone
  <2>2. image' = Missing
    BY <1>4 DEF Kill
  <2>3. Disk'
    BY <1>0, DiskStays
  <2>4. Restores(p)'
    BY <1>1 DEF Restores, Restoring
  <2> QED
    BY <1>0, <1>1, <1>2, <1>3, <2>1, <2>2, <2>3, <2>4, FilesAssumption, QuietStep
<1>5. CASE pc[p] \notin Restoring
  <2>1. (\A q \in Procs : pc[q] \notin Restoring) /\ durable # Torn
    BY <1>0, <1>5, InUse
  <2>2. UNCHANGED image
    BY <1>5 DEF Kill
  <2> QED
    BY <1>0, <1>1, <1>2, <1>3, <2>1, <2>2, PlainLocal, ReadStep
<1> QED
  BY <1>4, <1>5

\* After a power failure the database is some earlier state of itself, or an
\* empty or a torn file if it was being restored.
LEMMA PowerStep ==
    ASSUME IInv, PowerLoss
    PROVE  IInv'
<1>0. TypeOK /\ Stored /\ UNCHANGED <<unsaved, faults, restores>> /\ image' = Missing /\ synced' = TRUE
  BY DEF IInv, PowerLoss
<1>1. \A q \in Procs : pc'[q] = "off"
  BY DEF PowerLoss
<1>2. /\ pc' \in [Procs -> Points] /\ applied' \in [Procs -> SUBSET Migrations]
      /\ work' \in [Procs -> Seq(Events)] /\ from' \in [Procs -> Seq(Events)]
  BY EmptySeq DEF PowerLoss, Points
<1>3. Counters'
  BY <1>0, BoundsAssumption DEF PowerLoss, TypeOK, Counters
<1>4. Empty \in Content /\ Sound(Empty, unsaved) /\ <<>> \in Seq(Content) /\ Len(<<>>) = 0
  BY EmptySeq DEF Empty, Content, Sound, Tables, Explained, Range
<1>5. /\ backup' \in Content \cup {Torn, Missing}
      /\ backup' \in Content => Sound(backup', unsaved)
  <2>1. backup' \in {backup, Missing, Empty, Torn}
    BY DEF PowerLoss
  <2> QED
    BY <1>0, <1>4, <2>1, FilesAssumption DEF TypeOK, Stored
<1>6. /\ durable' \in Content \cup {Torn} /\ (durable' = Torn => commits' = <<>>)
      /\ commits' \in Seq(Content) /\ Len(commits') <= MaxWal
      /\ durable' \in Content => Sound(durable', unsaved)
      /\ \A i \in 1 .. Len(commits') : Sound(commits'[i], unsaved)
  <2>1. CASE durable' = durable /\ commits' \in Survivors
    <3>0. commits \in Seq(Content) /\ Len(commits) \in Nat /\ Len(commits) <= MaxWal
      BY <1>0, LenProperties DEF TypeOK
    <3>1. PICK n \in 0 .. Len(commits) : commits' = SubSeq(commits, 1, n)
      BY <2>1 DEF Survivors
    <3>2. \A i \in 1 .. n : commits[i] \in Content
      BY <3>0, ElementOfSeq
    <3>3. /\ commits' \in Seq(Content) /\ Len(commits') = n
          /\ \A i \in 1 .. n : commits'[i] = commits[i]
      BY <3>0, <3>1, <3>2, SubSeqProperties
    <3>4. Len(commits') <= MaxWal
      BY <3>0, <3>3, BatchAssumption
    <3>5. \A i \in 1 .. Len(commits') : Sound(commits'[i], unsaved)
      BY <1>0, <3>0, <3>3 DEF Stored
    <3>6. durable = Torn => commits' = <<>>
      BY <1>0, <3>0, <3>3, EmptySeq DEF TypeOK
    <3> QED
      BY <1>0, <2>1, <3>3, <3>4, <3>5, <3>6 DEF TypeOK, Stored
  <2>2. CASE durable' \in {Empty, Torn} /\ commits' = <<>>
    <3>1. durable' \in Content \cup {Torn} /\ (durable' \in Content => Sound(durable', unsaved))
      BY <1>4, <2>2, FilesAssumption
    <3>2. commits' \in Seq(Content) /\ Len(commits') = 0 /\ 0 <= MaxWal
      BY <1>4, <2>2, BatchAssumption
    <3> QED
      BY <2>2, <3>1, <3>2
  <2> QED
    BY <2>1, <2>2 DEF PowerLoss
<1>7. TypeOK'
  BY <1>0, <1>2, <1>3, <1>5, <1>6 DEF TypeOK, Counters
<1>8. Stored'
  BY <1>0, <1>5, <1>6, FilesAssumption DEF Stored
<1>9. Alone' /\ \A q \in Procs : Local(q)'
  BY <1>1 DEF Alone, Local, Restores, Opened, Records, Exports, Restoring
<1> QED
  BY <1>7, <1>8, <1>9 DEF IInv

-----------------------------------------------------------------------------
(* The theorems.                                                           *)

\* The initial states satisfy it.
LEMMA InitInvariant == Init => IInv
<1> SUFFICES ASSUME Init PROVE IInv
  OBVIOUS
<1>0. <<>> \in Seq(Content) /\ <<>> \in Seq(Events) /\ Len(<<>>) = 0 /\ Range(<<>>) = {}
  BY EmptySeq DEF Range
<1>1. Empty \in Content /\ Sound(Empty, {})
  BY <1>0 DEF Empty, Content, Sound, Tables, Explained
<1> DEFINE old == [Empty EXCEPT !.meta = TRUE, !.recorded = {1}, !.schema = {1}]
<1>2. old \in Content /\ Sound(old, {})
  <2>1. 1 \in Migrations /\ 1 .. 1 = {1}
    BY MigrationsAssumption DEF Migrations
  <2>2. old \in Content
    BY <1>1, <2>1 DEF Content
  <2>3. /\ old.meta /\ old.recorded = {1} /\ old.schema = {1} /\ old.decisions = {}
        /\ old.audit = <<>>
    BY <1>1 DEF Content, Empty
  <2> QED
    BY <1>0, <2>1, <2>2, <2>3 DEF Sound, Tables, Explained
<1> HIDE DEF old
<1>3. backup \in {Missing, old}
  BY DEF Init, old
<1>4. TypeOK
  BY <1>0, <1>1, <1>2, <1>3, BatchAssumption, BoundsAssumption DEF Init, TypeOK, Points
<1>5. Stored
  BY <1>0, <1>1, <1>2, <1>3, FilesAssumption DEF Init, Stored
<1>6. Alone /\ \A p \in Procs : Local(p)
  BY DEF Init, Alone, Local, Restores, Opened, Records, Exports, Restoring
<1> QED
  BY <1>4, <1>5, <1>6 DEF IInv

\* Every step preserves it.
LEMMA StepInvariant == IInv /\ [Next]_vars => IInv'
<1> SUFFICES ASSUME IInv, [Next]_vars PROVE IInv'
  OBVIOUS
<1>1. ASSUME NEW p \in Procs, getStore(p) \/ Close(p) \/ Kill(p) PROVE IInv'
  BY <1>1, OpenStep, MigrateStep, DoneStep, KillStep DEF getStore
<1>2. ASSUME NEW p \in Servers, Decide(p) PROVE IInv'
  BY <1>2, SaveDecisionStep, AppendAuditStep DEF Decide, Procs
<1>3. ASSUME NEW p \in Tools, Command(p) \/ runRestore(p) PROVE IInv'
  BY <1>3, ExportStep, CacheStep, BackupStep, RestoreStep DEF Command, Procs
<1>4. CASE UNCHANGED vars
  <2>1. Current' = Current
    BY <1>4 DEF vars, fileVars, Current
  <2>2. TypeOK' /\ Stored' /\ Alone'
    BY <1>4 DEF IInv, TypeOK, Stored, Alone, vars, fileVars, localVars, faultVars
  <2>3. ASSUME NEW p \in Procs PROVE Local(p)'
    BY <1>4, <2>1 DEF IInv, Local, Restores, Opened, Records, Exports, vars, fileVars, localVars
  <2> QED
    BY <2>2, <2>3 DEF IInv
<1> QED
  BY <1>1, <1>2, <1>3, <1>4, PowerStep DEF Next

\* The invariant, and with it the types of all variables.
THEOREM Invariant == Spec => []IInv
<1> QED
  BY InitInvariant, StepInvariant, PTL DEF Spec

\* migrations.go.  Tables and rows of the migrations agree in every copy of the
\* database, however many processes migrate at once and wherever they, the
\* power, a backup or a restore fails.
THEOREM SchemaIsRecorded == Spec => []SchemaRecorded
<1>1. IInv => SchemaRecorded
  <2> SUFFICES ASSUME IInv, NEW c \in Files PROVE Tables(c)
    BY DEF SchemaRecorded, Tables
  <2>1. CASE c \in {durable, backup}
    BY <2>1 DEF Files, IInv, Stored, Sound
  <2>2. CASE c \in Range(commits)
    <3>1. PICK i \in 1 .. Len(commits) : c = commits[i]
      BY <2>2, LenProperties DEF IInv, TypeOK, Range
    <3> QED
      BY <3>1 DEF IInv, Stored, Sound
  <2> QED
    BY <2>1, <2>2 DEF Files
<1> QED
  BY <1>1, Invariant, PTL

\* OpenSQLite and ApplyMigrations.  No statement of a process past getStore
\* meets a missing table, also after an older backup was restored.
THEOREM SchemaIsThere == Spec => []SchemaBeforeUse
<1>1. IInv => SchemaBeforeUse
  <2> SUFFICES ASSUME IInv, NEW p \in Procs, Working(p) PROVE Current.schema = Migrations
    BY DEF SchemaBeforeUse
  <2>1. pc[p] \notin {"off", "init", "read", "migrate"} \cup Restoring
    BY DEF Working
  <2>2. Current \in Content /\ Tables(Current)
    BY <2>1, InUse DEF Sound
  <2>3. Migrations \subseteq Current.recorded
    BY <2>1 DEF IInv, Local, Opened
  <2> QED
    BY <2>2, <2>3, ContentFields DEF Tables
<1> QED
  BY <1>1, Invariant, PTL

\* ExportAuditJSON.  Pages read while others append make one gapless log, with
\* every event that was there at the start, for every batch size.
THEOREM ExportsAreComplete == Spec => []ExportComplete
<1>1. IInv => ExportComplete
  <2> SUFFICES ASSUME IInv, NEW p \in Procs, pc[p] = "exported"
               PROVE  IsPrefix(from[p], work[p]) /\ IsPrefix(work[p], Current.audit)
    BY DEF ExportComplete
  <2>1. /\ IsPrefix(from[p], Current.audit) /\ IsPrefix(work[p], Current.audit)
        /\ Len(from[p]) <= Len(work[p])
    BY DEF IInv, Local, Exports
  <2>2. Current.audit \in Seq(Events) /\ from[p] \in Seq(Events) /\ work[p] \in Seq(Events)
    BY InUse, ContentFields DEF IInv, TypeOK, Restoring
  <2> QED
    BY <2>1, <2>2, PrefixesNest
<1> QED
  BY <1>1, Invariant, PTL

\* SaveDecision before AppendAudit.  In every copy of the database an audit
\* event has its decision document, unless saving that had failed.
THEOREM AuditIsExplained == Spec => []AuditExplained
<1>1. IInv => AuditExplained
  <2> SUFFICES ASSUME IInv, NEW c \in Files PROVE Explained(c, unsaved)
    BY DEF AuditExplained, Explained
  <2>1. CASE c \in {durable, backup}
    BY <2>1 DEF Files, IInv, Stored, Sound
  <2>2. CASE c \in Range(commits)
    <3>1. PICK i \in 1 .. Len(commits) : c = commits[i]
      BY <2>2, LenProperties DEF IInv, TypeOK, Range
    <3> QED
      BY <3>1 DEF IInv, Stored, Sound
  <2> QED
    BY <2>1, <2>2 DEF Files
<1> QED
  BY <1>1, Invariant, PTL

-----------------------------------------------------------------------------
(* The audit log only grows.                                               *)

\* What a reader sees after a commit.
LEMMA CommitSeen ==
    ASSUME TypeOK, NEW c \in Content, Commit(c)
    PROVE  Current' = c
<1>1. CASE c = Current
  BY <1>1 DEF Commit, fileVars, Current
<1>2. CASE c # Current /\ Len(commits) < MaxWal
  <2>1. /\ commits' # <<>> /\ Len(commits') = Len(commits) + 1 /\ commits'[Len(commits) + 1] = c
    BY <1>2, AppendProperties DEF Commit, TypeOK
  <2> QED
    BY <2>1 DEF Current, Last
<1>3. CASE c # Current /\ ~(Len(commits) < MaxWal)
  <2>1. commits' = <<c>>
    BY <1>3 DEF Commit
  <2>2. commits' # <<>> /\ Len(commits') = 1 /\ commits'[1] = c
    BY <2>1
  <2> QED
    BY <2>2 DEF Current, Last
<1> QED
  BY <1>1, <1>2, <1>3

\* One step.
AuditGrows == \/ durable # Torn /\ IsPrefix(Current.audit, Current'.audit)
              \/ durable = Torn /\ UNCHANGED fileVars

\* A step that leaves the files alone.
LEMMA AuditStays ==
    ASSUME IInv, UNCHANGED fileVars
    PROVE  AuditGrows
<1>1. Current' = Current
  BY DEF fileVars, Current
<1>2. CASE durable # Torn
  <2>1. Current.audit \in Seq(Events)
    BY <1>2, CurrentContent, ContentFields DEF IInv
  <2> QED
    BY <1>1, <1>2, <2>1, PrefixOrder DEF AuditGrows
<1> QED
  BY <1>2 DEF AuditGrows

\* A commit that leaves the log alone, or appends to it.
LEMMA AuditCommitted ==
    ASSUME IInv, NEW p \in Procs, pc[p] \notin {"off"} \cup Restoring,
           NEW c \in Content, Commit(c), NEW w \in Seq(Events), c.audit \in {Current.audit, Current.audit \o w}
    PROVE  AuditGrows
<1>1. durable # Torn /\ Current.audit \in Seq(Events) /\ Current' = c
  BY InUse, ContentFields, CommitSeen DEF IInv
<1>2. IsPrefix(Current.audit, c.audit)
  BY <1>1, PrefixOrder, PrefixOfConcat
<1> QED
  BY <1>1, <1>2 DEF AuditGrows

\* getStore and Close.
LEMMA AuditOpened ==
    ASSUME IInv, NEW p \in Procs, getStore(p) \/ Close(p) \/ Kill(p)
    PROVE  AuditGrows
<1>0. <<>> \in Seq(Events)
  BY EmptySeq
<1>1. CASE OpenSQLite(p) \/ getAppliedVersions(p) \/ ApplyMigrations(p) \/ Kill(p)
  BY <1>1, AuditStays DEF OpenSQLite, getAppliedVersions, ApplyMigrations, Kill
<1>2. CASE initMigrationTable(p)
  <2>1. pc[p] \notin {"off"} \cup Restoring /\ Current \in Content
    BY <1>2, InUse DEF initMigrationTable, Restoring
  <2>2. CASE UNCHANGED fileVars
    BY <2>2, AuditStays
  <2>3. CASE Commit([Current EXCEPT !.meta = TRUE])
    <3> DEFINE c == [Current EXCEPT !.meta = TRUE]
    <3>1. c \in Content /\ c.audit = Current.audit /\ Commit(c)
      BY <2>1, <2>3, FieldSet DEF Content
    <3> HIDE DEF c
    <3> QED
      BY <1>0, <2>1, <3>1, AuditCommitted
  <2> QED
    BY <1>2, <2>2, <2>3 DEF initMigrationTable
<1>3. CASE applyMigration(p)
  <2>1. pc[p] \notin {"off"} \cup Restoring /\ Current \in Content
    BY <1>3, InUse DEF applyMigration, Restoring
  <2>2. CASE UNCHANGED fileVars
    BY <2>2, AuditStays
  <2>3. ASSUME NEW m \in Migrations, Commit(Migrated(Current, m)) PROVE AuditGrows
    <3> DEFINE c == Migrated(Current, m)
    <3>1. c \in Content /\ c.audit = Current.audit /\ Commit(c)
      BY <2>1, <2>3, FieldSet DEF Content, Migrated
    <3> HIDE DEF c
    <3> QED
      BY <1>0, <2>1, <3>1, AuditCommitted
  <2>4. UNCHANGED fileVars \/ \E m \in Migrations : Commit(Migrated(Current, m))
    BY <1>3 DEF applyMigration
  <2> QED
    BY <2>2, <2>3, <2>4
<1>4. CASE Close(p)
  <2>1. CASE UNCHANGED fileVars
    BY <2>1, AuditStays
  <2>2. CASE durable' = Current /\ commits' = <<>>
    <3>1. Current' = Current
      BY <2>2 DEF Current
    <3>2. durable # Torn /\ Current.audit \in Seq(Events)
      BY <1>4, InUse, ContentFields DEF Close, Restoring
    <3> QED
      BY <3>1, <3>2, PrefixOrder DEF AuditGrows
  <2> QED
    BY <1>4, <2>1, <2>2 DEF Close
<1> QED
  BY <1>1, <1>2, <1>3, <1>4 DEF getStore

\* Decisions and commands.
LEMMA AuditUsed ==
    ASSUME IInv, NEW p \in Procs, Decide(p) \/ Command(p)
    PROVE  AuditGrows
<1>0. <<>> \in Seq(Events) /\ TypeOK /\ work[p] \in Seq(Events)
  BY EmptySeq DEF IInv, TypeOK
<1>1. CASE UNCHANGED fileVars
  BY <1>1, AuditStays
<1>2. pc[p] \notin {"off"} \cup Restoring /\ Current \in Content
  <2>1. pc[p] \notin {"off"} \cup Restoring
    BY DEF Decide, SaveDecision, AppendAudit, Command, ExportAuditJSON, ExportBatch, ExportReturns,
           ClearEvidenceCache, RebuildList, RebuildSave, RebuildReturns, Backup, VacuumInto, Restoring
  <2> QED
    BY <2>1, InUse
<1>3. ASSUME NEW e \in Events, Commit([Current EXCEPT !.decisions = @ \cup {e}]) PROVE AuditGrows
  <2> DEFINE c == [Current EXCEPT !.decisions = @ \cup {e}]
  <2>1. c \in Content /\ c.audit = Current.audit /\ Commit(c)
    BY <1>2, <1>3, FieldSet DEF Content
  <2> HIDE DEF c
  <2> QED
    BY <1>0, <1>2, <2>1, AuditCommitted
<1>4. CASE Commit([Current EXCEPT !.audit = @ \o work[p]])
  <2> DEFINE c == [Current EXCEPT !.audit = @ \o work[p]]
  <2>1. c \in Content /\ c.audit = Current.audit \o work[p] /\ Commit(c)
    BY <1>0, <1>2, <1>4, FieldSet DEF Content
  <2> HIDE DEF c
  <2> QED
    BY <1>0, <1>2, <2>1, AuditCommitted
<1>5. ASSUME NEW s \in SUBSET Packages, Commit([Current EXCEPT !.cache = s]) PROVE AuditGrows
  <2> DEFINE c == [Current EXCEPT !.cache = s]
  <2>1. c \in Content /\ c.audit = Current.audit /\ Commit(c)
    BY <1>2, <1>5, FieldSet DEF Content
  <2> HIDE DEF c
  <2> QED
    BY <1>0, <1>2, <2>1, AuditCommitted
<1>6. CASE Decide(p)
  BY <1>1, <1>3, <1>4, <1>6 DEF Decide, SaveDecision, AppendAudit
<1>7. CASE ClearEvidenceCache(p)
  BY <1>5, <1>7 DEF ClearEvidenceCache
<1>8. CASE RebuildSave(p)
  <2>1. work[p] # <<>>
    BY <1>8 DEF RebuildSave
  <2>2. Current.cache \cup {Head(work[p]).pkg} \in SUBSET Packages
    <3>1. Head(work[p]) \in Events
      BY <1>0, <2>1, HeadTailProperties
    <3>2. Head(work[p]).pkg \in Packages
      BY <3>1 DEF Events
    <3>3. Current.cache \subseteq Packages
      BY <1>2, ContentFields
    <3> QED
      BY <3>2, <3>3
  <2>3. \/ UNCHANGED fileVars
        \/ Commit([Current EXCEPT !.cache = Current.cache \cup {Head(work[p]).pkg}])
    BY <1>8 DEF RebuildSave
  <2> QED
    BY <1>1, <1>5, <2>2, <2>3
<1>9. CASE \/ ExportAuditJSON(p) \/ ExportBatch(p) \/ ExportReturns(p)
           \/ RebuildList(p) \/ RebuildReturns(p) \/ Backup(p) \/ VacuumInto(p)
  BY <1>1, <1>9
  DEF ExportAuditJSON, ExportBatch, ExportReturns, RebuildList, RebuildReturns, Backup, VacuumInto
<1> QED
  BY <1>6, <1>7, <1>8, <1>9 DEF Command

\* AppendAudit is the only statement that changes the log, and it appends: no
\* migration, command, checkpoint or killed process cuts the log short.
THEOREM AuditOnlyGrows == Spec => AuditAppendOnly
<1> DEFINE P == \/ \E p \in Procs : pc[p] \in Restoring
                \/ outages' # outages
                \/ durable # Torn /\ IsPrefix(Current.audit, Current'.audit)
                \/ durable = Torn /\ UNCHANGED fileVars
<1>1. IInv /\ [Next]_vars => [P]_vars
  <2> SUFFICES ASSUME IInv, Next PROVE P
    OBVIOUS
  <2>1. ASSUME NEW p \in Procs, getStore(p) \/ Close(p) \/ Kill(p) PROVE P
    BY <2>1, AuditOpened DEF AuditGrows
  <2>2. ASSUME NEW p \in Procs, Decide(p) \/ Command(p) PROVE P
    BY <2>2, AuditUsed DEF AuditGrows
  <2>3. ASSUME NEW p \in Procs, runRestore(p) PROVE P
    <3>1. CASE RestoreRead(p)
      BY <3>1, AuditStays DEF RestoreRead, AuditGrows
    <3>2. CASE RestoreRemoveWal(p) \/ RestoreTruncate(p) \/ RestoreWrite(p)
      BY <3>2 DEF RestoreRemoveWal, RestoreTruncate, RestoreWrite, Restoring
    <3> QED
      BY <2>3, <3>1, <3>2 DEF runRestore
  <2>4. CASE PowerLoss
    BY <2>4 DEF PowerLoss, IInv, TypeOK
  <2> HIDE DEF P
  <2> QED
    BY <2>1, <2>2, <2>3, <2>4 DEF Next, Procs
<1> QED
  BY <1>1, Invariant, PTL DEF Spec, AuditAppendOnly
=============================================================================
