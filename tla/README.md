# A TLA+ model of InstallGate

InstallGate puts a local HTTP gateway between npm and the public registry. A
package version is assessed from evidence (advisories, publish history,
provenance, names), a deterministic policy turns the assessment into a verdict,
and the tarball is held in quarantine until it has been verified, inspected and
verified again. A command line switches npm over to the gateway and back.

This directory holds TLA+ modules of the parts that carry state or decisions,
TLC configurations that check them on small instances, and TLAPS proofs for
every value of the constants. `PROJECT.json` lists the components, the runs,
the lines of code each definition models, the mutants, the hazards and the
theorems.

## The system: inventory

| component | state | operations | hard behaviour |
|---|---|---|---|
| quarantine store (`internal/quarantine/blobstore.go`, `metadata.go`) | blobs and staging files on disk, pins, byte count, one mutex; metadata in memory | Has, PutVerified, evict, Get, Pin/unpin, Delete, start-up scan | mutex released between calls, eviction at the budget, restart loses metadata but not blobs |
| quarantine manager (`manager.go`) and tarball handler (`gateway/transport.go`) | one pin and one digest per request | Ingest, Inspect, VerifyAndRelease, delivery | pin given up and taken again, several error paths, blobs that change on disk |
| npm configuration (`internal/config`) | `.npmrc`, `journal.json`, `state.json`, staged files | init, enable, disable, status, each starting with recovery | killed processes, failing writes, two processes, retries |
| policy (`internal/policy`) | none | AssessWithThreshold, Evaluate | order of the rows, thresholds, outages |
| evidence (`internal/evidence`) | shared cache of outcomes and allows | Assemble, Get, Put | concurrent evaluations, late answers, outages, staleness windows |
| evidence providers (`history.go`, `provenance.go`, `confusion.go`, `advisory.go`) | none | Provide | documents with gaps, versions that are unpublished, boundaries of name similarity |
| decision engine (`gateway/engine.go`, `explanation/document.go`) | none | EvaluateSnapshot | approvals changing during an evaluation, dropped store errors |
| approvals and audit (`internal/store`, `cmd/installgate`) | SQLite tables | approve, revoke, deny, audit append | expiry, version patterns, partial failure |
| gateway pass-through, integrity index, classifier (`gateway/transport.go`, `classify.go`) | integrity index in memory | ServeHTTP, handlePassThrough, handleQuarantinedTarball, resolveExpectedIntegrity | index filled while requests run, republished versions, policy that changes during a request |
| archive reader, script inspection (`quarantine/archive.go`, `inspect.go`) | counters of one reading | InspectArchiveWithLimits, inspectPackageJSONContent | limits, path cleaning, random order of maps |
| server process (`cmd/installgate/server.go`) | PID file, port | start, stop, health | stale PID file, starts and stops that overlap |
| database (`store/migrations.go`, `sqlite.go`, `audit.go`, `main.go`) | database file, write-ahead log, backup | open and migrate, record, export, rebuild, backup, restore | racing first starts, kills half-way, power failure, appends during an export |
| MCP server, rendering, compatibility harness | none or test state | read-only tools, text, test drivers | none of its own |

Interactions: the handler calls the engine before the download and again after
inspection, and the manager in between. Engine calls of several requests meet in
the evidence cache and the approvals table; manager calls meet in the blob store.
The command line meets the gateway only through its health route, and other
command lines only through files.

Two facts about the code as it stands are worth knowing when reading the model.
`runServerForeground` (`cmd/installgate/server.go:138`) builds a gateway with
neither quarantine nor providers: the quarantine path and the providers are
reached by the tests and the compatibility harness. And no command calls
`PutCachedAllow`; the model gives it the caller its signature suggests.

What makes each part correct: the byte count is exact and within the budget, a
pinned blob stays, unverified or rejected bytes never leave; the developer's
configuration is never lost and always comes back; the matrix is monotone; a
malicious record takes effect in bounded time, an outage is visible, an approval
works exactly as long as it should; no byte of a version passes the gateway that
policy does not permit at that moment; a limit that cuts an inspection short is never taken
for an all-clear; schema and schema table agree, and the audit log is explained
by its decisions; the PID file names the server; a package that changes hands,
or imitates another, does not look like one that does not.

## Modules

| module | models | extends |
|---|---|---|
| `Quarantine` | blob store, metadata store, manager, tarball handler | |
| `QuarantineProofs` | theorems about it | `Quarantine`, `TLAPS` |
| `ConfigLifecycle` | enable, disable, status, journal, recovery | |
| `ConfigLifecycleProofs` | theorems about it | `ConfigLifecycle`, `TLAPS` |
| `Policy` | AssessWithThreshold and Evaluate, as operators | |
| `PolicyMatrix` | a snapshot that gathers observations, and what the matrix promises | `Policy` |
| `Engine` | assembler, cache, EvaluateSnapshot, approvals, deny | `Policy` |
| `EngineProofs` | theorems about it | `Engine`, `TLAPS` |
| `ReleaseGate` | what the gateway promises about tarballs, as an abstract machine | |
| `Gateway` | routes, pass-through, integrity index, both tarball paths; implements `ReleaseGate` | instantiates `ReleaseGate` |
| `GatewayProofs` | theorems about it, and that it implements `ReleaseGate` | `Gateway`, `TLAPS` |
| `ArchiveInspection` | archive reader and script inspection | |
| `ArchiveInspectionProofs` | theorems about it | `ArchiveInspection`, `TLAPS` |
| `Providers` | the four evidence providers, in a world where packages change hands | `Policy` |
| `EvidenceProofs` | theorems about the matrix and the providers | `PolicyMatrix`, `Providers`, `TLAPS` |
| `Database` | migrations, commits, export, rebuild, backup, restore | |
| `DatabaseProofs` | theorems about it | `Database`, `TLAPS` |
| `ServerLifecycle` | start, stop, server processes, PID file | |
| `ServerLifecycleProofs` | theorems about it | `ServerLifecycle`, `TLAPS` |
| `MC...` | instances for TLC | the module they name |

An operator whose comment starts with "Mutant:" is a plausible bug: put in place
of the definition after it, it must make TLC find the property it is paired with
in `PROJECT.json` violated. Nothing refers to these operators.

### Quarantine

`disk`, `meta`, `pins`, `currentBytes` and `mu` are the fields of
`DiskBlobStore` and `MemoryMetadataStore`; `pc`, `key`, `stamp` and `staged` the
position and locals of each handler goroutine. Bytes are "good" (they hash to
the key) or "bad". Every critical section of the mutex, every metadata call and
every reading of a blob is one action; `putInternal` holds the mutex over
several actions (`PutLock`, `EvictOne`, `PutRename`), the other methods are one
action that needs it free. The metadata store has a lock of its own, so its calls
interleave with an eviction. `Corrupt` changes a file behind the store's back,
`Crash` kills the process and runs `NewDiskBlobStore` again. `got` and `late`
remember what the client read, and whether the blob changed after the second
verification.

The checks before `Ingest` (first policy evaluation, upstream fetch, integrity
lookup) touch nothing that is shared here: they are the choice between `Refuse`
and `Begin`. Inspection is a verdict that depends only on the content.

### ConfigLifecycle

A content of `.npmrc` is the developer's text and whether the registry line
points at the gateway. Each durable write (all are atomic renames) and each read
of a shared file is an action of a process, and a process can be killed before
any of them. `orig` is what the developer last wrote. Constants say how
disciplined the use is: `ReEnable` (enable while enabled), `DisableWhen`
(disable only when enabled, also after an interruption, or always), `WriteFails`
(errors the code reports), `SaveFails` and `RecoverFails` (errors it drops),
`EditAnytime`, and the number of processes. With `EditAnytime` the developer, or
`npm login` for him, changes the file at any moment: after an enable, while a
transaction is pending, between two steps of a command, with the registry line
kept or removed. Without it he does so only where InstallGate has no part in the
file, so that "the original" has a meaning; this is for `NothingLost` and its
companions. `UnsupportedUntouched` is checked and proved with edits at any
moment. It says what the code does about a file with credentials or a private
registry: it is never copied into the journal, the state or a transaction, and
it is left in place if no earlier configuration was kept when it got there.
If one was kept, disable and recovery write that one over the file, without a look
at it, and an enable that has inspected the file before the edit does so too.

### Policy and PolicyMatrix

An Assessment is the set of its true flags, an observation a kind and a word.
The first row that applies gives the rule, the rule and the profile the verdict.
The code has two names for the outage and for the reputation rule, depending on
the profile; the model has one each. `PolicyMatrix` is the smallest machine that
reaches every snapshot: observations arrive one by one. Its action property
compares the verdicts before and after each.

### Engine

One package version. A step is a clock reading, a cache access, half of a
provider's query, or a database statement. A provider reads its clock before it
asks, so an answer may be newer than its time, and it may be stored after a later
one: `Put` overwrites. `world` and `since` are what the upstreams hold and since
when; a malicious record stays. `AnswerReduced` is an answer the upstream calls
stale itself, or a part of one; such outcomes are not cached. A required kind
without a provider behaves as a provider that fails. The decision and audit
records are written and never read by an evaluation, and the errors of writing
them are dropped: what becomes of them is in `Database`. An approval's pattern is
the version itself, a caret range that covers it, or every version.

### ReleaseGate and Gateway

`ReleaseGate` is the sentence of `docs/SPEC.md` that bytes requiring inspection
do not reach the package manager before the policy decision, as a machine: a
request is held, cleared while policy permits its version, and only then given
sound content that was offered for this version or that the client named.

`Gateway` follows `ServeHTTP`. One action is the classification of a request,
one call of the evaluator, one upstream exchange, one access to the integrity
index (a packument's versions enter it one by one), one call of the manager or
one saved document. Policy (`permitted`) and registry change between any two of
them. A digest is its algorithm, encoding, length and the content it is of, so
that `ParseDigest` decides by length and prefix as the code does; a path is its
segments. The manager is taken at its word here (`Quarantine` checks it): ingest
compares the bytes with the wanted digest, and content that is in the store
already is reused. Saving a decision document succeeds or not, since the handler
drops the error and may have no store (`transport.go:594`); `unsaved` remembers
of a request that its document of a truncated inspection is missing. A tarball's
file name may hold no version (`classify.go:75`): the ordinary path then asks no
evaluator and passes on whatever the registry has there, the quarantined path
asks, and the engine answers with an error. The evaluator is taken to be
configured, as it is in the server and in the compatibility harness. Under the refinement a request is "cleared" from the second
evaluation on (from the first, without a quarantine), and the abstract
`offered` is everything the registry ever advertised. A response of which only a
part reaches the client is not distinguished from a whole one.

### ArchiveInspection

An archive is read entry by entry until the first check that fails. Paths are
sequences of segments, with `Clean` for `path.Clean`; a script is its hook, its
length and the position at which an indicator would be complete, so that cutting
at a byte limit can cut an indicator off. The order in which Go hands out the
scripts of a map is a choice. The signals of single indicators are folded into
`dangerous_script`; `Previous # {}` stands for the scripts of a previous version
being known.

### Providers

The state is the outside world: a name, made from a popular one by mistakes; a
sequence of publications, some withdrawn; a clock. The registry's answer is
`Complete` or one of `Incomplete`: without versions or times, with one time
missing, garbled or in the future, outdated, 404, or failed. Each provider is a
function of such an answer, with the order of its early returns. Names are
sequences of letters, some of which imitate others and take two bytes. The
letter case of maintainers' names and equal timestamps are left out.

### Database

The file as of the last checkpoint and the commits of the write-ahead log after
it. A process opens the database (create the migration table, read it, run each
migration in a transaction of its own), then works; the server records
decisions in two statements, the command line exports, rebuilds the cache, makes
backups and restores. `Kill` ends a process at any step and loses nothing that
was committed; `PowerLoss` keeps some prefix of the log, and no more than a part
of a file that was not synced. A restore overwrites the file in place and is
only run while no other process has the database open: the code does not check
this, so it is the operator's part.

### ServerLifecycle

Commands and servers are processes; a step is one access to the PID file (which
`os.WriteFile` truncates before it writes), the port, or another process.
`overlap` remembers whether the last start met a server or a stop that was
under way, which nothing prevents: the properties of the PID file hold
otherwise. Process numbers are not reused.

## Runs

`r` requests, `k` blobs, states as TLC counts them.

| run | instance | checks |
|---|---|---|
| `quarantine_crash` | 2 r, 3 k of 1, 2 and 1 bytes, budget 2, crashes, deletions (1.0M states) | `AccountingExact`, `BudgetRespected`, `PinsExact`, `LeaseSafety`, `NothingUnverifiedOnDisk`, `HazardousNeverReleased` |
| `quarantine_alive` | 2 r, 2 k, budget 2, corruption, deletions, no crash, fair (240k) | `DeliveredIsAuthentic`, `BudgetErrorJustified`, `RequestsAnswered` |
| `config_single` | 1 process, 4 transactions, 3 kills, disciplined use, fair (13k) | `NothingLost`, `StateTellsTruth`, `DisableRestores`, `InterruptionsRecovered` |
| `config_anyorder` | 2 processes, 2 texts, 2 transactions, 1 kill, any order, edits at any moment, dropped errors (1.1M) | `UnsupportedUntouched` |
| `policy_matrix` | 13 observations (8192) | `StrictNeverWeaker`, `ThresholdTightens`, `FirstRowIsStrongest`, `EvidenceNeverWeakens` |
| `engine_race` | 2 evaluations, 1 provider, time 3 (580k) | `AdvisoryTakesEffect` |
| `engine_single` | 1 evaluation, 2 providers, outdated and partial answers, 1 approval, deny, time 1 (560k) | `OutageVisible`, `MaliciousBlocks`, `RevocationHolds` |
| `gateway` | 2 requests, 2 versions, 2 contents, 1 publication, policy changing about 1 version (1.2M) | `ImplementsGate`, `MismatchHasCause`, `TruncationRecorded` |
| `inspection` | archives of up to 4 of 25 entries (63k) | `AcceptedIsSound`, `NoSilentAllClear`, `CompleteUnlessTruncated` |
| `providers` | 2 popular names of 4 and 10 letters, 3 mistakes and publications, time 5 (370k) | `TakeoverSeen`, `AlarmHasCause`, `TypoHeld` |
| `database` | 1 server, 1 command line, 2 migrations, 2 events, 1 failure, 1 restore (630k) | `SchemaRecorded`, `SchemaBeforeUse`, `ExportComplete`, `AuditExplained`, `AuditAppendOnly`, `StartsEventually` |
| `server` | 2 commands, 3 servers (190k) | `PidFileNamesServer`, `StopMeansStopped`, `CommandsReturn` |

Why the bounds are enough. Two requests and three blobs with room for two let a
commit race a commit of the same key, an eviction race a pin, and a request wait
for the mutex of one that evicts; one clock tick makes records differ in age.
Two blobs that do not fit together are enough for `quarantine_alive`: a request
finds the other's blob pinned, or an unused record without a file, and its
`BudgetErrorJustified` is proved for any number of blobs.
Four transactions and three kills cover enable, disable and enable again with a
kill in a transaction, in its recovery and in the recovery of that. In
`config_anyorder` two transactions are an enable and a disable of the same or of
two processes, one kill leaves a journal behind, and two texts are one that
inspection accepts and one that it refuses, with edits between all of them
(the theorem has no such bounds). Thirteen
observations hold one for each flag a row of the matrix looks at (two that mean
the same are one) and severities on both sides of the thresholds. Three ticks
are one more than the freshness and staleness windows of one tick each; in
`engine_single` an entry is fresh only within its tick and stale in the next, so
that one tick is enough for fresh, stale and missing entries and for an approval
that expires. An instance of `MCConfigLifecycle` ends when its transactions and
kills are used up only in the sense that no further transaction starts: status can always be
asked for, so there is no deadlock.

Two requests and two versions let one request relay a packument while another
looks a digest up, and one reuse the blob another brought in; the catalog has a
version with a legacy digest and one whose digest the gateway cannot read, and
the one publication repairs or replaces either. Policy changes its mind about one
of the two versions only (`Volatile`), the one with a readable digest from the
start: one change of mind between the two evaluations of a request is all that
the gate can be wrong about, and the theorem has no such bound. Four entries are one more than
the entry limit, and every limit is met exactly and exceeded by one by some
entry. A name of ten letters is the shortest for which two edits count, one of
four the shortest for one. Two events and pages of one let an append fall
between two pages; two migrations let a process be killed between them; one
failure is a kill, a failed statement or a power failure at every step. Three
servers are a stale one, a running one and one that starts meanwhile.

Four runs may stop: `policy_matrix` when all observations are in, `inspection`
at the end of an archive, `providers` when clock and activities are used up, and
`database` when the file is torn and no usable backup is left, where the program
really cannot go on.

Fairness. `RequestsAnswered` assumes strong fairness of each handler once it has
called `Ingest`: the server cuts off reads and writes after 60 seconds
(`server.go:158`), and Go's mutex hands over to a goroutine that has waited a
millisecond, so a handler that is enabled again and again gets its turn. No
request is obliged to arrive. `InterruptionsRecovered` assumes weak fairness of a
running command, and that the developer sooner or later asks for the status.
`StartsEventually` assumes that a command that failed to open the database is
run again and goes on, and so an interrupted restore. `CommandsReturn` assumes
that processes are scheduled and deadlines pass; nobody has to run a command.

## Where the code departs from what it says

These were met while modelling. Where a constant or a condition of a property
leaves such a case out, TLC shows it when the constant is changed.

- A second `enable` takes the gateway's own configuration for the prior one
  (`lifecycle.go:225`), although "Restore byte-for-byte" (`lifecycle.go:255`):
  `NothingLost` fails with `ReEnable = TRUE`.
- A `disable` that is retried after an interruption replaces what recovery has
  just restored (`lifecycle.go:258`): `NothingLost` and `DisableRestores` fail
  with `DisableWhen = "interrupted"`.
- `CommitTransaction` drops the error of `SaveState` and clears the journal
  (`journal.go:138`): `NothingLost` fails with `SaveFails = TRUE`.
- No lock excludes processes (`lifecycle.go:312`): with two of them a status
  command may recover the transaction of an enable that is still running, and
  `NothingLost` fails.
- What the developer adds to `.npmrc` after an enable (`npm login` puts
  credentials there) is lost at the next disable, which writes the prior
  configuration over the file without inspecting it (`lifecycle.go:267`); so it
  is while a transaction is pending (`journal.go:166`) and between inspection
  and rename. `NothingLost` fails with `EditAnytime = TRUE`. The credentials do not
  get into InstallGate's own files (`CredentialsNeverKept`).
- The gateway may stop between the health check and the rename
  (`lifecycle.go:219`), although a comment there excludes such a window.
- After a restart blobs have no records, and eviction does not see them: the
  budget error is then answered although no blob is in use
  (`BudgetErrorJustified` assumes a process that is not killed).
- The second verification compares the blob with its digest, not with what was
  inspected (`manager.go:264`): a blob that is bad while it is inspected and good
  again afterwards is delivered. The bytes are still those the digest names.
- `deny` leaves an approval for a caret range in place (`main.go:863`), and an
  allow that rests on a stale cache entry neither is marked degraded nor shows it.
- The shipped server has no quarantine (`server.go:138`): only the pass-through
  half of `Gateway` runs there.
- On that path a tarball whose file name holds no version (`name-.tgz`) reaches
  the client without any evaluation (`transport.go:331`), although `docs/SPEC.md:7`
  promises a decision before the bytes. `ReleaseGate` admits exactly this case.
- The handler drops the error of `decisionStore.Save` and works without a store
  (`transport.go:594`): the document of a truncated inspection may be missing
  while the archive is released. `TruncationRecorded` holds otherwise, also for
  a blob that another request brought in.
- Only the first `package.json` of an archive is inspected, and one that does not
  parse reads as having no scripts (`NoSilentAllClear` excepts it).
- A version whose time is missing or garbled is skipped in silence by
  `findPreviousVersion`, so that a takeover is compared with a version further
  back; `TakeoverSeen` asks for the time of the version before. The same
  repository under `https://` and `ssh://` counts as changed.
- Two edits count for names "of at least eight letters", but the similarity of
  0.80 asks for ten (`confusion.go:302`). The keyboard map is not symmetric.
- Restore says "atomic write" (`main.go:1096`) and overwrites in place; the
  probe before it opens a partial backup without complaint; nothing checks that
  the database is not in use.
- `cache rebuild` reads the oldest 500 events, and brings back allows that later
  decisions superseded (`main.go:1172`).
- Starts and stops that overlap can leave a server without a PID file, and a
  shutdown cuts off the requests that are being answered (`server.go:174`).

## Theorems

`tlapm` proves these for every value of the constants that satisfies the named
assumptions of the modules: any number of requests, processes, keys, versions,
entries or events, any sizes, limits and lifetimes. The bounds of the runs
(`MaxTime`, `MaxFailures` and their like) are arbitrary numbers here. Each
inductive invariant also holds in TLC on the instance of its run. The assumptions
are of three kinds: types and finiteness, sentinels that are not values (`None`,
`Missing`, ...), and five that say something of the program: `BudgetAssumption`
(the code refuses a budget of zero), `EvidenceAssumption` (there is a provider;
only the assembler writes evidence of the kind "cache"; a version is called
malicious by advisories, as AssessWithThreshold requires of the kind),
`EntriesAssumption` (a manifest is no longer than its entry),
`ContentAssumption` (a regular package.json has content) and `PopularAssumption`
(the corpus has no empty name and, as npm accepts no other new names, no letter
that imitates one).

*Quarantine.* `PinInvariant` is the type of the variables but the byte count,
together with: the pin count of a blob is the number of requests at a point
where they own a pin, a request at such a point finds its blob on disk, and
bytes about to be committed were verified. `PinsExact` alone is not inductive
(an unpin could go below zero), and `LeaseSafety` needs it: eviction and Delete
look at the count, not at the requests. From it follow `PinsAreExact` and
`PinnedBlobsStay`, with crashes and corruption. `QuarantineInvariant` adds:

- that blobs on disk are good while nothing interferes, and that no request for
  hazardous content is past inspection: `BlobsAreVerified`, `HazardsStayInside`;
- that between the second verification and the last byte the blob is good or
  has changed since (`AuthenticInv`): `DeliveriesAreAuthentic`;
- that the byte count is the sum over the directory and within the budget
  (`ByteInv`): `TheCountIsExact`, `TheBudgetHolds`. This needs that a record
  without a file claims no bytes (eviction subtracts what the record says), and
  that a request that makes room holds the mutex and its own blob is not on disk.

What the sum of a set of blobs is, and that it changes by the size of the blob
that comes or goes, is itself proved: a recursive function over the subsets of a
finite set is shown to exist and to be unique by looking at a smallest subset for
which it fails. `BudgetErrorsAreJustified` assumes that the process is
not killed, and is false otherwise (see above). `TypeCorrect` has no such condition.

*ConfigLifecycle.* `TypeCorrect` holds for any number of processes.
`LifecycleInvariant` says for every program point what the journal, the state
and the file are in terms of the original, and is needed because `NothingLost`
speaks of a journal whose content depends on how far the command is.
`ConfigurationSurvives`, `StateIsTrue` and `DisableGivesBack` follow under
`Careful`: one process, no enable while enabled, disable only when enabled, no
edits where InstallGate has a part in the file, and no dropped error. Each part
of `Careful` is necessary: the first five points of the list above and
`RecoverFails = TRUE` drop one each, and lose a property.
`CredentialsNeverKept` and `UnsupportedStays` have no condition: any number of
processes, edits at any moment, any failure. What a command carries was captured
together with the inspection (`KeptSupported`), and with nothing kept
no command is at a point where it writes the file (`RefusedStep`).

*Policy.* The four properties of the run and `ReputationNeverHolds`, for every set of observations,
from three lemmas: what each rule gives in each profile, how strong each verdict
is, and that the facts of a snapshot grow with its observations.

*Providers.* `TypoHeld` needs to know what `levenshteinDistance` computes. The
code fills a table and keeps two rows of it; the recursive functions of the model
are shown to exist, and to be the rows of one table in which every inner entry
is the best of three neighbours (`IsTable`, `TableExists`). Neighbouring entries
differ by one at most; two names that go on with the same letters keep
the difference between their rows (`SameLetters`); so one edit moves a name by
one at most (`EditCost`). In the other direction each entry is the length of a
path of edits (`TablePaths`). Together: `DistanceIsLeast`. `WorldInv` then says
that the name is no farther from its origin than the edits made, what a single
mistake looks like, and that publications are ordered in time and in the past.
`TyposAreHeld` follows by cases: an edit is `Near` since different names have
a distance above zero, a swap is a transposition, a scope is seen as one;
HistoryProvider sees that the package is young, and the matrix holds it.
`TakeoversAreSeen` and `AlarmsHaveCauses` rest on `PreviousVersion`: where
HistoryProvider finds no fault, the version has its right time, a time in the
future is not before it, and so the version found before it was published
earlier and is the latest such one that the packument dates. The assumptions are
that popular names are sequences of letters that imitate nothing, and that
`Invalid` and `NoTime` are neither times nor timelines.

*Engine.* The argument is about the age of evidence. `Dated`: whatever is
cached, kept in reserve or used was asked for at a time that has passed, and if
that is after the upstream took up a malicious report, it is that report.
`Young`: what an evaluation uses is within the lifetimes at the time it began.
Together they give `AdvisoriesTakeEffect`: an answer that overwrites a later one
in the cache is bounded by its own date. `Voided`, that an approval which
was void stays void, gives `RevocationIsFinal`. `KnownMaliciousIsBlocked` and
`OutageIsVisible` rest on which evidence an evaluation has collected where it is
(`Progress`), and on the rows of the matrix.

*Gateway.* The argument follows a digest: what the registry holds, a packument
that is being read, the index and the digest a request expects all name content
that was offered for that version (`Offers`), so bytes that pass verification
are offered content. `MismatchesHaveCauses` and `TruncationsAreRecorded` follow;
the latter needs that documents only accumulate and that a refused one is
remembered with its request. `HandlerImplementsGate` is the refinement of
`ReleaseGate`: the initial states map to initial ones, and each of the handler's
actions, in an invariant state, to a step of the gate or a stutter.

*Database.* What allows a process to record the next migration, append its event
or skip a page is what it read before, and the database may have changed since.
The invariant says of each process what is still true of what it read (`Local`),
because a database in use only grows (`Grows`) and nobody uses one that is being
restored (`Alone`); every copy, each prefix of the log included, is sound. So
`SchemaIsRecorded`, `SchemaIsThere`, `ExportsAreComplete`, `AuditIsExplained` and
the action property `AuditOnlyGrows`, with kills, power failures and restores.

*ServerLifecycle.* The invariant follows the one server that has touched the PID
file since the last start that met nobody (`Sole`), and what a stop command
knows of its target (`Aimed`). `PidFileIsRight` and the action property
`StopIsTrue` follow.

*ArchiveInspection.* `ReadInv` compares the counters of the loop with the entries
it has read; `ManifestInv` compares scripts, signals and the mark of truncation
with the manifest. What needs most work is `path.Clean`, a fold over the segments:
it drops what ".." takes back, so that a cleaned path that does not begin
with ".." belongs to a path with, at each of its prefixes, at least as many steps down as
up. `AcceptedArchivesAreSound` states this of the paths as written.
`AllClearIsEarned` and `UnmarkedIsComplete` follow from `ManifestInv`.

Facts about every set or every length have no induction behind them: they
are proved by way of a smallest counterexample (`WFMin` of the library, with
the strict subset order or the order of the naturals).

Only model-checked: liveness (`RequestsAnswered`, `InterruptionsRecovered`,
`StartsEventually`, `CommandsReturn`), which is out of the prover's reach. Every
safety invariant, action property and refinement of the runs is proved.

## Not modelled

- Bytes, hashes, archive formats and URLs; a digest names one content.
- Staging files against the budget: the code does not count them.
- Failing reads of a blob that exists, and of a file other than the journal.
- The JSON of registry, OSV and policy documents beyond what a provider looks at,
  and all wording.
- `ProvideBatch`, which has no caller, and the semaphores that limit how many
  queries a provider has under way.
- The MCP server: it answers from the evaluation `Engine` models and refuses
  tools by a list of words; there is no state behind the list to check.
- Explanations: layout and redaction; the document stores are a map and a
  directory of files that are renamed into place.
- The compatibility harness, which is test code.
- Delivery of a part of a released stream; reuse of process numbers; stop on
  Windows; several ports.
- Configuration history and cached evidence in the database: the one is only
  written, the other has no caller.
- The wall clock is taken to be monotone.

## Plan

Every component that keeps state is modelled, and every safety property of the
runs is proved. What could come next follows the code: a model of the
configuration history once something reads it, of `ProvideBatch` once it has a
caller, and of the MCP server once it keeps state of its own.
