----------------------------- MODULE Quarantine -----------------------------
(***************************************************************************)
(* The quarantine a tarball passes through on its way to npm:              *)
(*                                                                         *)
(*   internal/quarantine/blobstore.go  DiskBlobStore: blobs on disk, pins, *)
(*                                     the byte count and the one mutex;   *)
(*   internal/quarantine/metadata.go   MemoryMetadataStore: one record per *)
(*                                     digest, lost when the process ends; *)
(*   internal/quarantine/manager.go    Manager: Ingest, Inspect and        *)
(*                                     VerifyAndRelease;                   *)
(*   internal/gateway/transport.go     handleQuarantinedTarball, which     *)
(*                                     calls the three in turn.            *)
(*                                                                         *)
(* A request is one handler goroutine.  Its steps are the critical         *)
(* sections of DiskBlobStore.mu, the single calls on the metadata store    *)
(* and the reads of a blob: everything the code does between two of them   *)
(* touches only the goroutine's own variables.  A request that finished is *)
(* idle and may serve another tarball.                                     *)
(*                                                                         *)
(* The bytes of a blob are abstracted to "good" (they hash to the key) and *)
(* "bad" (they do not).                                                    *)
(***************************************************************************)
EXTENDS Integers, FiniteSets, FiniteSetsExt

CONSTANTS
    Keys,           \* content digests: the names of blobs
    Size,           \* the length of the content each digest names
    MaxBytes,       \* DiskBudget.MaxBytes
    Requests,       \* handler goroutines that may be in flight together
    NoReq, NoKey,   \* "nobody" and "no blob"
    NoMeta,         \* the metadata store has no record
    MaxTime,        \* bound of the clock
    Hazardous,      \* digests whose content inspection rejects or flags
    CrashAllowed,   \* may the process be killed and started again?
    CorruptAllowed, \* may a blob change on disk behind the store's back?
    DeleteAllowed   \* does anyone call DiskBlobStore.Delete?

ASSUME KeysAssumption == IsFiniteSet(Keys) /\ NoKey \notin Keys
ASSUME SizeAssumption == Size \in [Keys -> Nat \ {0}]
\* DiskBudget.Validate refuses a budget that is not positive.
ASSUME BudgetAssumption == MaxBytes \in Nat \ {0}
ASSUME RequestsAssumption == IsFiniteSet(Requests) /\ NoReq \notin Requests
ASSUME TimeAssumption == MaxTime \in Nat
ASSUME HazardAssumption == Hazardous \subseteq Keys
ASSUME FlagsAssumption == {CrashAllowed, CorruptAllowed, DeleteAllowed} \subseteq BOOLEAN

VARIABLES
    disk,           \* blobs/: what the file of each key holds
    meta,           \* MemoryMetadataStore.records
    pins,           \* DiskBlobStore.pins (0 when the map has no entry)
    currentBytes,   \* DiskBlobStore.currentBytes
    mu,             \* the request holding DiskBlobStore.mu across steps
    clock,          \* Manager.clock
    pc,             \* where each handler is
    key,            \* QuarantinedEntry.Key of each request
    stamp,          \* the local variable "now" of each request
    staged,         \* what each request has in staging/
    got,            \* what the bytes were when the client received them
    late,           \* the blob changed after the second verification
    out             \* the answer the request last gave

storeVars   == <<disk, meta, pins, currentBytes, mu>>
requestVars == <<pc, key, stamp, staged, got, late, out>>
vars        == <<storeVars, clock, requestVars>>

Content  == {"absent", "good", "bad"}
\* A further status, "verified", is never assigned.
Status   == {"quarantined", "inspected", "released", "blocked"}
Answers  == {"none", "refused", "error", "budget", "blocked", "delivered"}
Time     == 0 .. MaxTime
BlobMetadata == [size : Nat, status : Status, accessed : Time]

ASSUME MetaAssumption == NoMeta \notin BlobMetadata

\* The program points at which a request owns a pin: from the Pin call of
\* Ingest to the deferred unpin of Inspect, and from the Pin call of
\* VerifyAndRelease to the unpin of its error path or of releaseStream.Close.
PinnedAt == {"touch", "putMeta", "inspect", "inspUnpin", "flagged", "verify",
             "reject", "reopen", "released", "touchReleased", "stream", "close"}
Points   == PinnedAt \cup {"idle", "has", "pinOld", "put", "stage", "mismatch",
                           "commit", "evict", "pinNew", "post", "blockMeta"}

Holders(k) == {r \in Requests : pc[r] \in PinnedAt /\ key[r] = k}
OnDisk     == {k \in Keys : disk[k] # "absent"}
BytesOf(S) == MapThenSumSet(LAMBDA k : Size[k], S)

\* The type of every variable but the byte count.
ShapeOK ==
    /\ disk \in [Keys -> Content]
    /\ meta \in [Keys -> BlobMetadata \cup {NoMeta}]
    /\ pins \in [Keys -> Nat]
    /\ mu \in Requests \cup {NoReq}
    /\ clock \in Time
    /\ pc \in [Requests -> Points]
    /\ key \in [Requests -> Keys \cup {NoKey}]
    /\ \A r \in Requests : pc[r] # "idle" => key[r] \in Keys
    /\ stamp \in [Requests -> Time]
    /\ staged \in [Requests -> Content]
    /\ got \in [Requests -> Content]
    /\ late \in [Requests -> BOOLEAN]
    /\ out \in [Requests -> Answers]

\* The variables have their types; the byte count is an int64 that the code
\* lets go negative in eviction and clamps in Delete.
TypeOK == ShapeOK /\ currentBytes \in Int

Init ==
    /\ disk = [k \in Keys |-> "absent"]
    /\ meta = [k \in Keys |-> NoMeta]
    /\ pins = [k \in Keys |-> 0]
    /\ currentBytes = 0
    /\ mu = NoReq
    /\ clock = 0
    /\ pc = [r \in Requests |-> "idle"]
    /\ key = [r \in Requests |-> NoKey]
    /\ stamp = [r \in Requests |-> 0]
    /\ staged = [r \in Requests |-> "absent"]
    /\ got = [r \in Requests |-> "absent"]
    /\ late = [r \in Requests |-> FALSE]
    /\ out = [r \in Requests |-> "none"]

-----------------------------------------------------------------------------
(* The stores.                                                             *)

\* Every method of DiskBlobStore but putInternal's commit is one critical
\* section: a step that only needs the mutex to be free.
Locked == mu = NoReq

Exists(k) == disk[k] # "absent"

\* Pin and the unpin function it returns.  The unpin of the code is
\* idempotent and deletes the map entry at zero.
Pin(k)   == pins' = [pins EXCEPT ![k] = @ + 1]
Unpin(k) == pins' = [pins EXCEPT ![k] = @ - 1]

MetaPut(k, size, status, t) ==
    meta' = [meta EXCEPT ![k] = [size |-> size, status |-> status, accessed |-> t]]

\* UpdateStatus and Touch fail on a missing record; every caller ignores it.
UpdateStatus(k, status) ==
    meta' = IF meta[k] = NoMeta THEN meta
            ELSE [meta EXCEPT ![k] = [@ EXCEPT !.status = status]]

Touch(k, t) ==
    meta' = IF meta[k] = NoMeta THEN meta
            ELSE [meta EXCEPT ![k] = [@ EXCEPT !.accessed = t]]

\* Mutant: the pin is not looked at.
EvictablePinned == {k \in Keys : meta[k] # NoMeta}

\* List is sorted by LastAccessedAt with an unstable sort: among records of
\* equal age any may come first.  The loop takes the first that is unpinned.
Evictable == {k \in Keys : meta[k] # NoMeta /\ pins[k] = 0}
EvictionCandidates ==
    {k \in Evictable : \A j \in Evictable : meta[k].accessed <= meta[j].accessed}

\* Mutant: the record is believed without a look at the file.
EvictedBytesRecorded(k) == meta[k].size

\* What evictOneCandidateLocked returns: the size of the file it removed or,
\* when there was none, the size the record claims.
EvictedBytes(k) == IF Exists(k) THEN Size[k] ELSE meta[k].size

Remove(k) ==
    /\ disk' = [disk EXCEPT ![k] = "absent"]
    /\ meta' = [meta EXCEPT ![k] = NoMeta]

-----------------------------------------------------------------------------
(* Bookkeeping of a request.                                               *)

At(r, point) == pc[r] = point

Go(r, point) ==
    /\ pc' = [pc EXCEPT ![r] = point]
    /\ UNCHANGED <<key, stamp, staged, got, late, out>>

\* The handler returns: its locals die with it.
Answer(r, answer) ==
    /\ pc' = [pc EXCEPT ![r] = "idle"]
    /\ key' = [key EXCEPT ![r] = NoKey]
    /\ stamp' = [stamp EXCEPT ![r] = 0]
    /\ staged' = [staged EXCEPT ![r] = "absent"]
    /\ got' = [got EXCEPT ![r] = "absent"]
    /\ late' = [late EXCEPT ![r] = FALSE]
    /\ out' = [out EXCEPT ![r] = answer]

-----------------------------------------------------------------------------
(* handleQuarantinedTarball up to the call of Ingest.                      *)

\* The pre-fetch policy check, the upstream fetch and the integrity lookup
\* all answer without touching quarantine when they fail.
Refuse(r) ==
    /\ At(r, "idle")
    /\ Answer(r, "refused")
    /\ UNCHANGED <<storeVars, clock>>

\* They all succeed: Ingest reads the clock before it looks at the store.
Begin(r, k) ==
    /\ At(r, "idle")
    /\ pc' = [pc EXCEPT ![r] = "has"]
    /\ key' = [key EXCEPT ![r] = k]
    /\ stamp' = [stamp EXCEPT ![r] = clock]
    /\ out' = [out EXCEPT ![r] = "none"]
    /\ UNCHANGED <<storeVars, clock, staged, got, late>>

-----------------------------------------------------------------------------
(* Manager.Ingest.                                                         *)

IngestHas(r) ==
    /\ At(r, "has") /\ Locked
    /\ Go(r, IF Exists(key[r]) THEN "pinOld" ELSE "put")
    /\ UNCHANGED <<storeVars, clock>>

\* The blob may be gone again: Has and Pin are two critical sections.
IngestPinExisting(r) ==
    /\ At(r, "pinOld") /\ Locked
    /\ Exists(key[r])
    /\ Pin(key[r])
    /\ Go(r, "touch")
    /\ UNCHANGED <<disk, meta, currentBytes, mu, clock>>

\* Mutant: content that is already in the store is not inspected again.
IngestTouchTrusting(r) ==
    /\ At(r, "touch")
    /\ Touch(key[r], stamp[r])
    /\ Go(r, "inspUnpin")
    /\ UNCHANGED <<disk, pins, currentBytes, mu, clock>>

IngestTouch(r) ==
    /\ At(r, "touch")
    /\ Touch(key[r], stamp[r])
    /\ Go(r, "inspect")
    /\ UNCHANGED <<disk, pins, currentBytes, mu, clock>>

\* putInternal, first critical section: deduplicate.
PutCheck(r) ==
    /\ At(r, "put") /\ Locked
    /\ Go(r, IF Exists(key[r]) THEN "pinNew" ELSE "stage")
    /\ UNCHANGED <<storeVars, clock>>

\* Mutant: the staged bytes are committed without the first verification.
PutStageUnverified(r) ==
    /\ At(r, "stage")
    /\ \E bytes \in {"good", "bad"} : staged' = [staged EXCEPT ![r] = bytes]
    /\ pc' = [pc EXCEPT ![r] = "commit"]
    /\ UNCHANGED <<storeVars, clock, key, stamp, got, late, out>>

\* The stream is copied to a staging file and hashed on the way.
PutStage(r) ==
    /\ At(r, "stage")
    /\ \E bytes \in {"good", "bad"} :
          /\ bytes = "good" => Size[key[r]] <= MaxBytes
          /\ staged' = [staged EXCEPT ![r] = bytes]
          /\ pc' = [pc EXCEPT ![r] = IF bytes = "good" THEN "commit" ELSE "mismatch"]
    /\ UNCHANGED <<storeVars, clock, key, stamp, got, late, out>>

\* The stream is interrupted, the context cancelled, the staging file cannot
\* be created, synced or closed, or the blob alone exceeds the budget.
PutStageFail(r) ==
    /\ At(r, "stage")
    /\ Answer(r, "error")
    /\ UNCHANGED <<storeVars, clock>>

\* Ingest leaves a record of size zero for bytes it did not keep.
MismatchRecord(r) ==
    /\ At(r, "mismatch")
    /\ MetaPut(key[r], 0, "blocked", stamp[r])
    /\ Answer(r, "blocked")
    /\ UNCHANGED <<disk, pins, currentBytes, mu, clock>>

\* putInternal, second critical section.  Another request may have committed
\* the same key in the meantime; otherwise the mutex is held to the end.
PutLock(r) ==
    /\ At(r, "commit") /\ Locked
    /\ IF Exists(key[r])
       THEN /\ pc' = [pc EXCEPT ![r] = "pinNew"]
            /\ staged' = [staged EXCEPT ![r] = "absent"]
            /\ mu' = mu
       ELSE /\ pc' = [pc EXCEPT ![r] = "evict"]
            /\ mu' = r
            /\ staged' = staged
    /\ UNCHANGED <<disk, meta, pins, currentBytes, clock, key, stamp, got, late, out>>

\* Mutant: the new blob is left out of the sum.
NeedsRoomBefore(r) == currentBytes > MaxBytes

NeedsRoom(r) == currentBytes + Size[key[r]] > MaxBytes

\* Mutant: the record of an evicted blob stays behind.
EvictOneFileOnly(r) ==
    /\ At(r, "evict")
    /\ NeedsRoom(r)
    /\ \E k \in EvictionCandidates :
          /\ disk' = [disk EXCEPT ![k] = "absent"]
          /\ currentBytes' = currentBytes - (IF Exists(k) THEN Size[k] ELSE 0)
    /\ UNCHANGED <<meta, pins, mu, clock, requestVars>>

\* One turn of the loop.  Listing, removing the file and deleting the record
\* are one step: whoever holds a pin got it before this request got the
\* mutex, so its key is skipped, and nobody else touches a record.
EvictOne(r) ==
    /\ At(r, "evict")
    /\ NeedsRoom(r)
    /\ \E k \in EvictionCandidates :
          /\ Remove(k)
          /\ currentBytes' = currentBytes - EvictedBytes(k)
    /\ UNCHANGED <<pins, mu, clock, requestVars>>

\* Mutant: a record whose file is missing is taken for a failure.
EvictFailAtMissing(r) ==
    /\ At(r, "evict")
    /\ NeedsRoom(r)
    /\ Evictable = {} \/ \E k \in EvictionCandidates : ~Exists(k)
    /\ mu' = NoReq
    /\ Answer(r, "budget")
    /\ UNCHANGED <<disk, meta, pins, currentBytes, clock>>

\* The loop ran out of records: none of them is unpinned.
EvictFail(r) ==
    /\ At(r, "evict")
    /\ NeedsRoom(r)
    /\ Evictable = {}
    /\ mu' = NoReq
    /\ Answer(r, "budget")
    /\ UNCHANGED <<disk, meta, pins, currentBytes, clock>>

PutRename(r) ==
    /\ At(r, "evict")
    /\ ~NeedsRoom(r)
    /\ disk' = [disk EXCEPT ![key[r]] = staged[r]]
    /\ staged' = [staged EXCEPT ![r] = "absent"]
    /\ currentBytes' = currentBytes + Size[key[r]]
    /\ mu' = NoReq
    /\ pc' = [pc EXCEPT ![r] = "pinNew"]
    /\ UNCHANGED <<meta, pins, clock, key, stamp, got, late, out>>

\* Chmod or Rename fails: what was evicted stays evicted.
PutRenameFail(r) ==
    /\ At(r, "evict")
    /\ ~NeedsRoom(r)
    /\ mu' = NoReq
    /\ Answer(r, "error")
    /\ UNCHANGED <<disk, meta, pins, currentBytes, clock>>

IngestPin(r) ==
    /\ At(r, "pinNew") /\ Locked
    /\ Exists(key[r])
    /\ Pin(key[r])
    /\ Go(r, "putMeta")
    /\ UNCHANGED <<disk, meta, currentBytes, mu, clock>>

\* Pin answers ErrBlobNotFound: in Ingest (either branch) or, after Inspect
\* gave up its pin, in VerifyAndRelease.
PinFail(r) ==
    /\ pc[r] \in {"pinOld", "pinNew", "post"} /\ Locked
    /\ ~Exists(key[r])
    /\ Answer(r, "error")
    /\ UNCHANGED <<storeVars, clock>>

IngestRecord(r) ==
    /\ At(r, "putMeta")
    /\ MetaPut(key[r], Size[key[r]], "quarantined", stamp[r])
    /\ Go(r, "inspect")
    /\ UNCHANGED <<disk, pins, currentBytes, mu, clock>>

-----------------------------------------------------------------------------
(* Manager.Inspect and the policy evaluation after it.                     *)

\* Bytes that hash to the key get the verdict their content deserves;
\* nothing is known about the verdict on bytes that do not.
Verdicts(k) == IF disk[k] = "good" THEN {k \notin Hazardous} ELSE BOOLEAN

InspectRead(r) ==
    /\ At(r, "inspect") /\ Locked
    /\ \E clean \in Verdicts(key[r]) :
          /\ UpdateStatus(key[r], IF clean THEN "inspected" ELSE "blocked")
          /\ pc' = [pc EXCEPT ![r] = IF clean THEN "inspUnpin" ELSE "flagged"]
    /\ UNCHANGED <<disk, pins, currentBytes, mu, clock, key, stamp, staged, got, late, out>>

\* The deferred unpin, when inspection found nothing.
InspectUnpin(r) ==
    /\ At(r, "inspUnpin") /\ Locked
    /\ Unpin(key[r])
    /\ Go(r, "post")
    /\ UNCHANGED <<disk, meta, currentBytes, mu, clock>>

\* Mutant: a rejected archive keeps its pin.
InspectRejectLeaks(r) ==
    /\ At(r, "flagged") /\ Locked
    /\ Answer(r, "blocked")
    /\ UNCHANGED <<storeVars, clock>>

\* The deferred unpin, when it did: the handler blocks the package.
InspectReject(r) ==
    /\ At(r, "flagged") /\ Locked
    /\ Unpin(key[r])
    /\ Answer(r, "blocked")
    /\ UNCHANGED <<disk, meta, currentBytes, mu, clock>>

\* The second policy evaluation blocks, asks for approval or fails.
PostCheckDeny(r) ==
    /\ At(r, "post")
    /\ Answer(r, "refused")
    /\ UNCHANGED <<storeVars, clock>>

-----------------------------------------------------------------------------
(* Manager.VerifyAndRelease and the delivery.                              *)

ReleasePin(r) ==
    /\ At(r, "post") /\ Locked
    /\ Exists(key[r])
    /\ Pin(key[r])
    /\ Go(r, "verify")
    /\ UNCHANGED <<disk, meta, currentBytes, mu, clock>>

\* Mutant: the second verification is left out.
ReleaseUnverified(r) ==
    /\ At(r, "verify") /\ Locked
    /\ Go(r, "reopen")
    /\ UNCHANGED <<storeVars, clock>>

ReleaseVerify(r) ==
    /\ At(r, "verify") /\ Locked
    /\ Go(r, IF disk[key[r]] = "good" THEN "reopen" ELSE "reject")
    /\ UNCHANGED <<storeVars, clock>>

ReleaseReject(r) ==
    /\ At(r, "reject") /\ Locked
    /\ Unpin(key[r])
    /\ Go(r, "blockMeta")
    /\ UNCHANGED <<disk, meta, currentBytes, mu, clock>>

\* The record may belong to a later blob by now: the pin is already gone.
ReleaseBlock(r) ==
    /\ At(r, "blockMeta")
    /\ UpdateStatus(key[r], "blocked")
    /\ Answer(r, "blocked")
    /\ UNCHANGED <<disk, pins, currentBytes, mu, clock>>

\* The verified file is closed and opened again for streaming; then the
\* clock is read.
ReleaseReopen(r) ==
    /\ At(r, "reopen") /\ Locked
    /\ stamp' = [stamp EXCEPT ![r] = clock]
    /\ pc' = [pc EXCEPT ![r] = "released"]
    /\ UNCHANGED <<storeVars, clock, key, staged, got, late, out>>

ReleaseRecord(r) ==
    /\ At(r, "released")
    /\ UpdateStatus(key[r], "released")
    /\ Go(r, "touchReleased")
    /\ UNCHANGED <<disk, pins, currentBytes, mu, clock>>

ReleaseTouch(r) ==
    /\ At(r, "touchReleased")
    /\ Touch(key[r], stamp[r])
    /\ Go(r, "stream")
    /\ UNCHANGED <<disk, pins, currentBytes, mu, clock>>

Deliver(r) ==
    /\ At(r, "stream")
    /\ got' = [got EXCEPT ![r] = disk[key[r]]]
    /\ pc' = [pc EXCEPT ![r] = "close"]
    /\ UNCHANGED <<storeVars, clock, key, stamp, staged, late, out>>

\* The deferred releaseStream.Close.
StreamClose(r) ==
    /\ At(r, "close") /\ Locked
    /\ Unpin(key[r])
    /\ Answer(r, "delivered")
    /\ UNCHANGED <<disk, meta, currentBytes, mu, clock>>

-----------------------------------------------------------------------------
(* Everything that is not a request.                                       *)

\* DiskBlobStore.Delete; ErrBlobPinned is its only refusal.
Delete(k) ==
    /\ DeleteAllowed
    /\ Locked
    /\ pins[k] = 0
    /\ Exists(k) \/ meta[k] # NoMeta
    /\ currentBytes' = IF ~Exists(k) THEN currentBytes
                       ELSE IF currentBytes < Size[k] THEN 0
                       ELSE currentBytes - Size[k]
    /\ Remove(k)
    /\ UNCHANGED <<pins, mu, clock, requestVars>>

Tick ==
    /\ clock < MaxTime
    /\ clock' = clock + 1
    /\ UNCHANGED <<storeVars, requestVars>>

\* The environment: the file keeps its length and loses its content.
Corrupt(k) ==
    /\ CorruptAllowed
    /\ disk[k] = "good"
    /\ disk' = [disk EXCEPT ![k] = "bad"]
    /\ late' = [r \in Requests |->
                  late[r] \/ (key[r] = k /\
                              pc[r] \in {"reopen", "released", "touchReleased", "stream"})]
    /\ UNCHANGED <<meta, pins, currentBytes, mu, clock, pc, key, stamp, staged, got, out>>

\* The process dies and NewDiskBlobStore runs again: blobs survive, staging
\* files are removed, the byte count is taken from the directory, and the
\* metadata store starts empty.
Crash ==
    /\ CrashAllowed
    /\ meta' = [k \in Keys |-> NoMeta]
    /\ pins' = [k \in Keys |-> 0]
    /\ currentBytes' = BytesOf(OnDisk)
    /\ mu' = NoReq
    /\ pc' = [r \in Requests |-> "idle"]
    /\ key' = [r \in Requests |-> NoKey]
    /\ stamp' = [r \in Requests |-> 0]
    /\ staged' = [r \in Requests |-> "absent"]
    /\ got' = [r \in Requests |-> "absent"]
    /\ late' = [r \in Requests |-> FALSE]
    /\ out' = [r \in Requests |-> "none"]
    /\ UNCHANGED <<disk, clock>>

-----------------------------------------------------------------------------
Ingest(r) ==
    \/ IngestHas(r) \/ IngestPinExisting(r) \/ IngestTouch(r)
    \/ PutCheck(r) \/ PutStage(r) \/ PutStageFail(r)
    \/ MismatchRecord(r) \/ PutLock(r) \/ EvictOne(r) \/ EvictFail(r)
    \/ PutRename(r) \/ PutRenameFail(r) \/ IngestPin(r) \/ PinFail(r)
    \/ IngestRecord(r)

Inspect(r) ==
    InspectRead(r) \/ InspectUnpin(r) \/ InspectReject(r) \/ PostCheckDeny(r)

VerifyAndRelease(r) ==
    \/ ReleasePin(r) \/ ReleaseVerify(r) \/ ReleaseReject(r) \/ ReleaseBlock(r)
    \/ ReleaseReopen(r) \/ ReleaseRecord(r) \/ ReleaseTouch(r)
    \/ Deliver(r) \/ StreamClose(r)

\* What a handler does once it has called Ingest.
Proceed(r) == Ingest(r) \/ Inspect(r) \/ VerifyAndRelease(r)

Next ==
    \/ \E r \in Requests : Refuse(r) \/ Proceed(r) \/ \E k \in Keys : Begin(r, k)
    \/ \E k \in Keys : Delete(k) \/ Corrupt(k)
    \/ Tick
    \/ Crash

Spec == Init /\ [][Next]_vars

\* A handler that called Ingest goes on until it answers: reads from upstream
\* and writes to the client are cut off by their timeouts, and Go's mutex
\* serves a waiting goroutine first after a millisecond, so contention for mu
\* starves nobody.  Nothing obliges a request to arrive.
Fairness == \A r \in Requests : SF_vars(Proceed(r))
FairSpec == Spec /\ Fairness

-----------------------------------------------------------------------------
(* Properties.                                                             *)

\* currentBytes is the sum of the sizes of the blobs on disk at every point,
\* whatever ingestions, evictions, deletions and restarts raced: the budget
\* test of putInternal compares the real usage.
AccountingExact == currentBytes = BytesOf(OnDisk)

\* The blobs on disk never exceed DiskBudget.MaxBytes, though every request
\* checks the room and commits on its own.
BudgetRespected == BytesOf(OnDisk) <= MaxBytes

\* The pin count of a blob is the number of requests that still owe an unpin:
\* no path of Ingest, Inspect or VerifyAndRelease leaks a pin or returns one
\* twice.
PinsExact == \A k \in Keys : pins[k] = Cardinality(Holders(k))

\* A request between its Pin and its unpin finds its blob on disk: neither
\* eviction nor Delete takes it ("eviction can NEVER evict a blob
\* mid-release"), although the pin is given up and taken again on the way.
LeaseSafety == \A r \in Requests : pc[r] \in PinnedAt => disk[key[r]] # "absent"

\* Without outside interference blobs/ only ever holds bytes that hash to
\* their key, also after a crash at any point of an ingestion.
NothingUnverifiedOnDisk == ~CorruptAllowed => \A k \in Keys : disk[k] # "bad"

\* Content that inspection rejects is neither delivered nor recorded as
\* inspected or released, even when it entered the store for an earlier
\* request and the later one only reuses the blob.
HazardousNeverReleased ==
    ~CorruptAllowed =>
        /\ \A r \in Requests : got[r] # "absent" => key[r] \notin Hazardous
        /\ \A k \in Hazardous :
              meta[k] # NoMeta => meta[k].status \notin {"inspected", "released"}

\* Bytes that do not hash to the expected digest reach a client only if they
\* changed after the second verification: every corruption before it, at any
\* point between download and release, is caught.
DeliveredIsAuthentic ==
    \A r \in Requests : got[r] # "absent" => (got[r] = "good" \/ late[r])

\* A blob that is on disk and in nobody's hands: no pin, and no request that
\* has just committed it and is about to pin it.
Unclaimed(k) ==
    /\ disk[k] # "absent" /\ pins[k] = 0
    /\ ~\E r \in Requests : pc[r] = "pinNew" /\ key[r] = k

\* ErrBudgetExceeded ("active blobs are pinned mid-inspection or mid-release")
\* is only answered when that is so: every blob on disk is in use.
BudgetErrorJustified ==
    [][\A r \in Requests :
          (out[r] # "budget" /\ out'[r] = "budget") => \A k \in Keys : ~Unclaimed(k)]_vars

\* Every request that called Ingest is answered.
RequestsAnswered == \A r \in Requests : pc[r] # "idle" ~> pc[r] = "idle"
=============================================================================
