-------------------------- MODULE QuarantineProofs --------------------------
(***************************************************************************)
(* Proofs about Quarantine, for every set of keys and requests, every      *)
(* budget and every clock.                                                 *)
(*                                                                         *)
(* PinInv couples three facts none of which is inductive alone: a pin      *)
(* count stays natural only because it counts the holders, a blob stays    *)
(* on disk only because eviction reads an exact pin count, and a commit    *)
(* puts a blob on disk only because verified bytes are staged.             *)
(***************************************************************************)
EXTENDS Quarantine, FiniteSetTheorems, WellFoundedInduction, TLAPS

USE KeysAssumption, SizeAssumption, BudgetAssumption, RequestsAssumption,
    TimeAssumption, HazardAssumption, FlagsAssumption

\* A request commits only bytes it has verified (putInternal).
StagedVerified ==
    \A r \in Requests : pc[r] \in {"commit", "evict"} => staged[r] = "good"

PinInv == ShapeOK /\ PinsExact /\ LeaseSafety /\ StagedVerified

-----------------------------------------------------------------------------
(* Counting holders.                                                       *)

\* Nobody but r moves.
OnlyMoves(r) ==
    \A q \in Requests \ {r} : pc'[q] = pc[q] /\ key'[q] = key[q]

\* The holders of a blob are finitely many.
LEMMA HoldersFinite ==
    ASSUME NEW k \in Keys
    PROVE  IsFiniteSet(Holders(k)) /\ Cardinality(Holders(k)) \in Nat
<1>1. Holders(k) \subseteq Requests
  BY DEF Holders
<1>2. IsFiniteSet(Holders(k))
  BY <1>1, FS_Subset
<1> QED
  BY <1>2, FS_CardinalityType

\* A blob with a holder has a positive pin count (Pin and unpin).
LEMMA HolderPins ==
    ASSUME ShapeOK, PinsExact, NEW r \in Requests, pc[r] \in PinnedAt
    PROVE  key[r] \in Keys /\ pins[key[r]] \in Nat \ {0}
<1>1. key[r] \in Keys
  BY DEF ShapeOK, PinnedAt
<1>2. r \in Holders(key[r])
  BY DEF Holders
<1>3. Cardinality(Holders(key[r])) # 0
  BY <1>1, <1>2, HoldersFinite, FS_EmptySet
<1> QED
  BY <1>1, <1>3, HoldersFinite DEF PinsExact

\* A step of r that neither pins nor unpins leaves the count exact.
LEMMA CountSame ==
    ASSUME PinsExact, NEW r \in Requests, OnlyMoves(r), pins' = pins,
           pc[r] \in PinnedAt <=> pc'[r] \in PinnedAt,
           pc[r] \in PinnedAt => key'[r] = key[r]
    PROVE  PinsExact'
<1> SUFFICES ASSUME NEW k \in Keys
             PROVE  Holders(k)' = Holders(k)
  BY DEF PinsExact
<1> QED
  BY DEF Holders, OnlyMoves

\* Pin adds r to the holders of its blob.
LEMMA CountPin ==
    ASSUME ShapeOK, PinsExact, NEW r \in Requests, OnlyMoves(r), Pin(key[r]),
           key[r] \in Keys, key'[r] = key[r],
           pc[r] \notin PinnedAt, pc'[r] \in PinnedAt
    PROVE  PinsExact'
<1> SUFFICES ASSUME NEW k \in Keys
             PROVE  pins'[k] = Cardinality(Holders(k)')
  BY DEF PinsExact
<1>1. CASE k # key[r]
  <2>1. Holders(k)' = Holders(k)
    BY <1>1 DEF Holders, OnlyMoves
  <2>2. pins'[k] = pins[k]
    BY <1>1 DEF Pin, ShapeOK
  <2> QED
    BY <2>1, <2>2 DEF PinsExact
<1>2. CASE k = key[r]
  <2>1. Holders(k)' = Holders(k) \cup {r}
    BY <1>2 DEF Holders, OnlyMoves
  <2>2. r \notin Holders(k)
    BY DEF Holders
  <2>3. Cardinality(Holders(k)') = Cardinality(Holders(k)) + 1
    BY <2>1, <2>2, HoldersFinite, FS_AddElement
  <2>4. pins'[k] = pins[k] + 1
    BY <1>2 DEF Pin, ShapeOK
  <2> QED
    BY <2>3, <2>4 DEF PinsExact
<1> QED
  BY <1>1, <1>2

\* Unpin takes r from the holders of its blob.
LEMMA CountUnpin ==
    ASSUME ShapeOK, PinsExact, NEW r \in Requests, OnlyMoves(r), Unpin(key[r]),
           pc[r] \in PinnedAt, pc'[r] \notin PinnedAt
    PROVE  PinsExact'
<1> SUFFICES ASSUME NEW k \in Keys
             PROVE  pins'[k] = Cardinality(Holders(k)')
  BY DEF PinsExact
<1>1. CASE k # key[r]
  <2>1. Holders(k)' = Holders(k)
    BY <1>1 DEF Holders, OnlyMoves
  <2>2. pins'[k] = pins[k]
    BY <1>1 DEF Unpin, ShapeOK
  <2> QED
    BY <2>1, <2>2 DEF PinsExact
<1>2. CASE k = key[r]
  <2>1. Holders(k)' = Holders(k) \ {r}
    BY <1>2 DEF Holders, OnlyMoves
  <2>2. r \in Holders(k)
    BY <1>2 DEF Holders
  <2>3. Cardinality(Holders(k)') = Cardinality(Holders(k)) - 1
    BY <2>1, <2>2, HoldersFinite, FS_RemoveElement
  <2>4. pins'[k] = pins[k] - 1
    BY <1>2 DEF Unpin, ShapeOK
  <2> QED
    BY <2>3, <2>4 DEF PinsExact
<1> QED
  BY <1>1, <1>2

-----------------------------------------------------------------------------
(* Types.                                                                  *)

\* The unpin of a request that owes one leaves a natural number.
LEMMA UnpinTyped ==
    ASSUME ShapeOK, PinsExact, NEW r \in Requests, pc[r] \in PinnedAt, Unpin(key[r])
    PROVE  pins' \in [Keys -> Nat]
<1>1. key[r] \in Keys /\ pins[key[r]] - 1 \in Nat
  BY HolderPins
<1>2. pins \in [Keys -> Nat]
  BY DEF ShapeOK
<1> QED
  BY <1>1, <1>2 DEF Unpin

\* Every step keeps every variable but the byte count in its type.
LEMMA ShapeStep ==
    ASSUME ShapeOK, PinsExact, [Next]_vars
    PROVE  ShapeOK'
<1> USE DEF ShapeOK, Points, PinnedAt, Content, Status, Answers, Time, BlobMetadata,
            At, Locked, Exists, vars, storeVars, requestVars
<1>1. ASSUME NEW r \in Requests, Refuse(r) PROVE ShapeOK'
  BY <1>1 DEF Refuse, Answer
<1>2. ASSUME NEW r \in Requests, NEW k \in Keys, Begin(r, k) PROVE ShapeOK'
  BY <1>2 DEF Begin
<1>3. ASSUME NEW r \in Requests, IngestHas(r) PROVE ShapeOK'
  BY <1>3 DEF IngestHas, Go
<1>4. ASSUME NEW r \in Requests, IngestPinExisting(r) PROVE ShapeOK'
  BY <1>4 DEF IngestPinExisting, Go, Pin
<1>5. ASSUME NEW r \in Requests, IngestTouch(r) PROVE ShapeOK'
  BY <1>5 DEF IngestTouch, Go, Touch
<1>6. ASSUME NEW r \in Requests, PutCheck(r) PROVE ShapeOK'
  BY <1>6 DEF PutCheck, Go
<1>7. ASSUME NEW r \in Requests, PutStage(r) PROVE ShapeOK'
  BY <1>7 DEF PutStage
<1>8. ASSUME NEW r \in Requests, PutStageFail(r) PROVE ShapeOK'
  BY <1>8 DEF PutStageFail, Answer
<1>9. ASSUME NEW r \in Requests, MismatchRecord(r) PROVE ShapeOK'
  BY <1>9 DEF MismatchRecord, Answer, MetaPut
<1>10. ASSUME NEW r \in Requests, PutLock(r) PROVE ShapeOK'
  BY <1>10 DEF PutLock
<1>11. ASSUME NEW r \in Requests, EvictOne(r) PROVE ShapeOK'
  BY <1>11 DEF EvictOne, Remove, EvictionCandidates, Evictable
<1>12. ASSUME NEW r \in Requests, EvictFail(r) PROVE ShapeOK'
  BY <1>12 DEF EvictFail, Answer
<1>13. ASSUME NEW r \in Requests, PutRename(r) PROVE ShapeOK'
  BY <1>13 DEF PutRename
<1>14. ASSUME NEW r \in Requests, PutRenameFail(r) PROVE ShapeOK'
  BY <1>14 DEF PutRenameFail, Answer
<1>15. ASSUME NEW r \in Requests, IngestPin(r) PROVE ShapeOK'
  BY <1>15 DEF IngestPin, Go, Pin
<1>16. ASSUME NEW r \in Requests, PinFail(r) PROVE ShapeOK'
  BY <1>16 DEF PinFail, Answer
<1>17. ASSUME NEW r \in Requests, IngestRecord(r) PROVE ShapeOK'
  BY <1>17 DEF IngestRecord, Go, MetaPut
<1>18. ASSUME NEW r \in Requests, InspectRead(r) PROVE ShapeOK'
  BY <1>18 DEF InspectRead, UpdateStatus, Verdicts
<1>19. ASSUME NEW r \in Requests, InspectUnpin(r) PROVE ShapeOK'
  <2>1. pins' \in [Keys -> Nat]
    BY <1>19, UnpinTyped DEF InspectUnpin
  <2> QED
    BY <1>19, <2>1 DEF InspectUnpin, Go
<1>20. ASSUME NEW r \in Requests, InspectReject(r) PROVE ShapeOK'
  <2>1. pins' \in [Keys -> Nat]
    BY <1>20, UnpinTyped DEF InspectReject
  <2> QED
    BY <1>20, <2>1 DEF InspectReject, Answer
<1>21. ASSUME NEW r \in Requests, PostCheckDeny(r) PROVE ShapeOK'
  BY <1>21 DEF PostCheckDeny, Answer
<1>22. ASSUME NEW r \in Requests, ReleasePin(r) PROVE ShapeOK'
  BY <1>22 DEF ReleasePin, Go, Pin
<1>23. ASSUME NEW r \in Requests, ReleaseVerify(r) PROVE ShapeOK'
  BY <1>23 DEF ReleaseVerify, Go
<1>24. ASSUME NEW r \in Requests, ReleaseReject(r) PROVE ShapeOK'
  <2>1. pins' \in [Keys -> Nat]
    BY <1>24, UnpinTyped DEF ReleaseReject
  <2> QED
    BY <1>24, <2>1 DEF ReleaseReject, Go
<1>25. ASSUME NEW r \in Requests, ReleaseBlock(r) PROVE ShapeOK'
  BY <1>25 DEF ReleaseBlock, Answer, UpdateStatus
<1>26. ASSUME NEW r \in Requests, ReleaseReopen(r) PROVE ShapeOK'
  BY <1>26 DEF ReleaseReopen
<1>27. ASSUME NEW r \in Requests, ReleaseRecord(r) PROVE ShapeOK'
  BY <1>27 DEF ReleaseRecord, Go, UpdateStatus
<1>28. ASSUME NEW r \in Requests, ReleaseTouch(r) PROVE ShapeOK'
  BY <1>28 DEF ReleaseTouch, Go, Touch
<1>29. ASSUME NEW r \in Requests, Deliver(r) PROVE ShapeOK'
  BY <1>29 DEF Deliver
<1>30. ASSUME NEW r \in Requests, StreamClose(r) PROVE ShapeOK'
  <2>1. pins' \in [Keys -> Nat]
    BY <1>30, UnpinTyped DEF StreamClose
  <2> QED
    BY <1>30, <2>1 DEF StreamClose, Answer
<1>31. ASSUME NEW k \in Keys, Delete(k) PROVE ShapeOK'
  BY <1>31 DEF Delete, Remove
<1>32. ASSUME NEW k \in Keys, Corrupt(k) PROVE ShapeOK'
  BY <1>32 DEF Corrupt
<1>33. CASE Tick
  BY <1>33 DEF Tick
<1>34. CASE Crash
  BY <1>34 DEF Crash
<1>35. CASE UNCHANGED vars
  BY <1>35
<1> QED
  BY <1>1, <1>2, <1>3, <1>4, <1>5, <1>6, <1>7, <1>8, <1>9, <1>10, <1>11, <1>12, <1>13,
     <1>14, <1>15, <1>16, <1>17, <1>18, <1>19, <1>20, <1>21, <1>22, <1>23, <1>24,
     <1>25, <1>26, <1>27, <1>28, <1>29, <1>30, <1>31, <1>32, <1>33, <1>34, <1>35
     DEF Next, Proceed, Ingest, Inspect, VerifyAndRelease

-----------------------------------------------------------------------------
(* Pins.                                                                   *)

\* Every step keeps the pin counts exact.
LEMMA PinsStep ==
    ASSUME ShapeOK, PinsExact, [Next]_vars
    PROVE  PinsExact'
<1> USE DEF ShapeOK, OnlyMoves, At, Points, storeVars
<1>1. ASSUME NEW r \in Requests, Refuse(r) PROVE PinsExact'
  BY <1>1, CountSame DEF Refuse, Answer, PinnedAt
<1>2. ASSUME NEW r \in Requests, NEW k \in Keys, Begin(r, k) PROVE PinsExact'
  BY <1>2, CountSame DEF Begin, PinnedAt
<1>3. ASSUME NEW r \in Requests, IngestHas(r) PROVE PinsExact'
  BY <1>3, CountSame DEF IngestHas, Go, PinnedAt
<1>4. ASSUME NEW r \in Requests, IngestPinExisting(r) PROVE PinsExact'
  BY <1>4, CountPin DEF IngestPinExisting, Go, PinnedAt
<1>5. ASSUME NEW r \in Requests, IngestTouch(r) PROVE PinsExact'
  BY <1>5, CountSame DEF IngestTouch, Go, PinnedAt
<1>6. ASSUME NEW r \in Requests, PutCheck(r) PROVE PinsExact'
  BY <1>6, CountSame DEF PutCheck, Go, PinnedAt
<1>7. ASSUME NEW r \in Requests, PutStage(r) PROVE PinsExact'
  BY <1>7, CountSame DEF PutStage, PinnedAt
<1>8. ASSUME NEW r \in Requests, PutStageFail(r) PROVE PinsExact'
  BY <1>8, CountSame DEF PutStageFail, Answer, PinnedAt
<1>9. ASSUME NEW r \in Requests, MismatchRecord(r) PROVE PinsExact'
  BY <1>9, CountSame DEF MismatchRecord, Answer, PinnedAt
<1>10. ASSUME NEW r \in Requests, PutLock(r) PROVE PinsExact'
  BY <1>10, CountSame DEF PutLock, PinnedAt
<1>11. ASSUME NEW r \in Requests, EvictOne(r) PROVE PinsExact'
  BY <1>11, CountSame DEF EvictOne, requestVars, PinnedAt
<1>12. ASSUME NEW r \in Requests, EvictFail(r) PROVE PinsExact'
  BY <1>12, CountSame DEF EvictFail, Answer, PinnedAt
<1>13. ASSUME NEW r \in Requests, PutRename(r) PROVE PinsExact'
  BY <1>13, CountSame DEF PutRename, PinnedAt
<1>14. ASSUME NEW r \in Requests, PutRenameFail(r) PROVE PinsExact'
  BY <1>14, CountSame DEF PutRenameFail, Answer, PinnedAt
<1>15. ASSUME NEW r \in Requests, IngestPin(r) PROVE PinsExact'
  BY <1>15, CountPin DEF IngestPin, Go, PinnedAt
<1>16. ASSUME NEW r \in Requests, PinFail(r) PROVE PinsExact'
  BY <1>16, CountSame DEF PinFail, Answer, PinnedAt
<1>17. ASSUME NEW r \in Requests, IngestRecord(r) PROVE PinsExact'
  BY <1>17, CountSame DEF IngestRecord, Go, PinnedAt
<1>18. ASSUME NEW r \in Requests, InspectRead(r) PROVE PinsExact'
  BY <1>18, CountSame DEF InspectRead, PinnedAt
<1>19. ASSUME NEW r \in Requests, InspectUnpin(r) PROVE PinsExact'
  BY <1>19, CountUnpin DEF InspectUnpin, Go, PinnedAt
<1>20. ASSUME NEW r \in Requests, InspectReject(r) PROVE PinsExact'
  BY <1>20, CountUnpin DEF InspectReject, Answer, PinnedAt
<1>21. ASSUME NEW r \in Requests, PostCheckDeny(r) PROVE PinsExact'
  BY <1>21, CountSame DEF PostCheckDeny, Answer, PinnedAt
<1>22. ASSUME NEW r \in Requests, ReleasePin(r) PROVE PinsExact'
  BY <1>22, CountPin DEF ReleasePin, Go, PinnedAt
<1>23. ASSUME NEW r \in Requests, ReleaseVerify(r) PROVE PinsExact'
  BY <1>23, CountSame DEF ReleaseVerify, Go, PinnedAt
<1>24. ASSUME NEW r \in Requests, ReleaseReject(r) PROVE PinsExact'
  BY <1>24, CountUnpin DEF ReleaseReject, Go, PinnedAt
<1>25. ASSUME NEW r \in Requests, ReleaseBlock(r) PROVE PinsExact'
  BY <1>25, CountSame DEF ReleaseBlock, Answer, PinnedAt
<1>26. ASSUME NEW r \in Requests, ReleaseReopen(r) PROVE PinsExact'
  BY <1>26, CountSame DEF ReleaseReopen, PinnedAt
<1>27. ASSUME NEW r \in Requests, ReleaseRecord(r) PROVE PinsExact'
  BY <1>27, CountSame DEF ReleaseRecord, Go, PinnedAt
<1>28. ASSUME NEW r \in Requests, ReleaseTouch(r) PROVE PinsExact'
  BY <1>28, CountSame DEF ReleaseTouch, Go, PinnedAt
<1>29. ASSUME NEW r \in Requests, Deliver(r) PROVE PinsExact'
  BY <1>29, CountSame DEF Deliver, PinnedAt
<1>30. ASSUME NEW r \in Requests, StreamClose(r) PROVE PinsExact'
  BY <1>30, CountUnpin DEF StreamClose, Answer, PinnedAt
<1>31. ASSUME NEW k \in Keys, Delete(k) PROVE PinsExact'
  BY <1>31 DEF Delete, PinsExact, Holders, requestVars
<1>32. ASSUME NEW k \in Keys, Corrupt(k) PROVE PinsExact'
  BY <1>32 DEF Corrupt, PinsExact, Holders
<1>33. CASE Tick
  BY <1>33 DEF Tick, PinsExact, Holders, requestVars
<1>34. CASE Crash
  <2> SUFFICES ASSUME NEW k \in Keys
               PROVE  pins'[k] = Cardinality(Holders(k)')
    BY DEF PinsExact
  <2>1. Holders(k)' = {}
    BY <1>34 DEF Crash, Holders, PinnedAt
  <2> QED
    BY <1>34, <2>1, FS_EmptySet DEF Crash
<1>35. CASE UNCHANGED vars
  BY <1>35 DEF vars, requestVars, PinsExact, Holders
<1> QED
  BY <1>1, <1>2, <1>3, <1>4, <1>5, <1>6, <1>7, <1>8, <1>9, <1>10, <1>11, <1>12, <1>13,
     <1>14, <1>15, <1>16, <1>17, <1>18, <1>19, <1>20, <1>21, <1>22, <1>23, <1>24,
     <1>25, <1>26, <1>27, <1>28, <1>29, <1>30, <1>31, <1>32, <1>33, <1>34, <1>35
     DEF Next, Proceed, Ingest, Inspect, VerifyAndRelease

\* A blob without pins is in no request's hands.
LEMMA UnpinnedUnheld ==
    ASSUME PinsExact, NEW k \in Keys, pins[k] = 0, NEW r \in Requests, pc[r] \in PinnedAt
    PROVE  key[r] # k
<1>1. Holders(k) = {}
  BY HoldersFinite, FS_EmptySet DEF PinsExact
<1> QED
  BY <1>1 DEF Holders

\* Every step leaves a pinned blob on disk and stages only verified bytes.
LEMMA LeaseStep ==
    ASSUME PinInv, [Next]_vars
    PROVE  LeaseSafety' /\ StagedVerified'
<1> USE DEF PinInv, ShapeOK, LeaseSafety, StagedVerified, PinnedAt, Points, At, Exists, storeVars
<1>1. ASSUME NEW r \in Requests, Refuse(r) PROVE LeaseSafety' /\ StagedVerified'
  BY <1>1 DEF Refuse, Answer
<1>2. ASSUME NEW r \in Requests, NEW k \in Keys, Begin(r, k) PROVE LeaseSafety' /\ StagedVerified'
  BY <1>2 DEF Begin
<1>3. ASSUME NEW r \in Requests, IngestHas(r) PROVE LeaseSafety' /\ StagedVerified'
  BY <1>3 DEF IngestHas, Go
<1>4. ASSUME NEW r \in Requests, IngestPinExisting(r) PROVE LeaseSafety' /\ StagedVerified'
  BY <1>4 DEF IngestPinExisting, Go
<1>5. ASSUME NEW r \in Requests, IngestTouch(r) PROVE LeaseSafety' /\ StagedVerified'
  BY <1>5 DEF IngestTouch, Go
<1>6. ASSUME NEW r \in Requests, PutCheck(r) PROVE LeaseSafety' /\ StagedVerified'
  BY <1>6 DEF PutCheck, Go
<1>7. ASSUME NEW r \in Requests, PutStage(r) PROVE LeaseSafety' /\ StagedVerified'
  BY <1>7 DEF PutStage
<1>8. ASSUME NEW r \in Requests, PutStageFail(r) PROVE LeaseSafety' /\ StagedVerified'
  BY <1>8 DEF PutStageFail, Answer
<1>9. ASSUME NEW r \in Requests, MismatchRecord(r) PROVE LeaseSafety' /\ StagedVerified'
  BY <1>9 DEF MismatchRecord, Answer
<1>10. ASSUME NEW r \in Requests, PutLock(r) PROVE LeaseSafety' /\ StagedVerified'
  BY <1>10 DEF PutLock
<1>11. ASSUME NEW r \in Requests, EvictOne(r) PROVE LeaseSafety' /\ StagedVerified'
  <2>1. PICK k \in EvictionCandidates : Remove(k)
    BY <1>11 DEF EvictOne
  <2>2. k \in Keys /\ pins[k] = 0
    BY <2>1 DEF EvictionCandidates, Evictable
  <2>3. \A q \in Requests : pc[q] \in PinnedAt => key[q] # k
    BY <2>2, UnpinnedUnheld
  <2> QED
    BY <1>11, <2>1, <2>2, <2>3 DEF EvictOne, requestVars, Remove
<1>12. ASSUME NEW r \in Requests, EvictFail(r) PROVE LeaseSafety' /\ StagedVerified'
  BY <1>12 DEF EvictFail, Answer
<1>13. ASSUME NEW r \in Requests, PutRename(r) PROVE LeaseSafety' /\ StagedVerified'
  BY <1>13 DEF PutRename
<1>14. ASSUME NEW r \in Requests, PutRenameFail(r) PROVE LeaseSafety' /\ StagedVerified'
  BY <1>14 DEF PutRenameFail, Answer
<1>15. ASSUME NEW r \in Requests, IngestPin(r) PROVE LeaseSafety' /\ StagedVerified'
  BY <1>15 DEF IngestPin, Go
<1>16. ASSUME NEW r \in Requests, PinFail(r) PROVE LeaseSafety' /\ StagedVerified'
  BY <1>16 DEF PinFail, Answer
<1>17. ASSUME NEW r \in Requests, IngestRecord(r) PROVE LeaseSafety' /\ StagedVerified'
  BY <1>17 DEF IngestRecord, Go
<1>18. ASSUME NEW r \in Requests, InspectRead(r) PROVE LeaseSafety' /\ StagedVerified'
  BY <1>18 DEF InspectRead
<1>19. ASSUME NEW r \in Requests, InspectUnpin(r) PROVE LeaseSafety' /\ StagedVerified'
  BY <1>19 DEF InspectUnpin, Go
<1>20. ASSUME NEW r \in Requests, InspectReject(r) PROVE LeaseSafety' /\ StagedVerified'
  BY <1>20 DEF InspectReject, Answer
<1>21. ASSUME NEW r \in Requests, PostCheckDeny(r) PROVE LeaseSafety' /\ StagedVerified'
  BY <1>21 DEF PostCheckDeny, Answer
<1>22. ASSUME NEW r \in Requests, ReleasePin(r) PROVE LeaseSafety' /\ StagedVerified'
  BY <1>22 DEF ReleasePin, Go
<1>23. ASSUME NEW r \in Requests, ReleaseVerify(r) PROVE LeaseSafety' /\ StagedVerified'
  BY <1>23 DEF ReleaseVerify, Go
<1>24. ASSUME NEW r \in Requests, ReleaseReject(r) PROVE LeaseSafety' /\ StagedVerified'
  BY <1>24 DEF ReleaseReject, Go
<1>25. ASSUME NEW r \in Requests, ReleaseBlock(r) PROVE LeaseSafety' /\ StagedVerified'
  BY <1>25 DEF ReleaseBlock, Answer
<1>26. ASSUME NEW r \in Requests, ReleaseReopen(r) PROVE LeaseSafety' /\ StagedVerified'
  BY <1>26 DEF ReleaseReopen
<1>27. ASSUME NEW r \in Requests, ReleaseRecord(r) PROVE LeaseSafety' /\ StagedVerified'
  BY <1>27 DEF ReleaseRecord, Go
<1>28. ASSUME NEW r \in Requests, ReleaseTouch(r) PROVE LeaseSafety' /\ StagedVerified'
  BY <1>28 DEF ReleaseTouch, Go
<1>29. ASSUME NEW r \in Requests, Deliver(r) PROVE LeaseSafety' /\ StagedVerified'
  BY <1>29 DEF Deliver
<1>30. ASSUME NEW r \in Requests, StreamClose(r) PROVE LeaseSafety' /\ StagedVerified'
  BY <1>30 DEF StreamClose, Answer
<1>31. ASSUME NEW k \in Keys, Delete(k) PROVE LeaseSafety' /\ StagedVerified'
  <2>1. \A q \in Requests : pc[q] \in PinnedAt => key[q] # k
    BY <1>31, UnpinnedUnheld DEF Delete
  <2> QED
    BY <1>31, <2>1 DEF Delete, requestVars, Remove
<1>32. ASSUME NEW k \in Keys, Corrupt(k) PROVE LeaseSafety' /\ StagedVerified'
  BY <1>32 DEF Corrupt
<1>33. CASE Tick
  BY <1>33 DEF Tick, requestVars
<1>34. CASE Crash
  BY <1>34 DEF Crash
<1>35. CASE UNCHANGED vars
  BY <1>35 DEF vars, requestVars
<1> QED
  BY <1>1, <1>2, <1>3, <1>4, <1>5, <1>6, <1>7, <1>8, <1>9, <1>10, <1>11, <1>12, <1>13,
     <1>14, <1>15, <1>16, <1>17, <1>18, <1>19, <1>20, <1>21, <1>22, <1>23, <1>24,
     <1>25, <1>26, <1>27, <1>28, <1>29, <1>30, <1>31, <1>32, <1>33, <1>34, <1>35
     DEF Next, Proceed, Ingest, Inspect, VerifyAndRelease

\* PinInv is an invariant of every instance, with crashes, corruption and
\* deletions allowed or not.
THEOREM PinInvariant == Spec => []PinInv
<1>1. Init => PinInv
  <2> SUFFICES ASSUME Init PROVE PinInv
    OBVIOUS
  <2>1. ShapeOK
    BY DEF Init, ShapeOK, Points, Content, Answers, Time
  <2>2. \A k \in Keys : Holders(k) = {}
    BY DEF Init, Holders, PinnedAt
  <2>3. PinsExact
    BY <2>2, FS_EmptySet DEF Init, PinsExact
  <2>4. LeaseSafety /\ StagedVerified
    BY DEF Init, LeaseSafety, StagedVerified, PinnedAt
  <2> QED
    BY <2>1, <2>3, <2>4 DEF PinInv
<1>2. PinInv /\ [Next]_vars => PinInv'
  BY ShapeStep, PinsStep, LeaseStep DEF PinInv
<1> QED
  BY <1>1, <1>2, PTL DEF Spec

\* The pin count of a blob is always the number of requests that still owe
\* an unpin (Pin, unpin, Ingest, Inspect, VerifyAndRelease).
THEOREM PinsAreExact == Spec => []PinsExact
<1>1. PinInv => PinsExact
  BY DEF PinInv
<1> QED
  BY <1>1, PinInvariant, PTL

\* A blob is never evicted or deleted while a request inspects or releases it
\* (evictOneCandidateLocked, Delete).
THEOREM PinnedBlobsStay == Spec => []LeaseSafety
<1>1. PinInv => LeaseSafety
  BY DEF PinInv
<1> QED
  BY <1>1, PinInvariant, PTL

-----------------------------------------------------------------------------
(* Verification and inspection, when nothing interferes with the disk.     *)

\* The program points between a clean inspection and the end of a release.
ReleasePath == {"inspUnpin", "post", "verify", "reopen", "released",
                "touchReleased", "stream", "close"}

\* Only content that passed inspection is on its way to a client.
Screened ==
    /\ \A r \in Requests : pc[r] \in ReleasePath => key[r] \notin Hazardous
    /\ \A r \in Requests : got[r] # "absent" => pc[r] = "close"
    /\ \A k \in Hazardous :
          meta[k] # NoMeta => meta[k].status \notin {"inspected", "released"}

ScreenInv == ~CorruptAllowed => (NothingUnverifiedOnDisk /\ Screened)

\* Every step keeps unverified bytes off the disk and unsafe content off the
\* release path.
LEMMA ScreenStep ==
    ASSUME PinInv, ScreenInv, ~CorruptAllowed, [Next]_vars
    PROVE  NothingUnverifiedOnDisk' /\ Screened'
<1> USE DEF PinInv, ShapeOK, ScreenInv, NothingUnverifiedOnDisk, Screened, StagedVerified, LeaseSafety,
            ReleasePath, PinnedAt, Points, Content, BlobMetadata, At, Exists, storeVars
<1>1. ASSUME NEW r \in Requests, Refuse(r) PROVE NothingUnverifiedOnDisk' /\ Screened'
  BY <1>1 DEF Refuse, Answer
<1>2. ASSUME NEW r \in Requests, NEW k \in Keys, Begin(r, k) PROVE NothingUnverifiedOnDisk' /\ Screened'
  BY <1>2 DEF Begin
<1>3. ASSUME NEW r \in Requests, IngestHas(r) PROVE NothingUnverifiedOnDisk' /\ Screened'
  BY <1>3 DEF IngestHas, Go
<1>4. ASSUME NEW r \in Requests, IngestPinExisting(r) PROVE NothingUnverifiedOnDisk' /\ Screened'
  BY <1>4 DEF IngestPinExisting, Go
<1>5. ASSUME NEW r \in Requests, IngestTouch(r) PROVE NothingUnverifiedOnDisk' /\ Screened'
  BY <1>5 DEF IngestTouch, Go, Touch
<1>6. ASSUME NEW r \in Requests, PutCheck(r) PROVE NothingUnverifiedOnDisk' /\ Screened'
  BY <1>6 DEF PutCheck, Go
<1>7. ASSUME NEW r \in Requests, PutStage(r) PROVE NothingUnverifiedOnDisk' /\ Screened'
  BY <1>7 DEF PutStage
<1>8. ASSUME NEW r \in Requests, PutStageFail(r) PROVE NothingUnverifiedOnDisk' /\ Screened'
  BY <1>8 DEF PutStageFail, Answer
<1>9. ASSUME NEW r \in Requests, MismatchRecord(r) PROVE NothingUnverifiedOnDisk' /\ Screened'
  BY <1>9 DEF MismatchRecord, Answer, MetaPut
<1>10. ASSUME NEW r \in Requests, PutLock(r) PROVE NothingUnverifiedOnDisk' /\ Screened'
  BY <1>10 DEF PutLock
<1>11. ASSUME NEW r \in Requests, EvictOne(r) PROVE NothingUnverifiedOnDisk' /\ Screened'
  BY <1>11 DEF EvictOne, requestVars, Remove, EvictionCandidates, Evictable
<1>12. ASSUME NEW r \in Requests, EvictFail(r) PROVE NothingUnverifiedOnDisk' /\ Screened'
  BY <1>12 DEF EvictFail, Answer
<1>13. ASSUME NEW r \in Requests, PutRename(r) PROVE NothingUnverifiedOnDisk' /\ Screened'
  BY <1>13 DEF PutRename
<1>14. ASSUME NEW r \in Requests, PutRenameFail(r) PROVE NothingUnverifiedOnDisk' /\ Screened'
  BY <1>14 DEF PutRenameFail, Answer
<1>15. ASSUME NEW r \in Requests, IngestPin(r) PROVE NothingUnverifiedOnDisk' /\ Screened'
  BY <1>15 DEF IngestPin, Go
<1>16. ASSUME NEW r \in Requests, PinFail(r) PROVE NothingUnverifiedOnDisk' /\ Screened'
  BY <1>16 DEF PinFail, Answer
<1>17. ASSUME NEW r \in Requests, IngestRecord(r) PROVE NothingUnverifiedOnDisk' /\ Screened'
  BY <1>17 DEF IngestRecord, Go, MetaPut
<1>18. ASSUME NEW r \in Requests, InspectRead(r) PROVE NothingUnverifiedOnDisk' /\ Screened'
  <2>1. disk[key[r]] = "good"
    BY <1>18 DEF InspectRead, LeaseSafety
  <2>2. PICK clean \in Verdicts(key[r]) :
              /\ UpdateStatus(key[r], IF clean THEN "inspected" ELSE "blocked")
              /\ pc' = [pc EXCEPT ![r] = IF clean THEN "inspUnpin" ELSE "flagged"]
    BY <1>18 DEF InspectRead
  <2>3. clean = (key[r] \notin Hazardous)
    BY <2>1, <2>2 DEF Verdicts
  <2>4. CASE key[r] \in Hazardous
    <3>1. UpdateStatus(key[r], "blocked") /\ pc' = [pc EXCEPT ![r] = "flagged"]
      BY <2>2, <2>3, <2>4, Zenon
    <3> QED
      BY <1>18, <3>1 DEF InspectRead, UpdateStatus
  <2>5. CASE key[r] \notin Hazardous
    <3>1. UpdateStatus(key[r], "inspected") /\ pc' = [pc EXCEPT ![r] = "inspUnpin"]
      BY <2>2, <2>3, <2>5, Zenon
    <3> QED
      BY <1>18, <2>5, <3>1 DEF InspectRead, UpdateStatus
  <2> QED
    BY <2>4, <2>5
<1>19. ASSUME NEW r \in Requests, InspectUnpin(r) PROVE NothingUnverifiedOnDisk' /\ Screened'
  BY <1>19 DEF InspectUnpin, Go
<1>20. ASSUME NEW r \in Requests, InspectReject(r) PROVE NothingUnverifiedOnDisk' /\ Screened'
  BY <1>20 DEF InspectReject, Answer
<1>21. ASSUME NEW r \in Requests, PostCheckDeny(r) PROVE NothingUnverifiedOnDisk' /\ Screened'
  BY <1>21 DEF PostCheckDeny, Answer
<1>22. ASSUME NEW r \in Requests, ReleasePin(r) PROVE NothingUnverifiedOnDisk' /\ Screened'
  BY <1>22 DEF ReleasePin, Go
<1>23. ASSUME NEW r \in Requests, ReleaseVerify(r) PROVE NothingUnverifiedOnDisk' /\ Screened'
  BY <1>23 DEF ReleaseVerify, Go
<1>24. ASSUME NEW r \in Requests, ReleaseReject(r) PROVE NothingUnverifiedOnDisk' /\ Screened'
  BY <1>24 DEF ReleaseReject, Go
<1>25. ASSUME NEW r \in Requests, ReleaseBlock(r) PROVE NothingUnverifiedOnDisk' /\ Screened'
  BY <1>25 DEF ReleaseBlock, Answer, UpdateStatus
<1>26. ASSUME NEW r \in Requests, ReleaseReopen(r) PROVE NothingUnverifiedOnDisk' /\ Screened'
  BY <1>26 DEF ReleaseReopen
<1>27. ASSUME NEW r \in Requests, ReleaseRecord(r) PROVE NothingUnverifiedOnDisk' /\ Screened'
  BY <1>27 DEF ReleaseRecord, Go, UpdateStatus
<1>28. ASSUME NEW r \in Requests, ReleaseTouch(r) PROVE NothingUnverifiedOnDisk' /\ Screened'
  BY <1>28 DEF ReleaseTouch, Go, Touch
<1>29. ASSUME NEW r \in Requests, Deliver(r) PROVE NothingUnverifiedOnDisk' /\ Screened'
  BY <1>29 DEF Deliver
<1>30. ASSUME NEW r \in Requests, StreamClose(r) PROVE NothingUnverifiedOnDisk' /\ Screened'
  BY <1>30 DEF StreamClose, Answer
<1>31. ASSUME NEW k \in Keys, Delete(k) PROVE NothingUnverifiedOnDisk' /\ Screened'
  BY <1>31 DEF Delete, Remove, requestVars
<1>32. ASSUME NEW k \in Keys, Corrupt(k) PROVE NothingUnverifiedOnDisk' /\ Screened'
  BY <1>32 DEF Corrupt
<1>33. CASE Tick
  BY <1>33 DEF Tick, requestVars
<1>34. CASE Crash
  BY <1>34 DEF Crash
<1>35. CASE UNCHANGED vars
  BY <1>35 DEF vars, requestVars
<1> QED
  BY <1>1, <1>2, <1>3, <1>4, <1>5, <1>6, <1>7, <1>8, <1>9, <1>10, <1>11, <1>12, <1>13,
     <1>14, <1>15, <1>16, <1>17, <1>18, <1>19, <1>20, <1>21, <1>22, <1>23, <1>24,
     <1>25, <1>26, <1>27, <1>28, <1>29, <1>30, <1>31, <1>32, <1>33, <1>34, <1>35
     DEF Next, Proceed, Ingest, Inspect, VerifyAndRelease

-----------------------------------------------------------------------------
(* Records, when the process does not crash.                               *)

\* A blob without a record belongs to a request that is about to write it.
RecordInv ==
    ~CrashAllowed =>
        \A k \in Keys : (disk[k] # "absent" /\ meta[k] = NoMeta) =>
            \E r \in Requests : pc[r] \in {"pinNew", "putMeta"} /\ key[r] = k

\* UpdateStatus, Touch and Put never lose a record, and Put leaves one.
LEMMA RecordKept ==
    ASSUME ShapeOK, NEW k \in Keys, NEW status \in Status, NEW t \in Time, NEW n \in Nat,
           UpdateStatus(k, status) \/ Touch(k, t) \/ MetaPut(k, n, status, t)
    PROVE  /\ \A j \in Keys : meta'[j] = NoMeta => meta[j] = NoMeta
           /\ MetaPut(k, n, status, t) => meta'[k] # NoMeta
<1> USE DEF ShapeOK
<1>1. CASE UpdateStatus(k, status) /\ meta[k] # NoMeta
  <2>1. [meta[k] EXCEPT !.status = status] \in BlobMetadata
    BY <1>1 DEF BlobMetadata
  <2> QED
    BY <1>1, <2>1, MetaAssumption DEF UpdateStatus
<1>2. CASE Touch(k, t) /\ meta[k] # NoMeta
  <2>1. [meta[k] EXCEPT !.accessed = t] \in BlobMetadata
    BY <1>2 DEF BlobMetadata
  <2> QED
    BY <1>2, <2>1, MetaAssumption DEF Touch
<1>3. CASE MetaPut(k, n, status, t)
  <2>1. [size |-> n, status |-> status, accessed |-> t] \in BlobMetadata
    BY DEF BlobMetadata
  <2> QED
    BY <1>3, <2>1, MetaAssumption DEF MetaPut
<1>4. CASE UNCHANGED meta /\ ~MetaPut(k, n, status, t)
  BY <1>4
<1> QED
  BY <1>1, <1>2, <1>3, <1>4 DEF UpdateStatus, Touch

\* Every step registers what it puts on disk, or leaves a request that will.
LEMMA RecordStep ==
    ASSUME PinInv, RecordInv, ~CrashAllowed, [Next]_vars
    PROVE  RecordInv'
<1> USE DEF PinInv, ShapeOK, RecordInv, LeaseSafety, PinnedAt, Points, Content, BlobMetadata,
            At, Exists, storeVars
<1>1. ASSUME NEW r \in Requests, Refuse(r) PROVE RecordInv'
  BY <1>1 DEF Refuse, Answer
<1>2. ASSUME NEW r \in Requests, NEW k \in Keys, Begin(r, k) PROVE RecordInv'
  BY <1>2 DEF Begin
<1>3. ASSUME NEW r \in Requests, IngestHas(r) PROVE RecordInv'
  BY <1>3 DEF IngestHas, Go
<1>4. ASSUME NEW r \in Requests, IngestPinExisting(r) PROVE RecordInv'
  BY <1>4 DEF IngestPinExisting, Go
<1>5. ASSUME NEW r \in Requests, IngestTouch(r) PROVE RecordInv'
  <2>1. \A j \in Keys : meta'[j] = NoMeta => meta[j] = NoMeta
    BY <1>5, RecordKept DEF IngestTouch, Status
  <2> QED
    BY <1>5, <2>1 DEF IngestTouch, Go
<1>6. ASSUME NEW r \in Requests, PutCheck(r) PROVE RecordInv'
  BY <1>6 DEF PutCheck, Go
<1>7. ASSUME NEW r \in Requests, PutStage(r) PROVE RecordInv'
  BY <1>7 DEF PutStage
<1>8. ASSUME NEW r \in Requests, PutStageFail(r) PROVE RecordInv'
  BY <1>8 DEF PutStageFail, Answer
<1>9. ASSUME NEW r \in Requests, MismatchRecord(r) PROVE RecordInv'
  <2>1. (\A j \in Keys : meta'[j] = NoMeta => meta[j] = NoMeta) /\ meta'[key[r]] # NoMeta
    BY <1>9, RecordKept DEF MismatchRecord, Status
  <2> QED
    BY <1>9, <2>1 DEF MismatchRecord, Answer
<1>10. ASSUME NEW r \in Requests, PutLock(r) PROVE RecordInv'
  BY <1>10 DEF PutLock
<1>11. ASSUME NEW r \in Requests, EvictOne(r) PROVE RecordInv'
  BY <1>11 DEF EvictOne, requestVars, Remove, EvictionCandidates, Evictable
<1>12. ASSUME NEW r \in Requests, EvictFail(r) PROVE RecordInv'
  BY <1>12 DEF EvictFail, Answer
<1>13. ASSUME NEW r \in Requests, PutRename(r) PROVE RecordInv'
  BY <1>13 DEF PutRename
<1>14. ASSUME NEW r \in Requests, PutRenameFail(r) PROVE RecordInv'
  BY <1>14 DEF PutRenameFail, Answer
<1>15. ASSUME NEW r \in Requests, IngestPin(r) PROVE RecordInv'
  BY <1>15 DEF IngestPin, Go
<1>16. ASSUME NEW r \in Requests, PinFail(r) PROVE RecordInv'
  BY <1>16 DEF PinFail, Answer
<1>17. ASSUME NEW r \in Requests, IngestRecord(r) PROVE RecordInv'
  <2>1. (\A j \in Keys : meta'[j] = NoMeta => meta[j] = NoMeta) /\ meta'[key[r]] # NoMeta
    BY <1>17, RecordKept DEF IngestRecord, Status
  <2> QED
    BY <1>17, <2>1 DEF IngestRecord, Go
<1>18. ASSUME NEW r \in Requests, InspectRead(r) PROVE RecordInv'
  <2>1. \A j \in Keys : meta'[j] = NoMeta => meta[j] = NoMeta
    BY <1>18, RecordKept DEF InspectRead, Status
  <2> QED
    BY <1>18, <2>1 DEF InspectRead
<1>19. ASSUME NEW r \in Requests, InspectUnpin(r) PROVE RecordInv'
  BY <1>19 DEF InspectUnpin, Go
<1>20. ASSUME NEW r \in Requests, InspectReject(r) PROVE RecordInv'
  BY <1>20 DEF InspectReject, Answer
<1>21. ASSUME NEW r \in Requests, PostCheckDeny(r) PROVE RecordInv'
  BY <1>21 DEF PostCheckDeny, Answer
<1>22. ASSUME NEW r \in Requests, ReleasePin(r) PROVE RecordInv'
  BY <1>22 DEF ReleasePin, Go
<1>23. ASSUME NEW r \in Requests, ReleaseVerify(r) PROVE RecordInv'
  BY <1>23 DEF ReleaseVerify, Go
<1>24. ASSUME NEW r \in Requests, ReleaseReject(r) PROVE RecordInv'
  BY <1>24 DEF ReleaseReject, Go
<1>25. ASSUME NEW r \in Requests, ReleaseBlock(r) PROVE RecordInv'
  <2>1. \A j \in Keys : meta'[j] = NoMeta => meta[j] = NoMeta
    BY <1>25, RecordKept DEF ReleaseBlock, Status
  <2> QED
    BY <1>25, <2>1 DEF ReleaseBlock, Answer
<1>26. ASSUME NEW r \in Requests, ReleaseReopen(r) PROVE RecordInv'
  BY <1>26 DEF ReleaseReopen
<1>27. ASSUME NEW r \in Requests, ReleaseRecord(r) PROVE RecordInv'
  <2>1. \A j \in Keys : meta'[j] = NoMeta => meta[j] = NoMeta
    BY <1>27, RecordKept DEF ReleaseRecord, Status
  <2> QED
    BY <1>27, <2>1 DEF ReleaseRecord, Go
<1>28. ASSUME NEW r \in Requests, ReleaseTouch(r) PROVE RecordInv'
  <2>1. \A j \in Keys : meta'[j] = NoMeta => meta[j] = NoMeta
    BY <1>28, RecordKept DEF ReleaseTouch, Status
  <2> QED
    BY <1>28, <2>1 DEF ReleaseTouch, Go
<1>29. ASSUME NEW r \in Requests, Deliver(r) PROVE RecordInv'
  BY <1>29 DEF Deliver
<1>30. ASSUME NEW r \in Requests, StreamClose(r) PROVE RecordInv'
  BY <1>30 DEF StreamClose, Answer
<1>31. ASSUME NEW k \in Keys, Delete(k) PROVE RecordInv'
  BY <1>31 DEF Delete, Remove, requestVars
<1>32. ASSUME NEW k \in Keys, Corrupt(k) PROVE RecordInv'
  BY <1>32 DEF Corrupt
<1>33. CASE Tick
  BY <1>33 DEF Tick, requestVars
<1>34. CASE Crash
  BY <1>34 DEF Crash
<1>35. CASE UNCHANGED vars
  BY <1>35 DEF vars, requestVars
<1> QED
  BY <1>1, <1>2, <1>3, <1>4, <1>5, <1>6, <1>7, <1>8, <1>9, <1>10, <1>11, <1>12, <1>13,
     <1>14, <1>15, <1>16, <1>17, <1>18, <1>19, <1>20, <1>21, <1>22, <1>23, <1>24,
     <1>25, <1>26, <1>27, <1>28, <1>29, <1>30, <1>31, <1>32, <1>33, <1>34, <1>35
     DEF Next, Proceed, Ingest, Inspect, VerifyAndRelease

-----------------------------------------------------------------------------
(* Authenticity.                                                           *)

\* Between the second verification and the last byte.
Verified == {"reopen", "released", "touchReleased", "stream"}

\* What a request has verified is what lies on disk and what it delivers,
\* unless the file changed after the verification.
AuthenticInv ==
    \A r \in Requests :
        /\ pc[r] \in Verified => disk[key[r]] = "good" \/ late[r]
        /\ got[r] # "absent" => got[r] = "good" \/ late[r]

\* Every step keeps verified bytes verified: eviction and Delete spare a pinned
\* blob, and a commit writes verified bytes.
LEMMA AuthenticStep ==
    ASSUME PinInv, AuthenticInv, [Next]_vars
    PROVE  AuthenticInv'
<1> USE DEF PinInv, ShapeOK, StagedVerified, AuthenticInv, Verified, At, storeVars
<1>1. ASSUME NEW r \in Requests, Refuse(r) PROVE AuthenticInv'
  BY <1>1 DEF Refuse, Answer
<1>2. ASSUME NEW r \in Requests, NEW k \in Keys, Begin(r, k) PROVE AuthenticInv'
  BY <1>2 DEF Begin
<1>3. ASSUME NEW r \in Requests, IngestHas(r) PROVE AuthenticInv'
  BY <1>3 DEF IngestHas, Go
<1>4. ASSUME NEW r \in Requests, IngestPinExisting(r) PROVE AuthenticInv'
  BY <1>4 DEF IngestPinExisting, Go
<1>5. ASSUME NEW r \in Requests, IngestTouch(r) PROVE AuthenticInv'
  BY <1>5 DEF IngestTouch, Go
<1>6. ASSUME NEW r \in Requests, PutCheck(r) PROVE AuthenticInv'
  BY <1>6 DEF PutCheck, Go
<1>7. ASSUME NEW r \in Requests, PutStage(r) PROVE AuthenticInv'
  BY <1>7 DEF PutStage
<1>8. ASSUME NEW r \in Requests, PutStageFail(r) PROVE AuthenticInv'
  BY <1>8 DEF PutStageFail, Answer
<1>9. ASSUME NEW r \in Requests, MismatchRecord(r) PROVE AuthenticInv'
  BY <1>9 DEF MismatchRecord, Answer
<1>10. ASSUME NEW r \in Requests, PutLock(r) PROVE AuthenticInv'
  BY <1>10 DEF PutLock
<1>11. ASSUME NEW r \in Requests, EvictOne(r) PROVE AuthenticInv'
  <2>1. PICK k \in EvictionCandidates : Remove(k)
    BY <1>11 DEF EvictOne
  <2>2. k \in Keys /\ pins[k] = 0
    BY DEF EvictionCandidates, Evictable
  <2>3. \A q \in Requests : pc[q] \in Verified => key[q] # k
    BY <2>2, UnpinnedUnheld DEF PinnedAt
  <2> QED
    BY <1>11, <2>1, <2>2, <2>3 DEF EvictOne, Remove, requestVars
<1>12. ASSUME NEW r \in Requests, EvictFail(r) PROVE AuthenticInv'
  BY <1>12 DEF EvictFail, Answer
<1>13. ASSUME NEW r \in Requests, PutRename(r) PROVE AuthenticInv'
  BY <1>13 DEF PutRename
<1>14. ASSUME NEW r \in Requests, PutRenameFail(r) PROVE AuthenticInv'
  BY <1>14 DEF PutRenameFail, Answer
<1>15. ASSUME NEW r \in Requests, IngestPin(r) PROVE AuthenticInv'
  BY <1>15 DEF IngestPin, Go
<1>16. ASSUME NEW r \in Requests, PinFail(r) PROVE AuthenticInv'
  BY <1>16 DEF PinFail, Answer
<1>17. ASSUME NEW r \in Requests, IngestRecord(r) PROVE AuthenticInv'
  BY <1>17 DEF IngestRecord, Go
<1>18. ASSUME NEW r \in Requests, InspectRead(r) PROVE AuthenticInv'
  BY <1>18 DEF InspectRead
<1>19. ASSUME NEW r \in Requests, InspectUnpin(r) PROVE AuthenticInv'
  BY <1>19 DEF InspectUnpin, Go
<1>20. ASSUME NEW r \in Requests, InspectReject(r) PROVE AuthenticInv'
  BY <1>20 DEF InspectReject, Answer
<1>21. ASSUME NEW r \in Requests, PostCheckDeny(r) PROVE AuthenticInv'
  BY <1>21 DEF PostCheckDeny, Answer
<1>22. ASSUME NEW r \in Requests, ReleasePin(r) PROVE AuthenticInv'
  BY <1>22 DEF ReleasePin, Go
<1>23. ASSUME NEW r \in Requests, ReleaseVerify(r) PROVE AuthenticInv'
  BY <1>23 DEF ReleaseVerify, Go
<1>24. ASSUME NEW r \in Requests, ReleaseReject(r) PROVE AuthenticInv'
  BY <1>24 DEF ReleaseReject, Go
<1>25. ASSUME NEW r \in Requests, ReleaseBlock(r) PROVE AuthenticInv'
  BY <1>25 DEF ReleaseBlock, Answer
<1>26. ASSUME NEW r \in Requests, ReleaseReopen(r) PROVE AuthenticInv'
  BY <1>26 DEF ReleaseReopen
<1>27. ASSUME NEW r \in Requests, ReleaseRecord(r) PROVE AuthenticInv'
  BY <1>27 DEF ReleaseRecord, Go
<1>28. ASSUME NEW r \in Requests, ReleaseTouch(r) PROVE AuthenticInv'
  BY <1>28 DEF ReleaseTouch, Go
<1>29. ASSUME NEW r \in Requests, Deliver(r) PROVE AuthenticInv'
  BY <1>29 DEF Deliver
<1>30. ASSUME NEW r \in Requests, StreamClose(r) PROVE AuthenticInv'
  BY <1>30 DEF StreamClose, Answer
<1>31. ASSUME NEW k \in Keys, Delete(k) PROVE AuthenticInv'
  <2>1. \A q \in Requests : pc[q] \in Verified => key[q] # k
    BY <1>31, UnpinnedUnheld DEF PinnedAt, Delete
  <2> QED
    BY <1>31, <2>1 DEF Delete, Remove, requestVars
<1>32. ASSUME NEW k \in Keys, Corrupt(k) PROVE AuthenticInv'
  <2> SUFFICES ASSUME NEW r \in Requests
               PROVE  /\ pc[r] \in Verified => disk'[key[r]] = "good" \/ late'[r]
                      /\ got[r] # "absent" => got[r] = "good" \/ late'[r]
    BY <1>32 DEF Corrupt
  <2>1. late[r] => late'[r]
    BY <1>32 DEF Corrupt
  <2>2. key[r] = k /\ pc[r] \in Verified => late'[r]
    BY <1>32 DEF Corrupt
  <2>3. key[r] # k /\ key[r] \in Keys => disk'[key[r]] = disk[key[r]]
    BY <1>32 DEF Corrupt
  <2>4. pc[r] \in Verified => key[r] \in Keys
    OBVIOUS
  <2> QED
    BY <2>1, <2>2, <2>3, <2>4
<1>33. CASE Tick
  BY <1>33 DEF Tick, requestVars
<1>34. CASE Crash
  BY <1>34 DEF Crash
<1>35. CASE UNCHANGED vars
  BY <1>35 DEF vars, requestVars
<1> QED
  BY <1>1, <1>2, <1>3, <1>4, <1>5, <1>6, <1>7, <1>8, <1>9, <1>10, <1>11, <1>12, <1>13,
     <1>14, <1>15, <1>16, <1>17, <1>18, <1>19, <1>20, <1>21, <1>22, <1>23, <1>24,
     <1>25, <1>26, <1>27, <1>28, <1>29, <1>30, <1>31, <1>32, <1>33, <1>34, <1>35
     DEF Next, Proceed, Ingest, Inspect, VerifyAndRelease

-----------------------------------------------------------------------------
(* The bytes of a set of blobs.  MapThenSumSet is a fold whose order nobody *)
(* knows: what it computes follows from its equation by taking a smallest  *)
(* set for which the claim fails.                                          *)

\* The element the fold takes next, and the equation it satisfies on the
\* subsets of U.
Some(s) == CHOOSE x \in s : TRUE
Solves(g, U) ==
    g = [s \in SUBSET U |-> IF s = {} THEN 0 ELSE Size[Some(s)] + g[s \ {Some(s)}]]

\* A nonempty family of subsets of a finite set has a minimal member: the
\* induction over sets that the lemmas below argue by.
LEMMA MinimalSet ==
    ASSUME NEW S, IsFiniteSet(S), NEW T, T \subseteq SUBSET S, T # {}
    PROVE  \E x \in T : \A y \in T : y \subseteq x => y = x
<1>1. IsWellFoundedOn(StrictSubsetOrdering(S), SUBSET S)
  BY FS_StrictSubsetOrderingWellFounded, FS_FiniteSubsetsOfFinite
<1>2. PICK x \in T : \A y \in T : ~ (<<y, x>> \in StrictSubsetOrdering(S))
  BY <1>1, WFMin
<1>3. \A y \in T : y \subseteq x => y = x
  BY <1>2 DEF StrictSubsetOrdering
<1> QED
  BY <1>3


\* One turn of the fold.
LEMMA SolvesAt ==
    ASSUME NEW g, NEW U, Solves(g, U), NEW s \in SUBSET U
    PROVE  /\ g[s] = IF s = {} THEN 0 ELSE Size[Some(s)] + g[s \ {Some(s)}]
           /\ s # {} => Some(s) \in s
<1>1. s # {} => Some(s) \in s
  BY DEF Some
<1>2. g[s] = IF s = {} THEN 0 ELSE Size[Some(s)] + g[s \ {Some(s)}]
  BY DEF Solves
<1> QED
  BY <1>1, <1>2

\* The equation determines the sum of every set it speaks of.
LEMMA SolutionsAgree ==
    ASSUME NEW U \in SUBSET Keys, NEW V \in SUBSET Keys, NEW g, NEW h,
           Solves(g, U), Solves(h, V), NEW s \in SUBSET (U \cap V)
    PROVE  g[s] = h[s]
<1> DEFINE Differ == {t \in SUBSET (U \cap V) : g[t] # h[t]}
<1> SUFFICES ASSUME Differ # {} PROVE FALSE
  OBVIOUS
<1>1. IsFiniteSet(U \cap V)
  BY FS_Subset
<1>2. PICK t \in Differ : \A y \in Differ : y \subseteq t => y = t
  <2>1. Differ \subseteq SUBSET (U \cap V)
    OBVIOUS
  <2> HIDE DEF Differ
  <2> QED
    BY <2>1, <1>1, MinimalSet
<1>3. t \in SUBSET U /\ t \in SUBSET V /\ g[t] # h[t]
  BY <1>2
<1>4. t # {}
  BY <1>3, SolvesAt
<1>5. Some(t) \in t
  BY <1>3, <1>4, SolvesAt
<1>6. t \ {Some(t)} \notin Differ
  BY <1>2, <1>5
<1>7. g[t \ {Some(t)}] = h[t \ {Some(t)}]
  BY <1>3, <1>6
<1> HIDE DEF Differ
<1> QED
  BY <1>3, <1>4, <1>7, SolvesAt

\* The function the fold of U is a value of.
Total(U) == CHOOSE g : Solves(g, U)

\* The equation has a solution.
LEMMA SolutionExists ==
    ASSUME NEW U \in SUBSET Keys
    PROVE  Solves(Total(U), U)
<1> DEFINE Unsolved == {V \in SUBSET Keys : ~\E g : Solves(g, V)}
<1>1. \A V \in SUBSET Keys : V \notin Unsolved => Solves(Total(V), V)
  BY DEF Total
<1> SUFFICES ASSUME Unsolved # {} PROVE FALSE
  BY <1>1
<1>2. PICK W \in Unsolved : \A V \in Unsolved : V \subseteq W => V = W
  <2>1. Unsolved \subseteq SUBSET Keys
    OBVIOUS
  <2> HIDE DEF Unsolved
  <2> QED
    BY <2>1, MinimalSet
<1>3. W \in SUBSET Keys /\ \A g : ~Solves(g, W)
  BY <1>2
<1>4. \A V \in SUBSET W : V # W => Solves(Total(V), V)
  BY <1>1, <1>2, <1>3
<1> HIDE DEF Unsolved
<1> DEFINE rest(s) == s \ {Some(s)}
           f == [s \in SUBSET W |->
                   IF s = {} THEN 0 ELSE Size[Some(s)] + Total(rest(s))[rest(s)]]
<1>5. \A s \in SUBSET W : s # {} => Some(s) \in s
  BY DEF Some
<1>6. ASSUME NEW t \in SUBSET W, t # W
      PROVE  f[t] = Total(t)[t]
  <2>1. Solves(Total(t), t)
    BY <1>4, <1>6
  <2>2. Total(t)[t] = IF t = {} THEN 0 ELSE Size[Some(t)] + Total(t)[rest(t)]
    BY <2>1, SolvesAt
  <2>3. ASSUME t # {} PROVE Total(t)[rest(t)] = Total(rest(t))[rest(t)]
    <3>1. rest(t) \in SUBSET W /\ rest(t) # W /\ rest(t) \in SUBSET (t \cap rest(t))
      BY <1>5, <2>3
    <3>2. Solves(Total(rest(t)), rest(t))
      BY <3>1, <1>4
    <3>3. t \in SUBSET Keys /\ rest(t) \in SUBSET Keys
      BY <1>3
    <3> HIDE DEF rest
    <3> QED
      BY <2>1, <3>1, <3>2, <3>3, SolutionsAgree
  <2> QED
    BY <2>2, <2>3
<1>7. ASSUME NEW s \in SUBSET W, s # {} PROVE f[rest(s)] = Total(rest(s))[rest(s)]
  <2>1. rest(s) \in SUBSET W /\ rest(s) # W
    BY <1>5, <1>7
  <2> HIDE DEF f, rest
  <2> QED
    BY <1>6, <2>1
<1>8. f = [s \in SUBSET W |-> IF s = {} THEN 0 ELSE Size[Some(s)] + f[rest(s)]]
  BY <1>7
<1>9. Solves(f, W)
  <2> HIDE DEF f
  <2> QED
    BY <1>8 DEF Solves
<1> QED
  BY <1>3, <1>9

\* The folds of a set and of its subset agree on the subset.
LEMMA TotalsAgree ==
    ASSUME NEW S \in SUBSET Keys, NEW R \in SUBSET S
    PROVE  Total(S)[R] = Total(R)[R]
<1>1. R \in SUBSET Keys /\ R \in SUBSET (S \cap R)
  OBVIOUS
<1>2. Solves(Total(S), S) /\ Solves(Total(R), R)
  BY <1>1, SolutionExists
<1> QED
  BY <1>1, <1>2, SolutionsAgree

\* The bytes of a set of blobs are its fold.
LEMMA BytesAreTotal ==
    ASSUME NEW S \in SUBSET Keys
    PROVE  BytesOf(S) = Total(S)[S]
BY DEF BytesOf, MapThenSumSet, MapThenFoldSet, Total, Solves, Some

\* No blobs, no bytes.
LEMMA BytesOfNothing == BytesOf({}) = 0
<1>1. Solves(Total({}), {})
  BY SolutionExists
<1>2. Total({})[{}] = 0
  BY <1>1, SolvesAt
<1> QED
  BY <1>2, BytesAreTotal

\* The bytes of some blobs are those of one of them and of the rest.
LEMMA BytesFold ==
    ASSUME NEW S \in SUBSET Keys, S # {}
    PROVE  Some(S) \in S /\ BytesOf(S) = Size[Some(S)] + BytesOf(S \ {Some(S)})
<1>1. Solves(Total(S), S)
  BY SolutionExists
<1>2. Some(S) \in S /\ Total(S)[S] = Size[Some(S)] + Total(S)[S \ {Some(S)}]
  BY <1>1, SolvesAt
<1>3. Total(S)[S \ {Some(S)}] = Total(S \ {Some(S)})[S \ {Some(S)}]
  BY TotalsAgree
<1>4. BytesOf(S \ {Some(S)}) = Total(S \ {Some(S)})[S \ {Some(S)}]
  BY BytesAreTotal
<1>5. BytesOf(S) = Total(S)[S]
  BY BytesAreTotal
<1> QED
  BY <1>2, <1>3, <1>4, <1>5

\* The sum is a natural number.
LEMMA BytesNatural ==
    ASSUME NEW S \in SUBSET Keys
    PROVE  BytesOf(S) \in Nat
<1> DEFINE Wrong == {T \in SUBSET Keys : BytesOf(T) \notin Nat}
<1> SUFFICES ASSUME Wrong # {} PROVE FALSE
  OBVIOUS
<1>1. PICK T \in Wrong : \A U \in Wrong : U \subseteq T => U = T
  <2>1. Wrong \subseteq SUBSET Keys
    OBVIOUS
  <2> HIDE DEF Wrong
  <2> QED
    BY <2>1, MinimalSet
<1>2. T \in SUBSET Keys /\ BytesOf(T) \notin Nat
  BY <1>1
<1> HIDE DEF Wrong
<1>3. T # {}
  BY <1>2, BytesOfNothing
<1>4. Some(T) \in T /\ BytesOf(T) = Size[Some(T)] + BytesOf(T \ {Some(T)})
  BY <1>2, <1>3, BytesFold
<1>5. BytesOf(T \ {Some(T)}) \in Nat
  BY <1>1, <1>2, <1>4 DEF Wrong
<1>6. Size[Some(T)] \in Nat
  BY <1>2, <1>4
<1> QED
  BY <1>2, <1>4, <1>5, <1>6

\* The sum does not depend on the order in which blobs are taken.
LEMMA BytesWithout ==
    ASSUME NEW S \in SUBSET Keys, NEW k \in S
    PROVE  BytesOf(S) = Size[k] + BytesOf(S \ {k})
<1> DEFINE Wrong == {T \in SUBSET Keys :
                       \E j \in T : BytesOf(T) # Size[j] + BytesOf(T \ {j})}
<1> SUFFICES ASSUME Wrong # {} PROVE FALSE
  OBVIOUS
<1>1. PICK T \in Wrong : \A U \in Wrong : U \subseteq T => U = T
  <2>1. Wrong \subseteq SUBSET Keys
    OBVIOUS
  <2> HIDE DEF Wrong
  <2> QED
    BY <2>1, MinimalSet
<1>2. PICK j \in T : BytesOf(T) # Size[j] + BytesOf(T \ {j})
  BY <1>1
<1> DEFINE i == Some(T)
<1>3. T \in SUBSET Keys /\ i \in T /\ BytesOf(T) = Size[i] + BytesOf(T \ {i})
  BY <1>1, <1>2, BytesFold
<1>4. i # j
  BY <1>2, <1>3
<1>5. T \ {i} \notin Wrong /\ T \ {j} \notin Wrong
  BY <1>1, <1>2, <1>3
<1> HIDE DEF i
<1>6. BytesOf(T \ {i}) = Size[j] + BytesOf((T \ {i}) \ {j})
  BY <1>3, <1>4, <1>5, <1>2
<1>7. BytesOf(T \ {j}) = Size[i] + BytesOf((T \ {j}) \ {i})
  BY <1>3, <1>4, <1>5, <1>2
<1>8. (T \ {i}) \ {j} = (T \ {j}) \ {i}
  OBVIOUS
<1>9. BytesOf((T \ {i}) \ {j}) \in Nat
  BY <1>3, BytesNatural
<1>10. Size[i] \in Nat /\ Size[j] \in Nat
  BY <1>2, <1>3
<1> DEFINE rest == BytesOf((T \ {i}) \ {j})
<1>11. /\ BytesOf(T) = Size[i] + (Size[j] + rest)
       /\ BytesOf(T \ {j}) = Size[i] + rest
  BY <1>3, <1>6, <1>7, <1>8
<1>12. rest \in Nat
  BY <1>9
<1> HIDE DEF Wrong, rest
<1> QED
  BY <1>2, <1>10, <1>11, <1>12

\* A blob more is its size more.
LEMMA BytesWith ==
    ASSUME NEW S \in SUBSET Keys, NEW k \in Keys \ S
    PROVE  BytesOf(S \cup {k}) = BytesOf(S) + Size[k]
<1>1. (S \cup {k}) \ {k} = S /\ S \cup {k} \in SUBSET Keys
  OBVIOUS
<1> QED
  BY <1>1, BytesWithout, BytesNatural

-----------------------------------------------------------------------------
(* The byte count.                                                         *)

\* A record without a file claims no bytes: only a mismatch leaves one, and
\* it records size zero (Ingest).
GhostsWeighNothing ==
    \A k \in Keys : meta[k] # NoMeta /\ disk[k] = "absent" => meta[k].size = 0

\* A request that makes room for its blob holds the mutex, and its blob is not
\* on disk (putInternal).
CommitAlone ==
    \A r \in Requests : pc[r] = "evict" => mu = r /\ disk[key[r]] = "absent"

UsageInv == AccountingExact /\ BudgetRespected
ByteInv  == UsageInv /\ GhostsWeighNothing /\ CommitAlone

\* The count is the natural number the directory holds.
LEMMA CountNatural ==
    ASSUME AccountingExact
    PROVE  /\ OnDisk \in SUBSET Keys
           /\ currentBytes \in Nat
           /\ currentBytes = BytesOf(OnDisk)
<1>1. OnDisk \in SUBSET Keys
  BY DEF OnDisk
<1> QED
  BY <1>1, BytesNatural DEF AccountingExact

\* A step that neither adds nor removes a file leaves the count alone.
LEMMA UsageSame ==
    ASSUME UsageInv, OnDisk' = OnDisk, currentBytes' = currentBytes
    PROVE  UsageInv'
BY DEF UsageInv, AccountingExact, BudgetRespected

\* Removing a file takes its size off the count.
LEMMA UsageRemoved ==
    ASSUME ShapeOK, UsageInv, NEW k \in Keys, Exists(k),
           disk' = [disk EXCEPT ![k] = "absent"], currentBytes' = currentBytes - Size[k]
    PROVE  UsageInv'
<1>1. OnDisk' = OnDisk \ {k} /\ k \in OnDisk /\ OnDisk \in SUBSET Keys
  BY DEF OnDisk, Exists, ShapeOK
<1>2. BytesOf(OnDisk) = Size[k] + BytesOf(OnDisk \ {k})
  BY <1>1, BytesWithout
<1>3. BytesOf(OnDisk \ {k}) \in Nat
  BY <1>1, BytesNatural
<1>4. BytesOf(OnDisk') = BytesOf(OnDisk \ {k})
  BY <1>1
<1> DEFINE a == BytesOf(OnDisk)
           b == BytesOf(OnDisk \ {k})
<1>5. /\ currentBytes = a /\ a <= MaxBytes /\ a = Size[k] + b /\ b \in Nat
      /\ BytesOf(OnDisk') = b
  BY <1>2, <1>3, <1>4 DEF UsageInv, AccountingExact, BudgetRespected
<1> HIDE DEF a, b
<1>6. currentBytes' = b /\ b <= MaxBytes
  BY <1>5
<1> QED
  BY <1>5, <1>6 DEF UsageInv, AccountingExact, BudgetRespected

\* Touch and UpdateStatus keep the size a record claims.
LEMMA SizeKept ==
    ASSUME ShapeOK, NEW k \in Keys, NEW status \in Status, NEW t \in Time,
           UpdateStatus(k, status) \/ Touch(k, t)
    PROVE  \A j \in Keys : meta'[j] # NoMeta => meta[j] # NoMeta /\ meta'[j].size = meta[j].size
<1> USE DEF ShapeOK
<1>1. CASE UpdateStatus(k, status) /\ meta[k] # NoMeta
  <2>1. [meta[k] EXCEPT !.status = status].size = meta[k].size
    BY <1>1 DEF BlobMetadata
  <2> QED
    BY <1>1, <2>1 DEF UpdateStatus
<1>2. CASE Touch(k, t) /\ meta[k] # NoMeta
  <2>1. [meta[k] EXCEPT !.accessed = t].size = meta[k].size
    BY <1>2 DEF BlobMetadata
  <2> QED
    BY <1>2, <2>1 DEF Touch
<1>3. CASE UNCHANGED meta
  BY <1>3
<1> QED
  BY <1>1, <1>2, <1>3 DEF UpdateStatus, Touch

\* Every step keeps the byte count exact and within the budget.
LEMMA ByteStep ==
    ASSUME PinInv, ByteInv, [Next]_vars
    PROVE  ByteInv'
<1> USE DEF PinInv, ShapeOK, ByteInv, GhostsWeighNothing, CommitAlone, At, Locked, storeVars
<1>1. ASSUME NEW r \in Requests, Refuse(r) PROVE ByteInv'
  BY <1>1, UsageSame DEF Refuse, Answer, OnDisk
<1>2. ASSUME NEW r \in Requests, NEW k \in Keys, Begin(r, k) PROVE ByteInv'
  BY <1>2, UsageSame DEF Begin, OnDisk
<1>3. ASSUME NEW r \in Requests, IngestHas(r) PROVE ByteInv'
  BY <1>3, UsageSame DEF IngestHas, Go, OnDisk
<1>4. ASSUME NEW r \in Requests, IngestPinExisting(r) PROVE ByteInv'
  BY <1>4, UsageSame DEF IngestPinExisting, Go, OnDisk
<1>5. ASSUME NEW r \in Requests, IngestTouch(r) PROVE ByteInv'
  <2>1. UsageInv'
    BY <1>5, UsageSame DEF IngestTouch, OnDisk
  <2>2. \A j \in Keys : meta'[j] # NoMeta => meta[j] # NoMeta /\ meta'[j].size = meta[j].size
    BY <1>5, SizeKept DEF IngestTouch, Status
  <2> QED
    BY <1>5, <2>1, <2>2 DEF IngestTouch, Go
<1>6. ASSUME NEW r \in Requests, PutCheck(r) PROVE ByteInv'
  BY <1>6, UsageSame DEF PutCheck, Go, OnDisk
<1>7. ASSUME NEW r \in Requests, PutStage(r) PROVE ByteInv'
  BY <1>7, UsageSame DEF PutStage, OnDisk
<1>8. ASSUME NEW r \in Requests, PutStageFail(r) PROVE ByteInv'
  BY <1>8, UsageSame DEF PutStageFail, Answer, OnDisk
<1>9. ASSUME NEW r \in Requests, MismatchRecord(r) PROVE ByteInv'
  <2>1. UsageInv'
    BY <1>9, UsageSame DEF MismatchRecord, OnDisk
  <2> QED
    BY <1>9, <2>1 DEF MismatchRecord, Answer, MetaPut
<1>10. ASSUME NEW r \in Requests, PutLock(r) PROVE ByteInv'
  BY <1>10, UsageSame DEF PutLock, OnDisk, Exists
<1>11. ASSUME NEW r \in Requests, EvictOne(r) PROVE ByteInv'
  <2>1. PICK k \in EvictionCandidates : Remove(k) /\ currentBytes' = currentBytes - EvictedBytes(k)
    BY <1>11 DEF EvictOne
  <2>2. k \in Keys /\ meta[k] # NoMeta
    BY DEF EvictionCandidates, Evictable
  <2>3. UsageInv'
    <3>1. CASE Exists(k)
      BY <2>1, <2>2, <3>1, UsageRemoved DEF Remove, EvictedBytes
    <3>2. CASE ~Exists(k)
      <4>1. OnDisk' = OnDisk
        BY <2>1, <2>2, <3>2 DEF OnDisk, Exists, Remove
      <4>2. currentBytes' = currentBytes - 0
        BY <2>1, <2>2, <3>2 DEF Exists, EvictedBytes
      <4>3. currentBytes' = currentBytes
        BY <4>2, CountNatural DEF UsageInv
      <4> QED
        BY <4>1, <4>3, UsageSame
    <3> QED
      BY <3>1, <3>2
  <2> QED
    BY <1>11, <2>1, <2>2, <2>3 DEF EvictOne, Remove, requestVars
<1>12. ASSUME NEW r \in Requests, EvictFail(r) PROVE ByteInv'
  BY <1>12, UsageSame DEF EvictFail, Answer, OnDisk
<1>13. ASSUME NEW r \in Requests, PutRename(r) PROVE ByteInv'
  <2>1. key[r] \in Keys /\ mu = r /\ disk[key[r]] = "absent" /\ staged[r] = "good"
    BY <1>13 DEF PutRename, StagedVerified
  <2>2. OnDisk' = OnDisk \cup {key[r]} /\ key[r] \in Keys \ OnDisk
    BY <1>13, <2>1 DEF PutRename, OnDisk
  <2>3. BytesOf(OnDisk \cup {key[r]}) = currentBytes + Size[key[r]]
    BY <2>2, BytesWith, CountNatural DEF UsageInv
  <2>4. BytesOf(OnDisk') = currentBytes'
    BY <1>13, <2>2, <2>3 DEF PutRename
  <2>5. currentBytes' <= MaxBytes
    BY <1>13, <2>1, CountNatural DEF PutRename, NeedsRoom, UsageInv
  <2>6. UsageInv'
    BY <2>4, <2>5 DEF UsageInv, AccountingExact, BudgetRespected
  <2> QED
    BY <1>13, <2>1, <2>6 DEF PutRename
<1>14. ASSUME NEW r \in Requests, PutRenameFail(r) PROVE ByteInv'
  BY <1>14, UsageSame DEF PutRenameFail, Answer, OnDisk
<1>15. ASSUME NEW r \in Requests, IngestPin(r) PROVE ByteInv'
  BY <1>15, UsageSame DEF IngestPin, Go, OnDisk
<1>16. ASSUME NEW r \in Requests, PinFail(r) PROVE ByteInv'
  BY <1>16, UsageSame DEF PinFail, Answer, OnDisk
<1>17. ASSUME NEW r \in Requests, IngestRecord(r) PROVE ByteInv'
  <2>1. UsageInv'
    BY <1>17, UsageSame DEF IngestRecord, OnDisk
  <2>2. disk[key[r]] # "absent"
    BY <1>17 DEF IngestRecord, LeaseSafety, PinnedAt
  <2> QED
    BY <1>17, <2>1, <2>2 DEF IngestRecord, Go, MetaPut
<1>18. ASSUME NEW r \in Requests, InspectRead(r) PROVE ByteInv'
  <2>1. UsageInv'
    BY <1>18, UsageSame DEF InspectRead, OnDisk
  <2>2. \A j \in Keys : meta'[j] # NoMeta => meta[j] # NoMeta /\ meta'[j].size = meta[j].size
    BY <1>18, SizeKept DEF InspectRead, Status
  <2> QED
    BY <1>18, <2>1, <2>2 DEF InspectRead
<1>19. ASSUME NEW r \in Requests, InspectUnpin(r) PROVE ByteInv'
  BY <1>19, UsageSame DEF InspectUnpin, Go, OnDisk
<1>20. ASSUME NEW r \in Requests, InspectReject(r) PROVE ByteInv'
  BY <1>20, UsageSame DEF InspectReject, Answer, OnDisk
<1>21. ASSUME NEW r \in Requests, PostCheckDeny(r) PROVE ByteInv'
  BY <1>21, UsageSame DEF PostCheckDeny, Answer, OnDisk
<1>22. ASSUME NEW r \in Requests, ReleasePin(r) PROVE ByteInv'
  BY <1>22, UsageSame DEF ReleasePin, Go, OnDisk
<1>23. ASSUME NEW r \in Requests, ReleaseVerify(r) PROVE ByteInv'
  BY <1>23, UsageSame DEF ReleaseVerify, Go, OnDisk
<1>24. ASSUME NEW r \in Requests, ReleaseReject(r) PROVE ByteInv'
  BY <1>24, UsageSame DEF ReleaseReject, Go, OnDisk
<1>25. ASSUME NEW r \in Requests, ReleaseBlock(r) PROVE ByteInv'
  <2>1. UsageInv'
    BY <1>25, UsageSame DEF ReleaseBlock, OnDisk
  <2>2. \A j \in Keys : meta'[j] # NoMeta => meta[j] # NoMeta /\ meta'[j].size = meta[j].size
    BY <1>25, SizeKept DEF ReleaseBlock, Status
  <2> QED
    BY <1>25, <2>1, <2>2 DEF ReleaseBlock, Answer
<1>26. ASSUME NEW r \in Requests, ReleaseReopen(r) PROVE ByteInv'
  BY <1>26, UsageSame DEF ReleaseReopen, OnDisk
<1>27. ASSUME NEW r \in Requests, ReleaseRecord(r) PROVE ByteInv'
  <2>1. UsageInv'
    BY <1>27, UsageSame DEF ReleaseRecord, OnDisk
  <2>2. \A j \in Keys : meta'[j] # NoMeta => meta[j] # NoMeta /\ meta'[j].size = meta[j].size
    BY <1>27, SizeKept DEF ReleaseRecord, Status
  <2> QED
    BY <1>27, <2>1, <2>2 DEF ReleaseRecord, Go
<1>28. ASSUME NEW r \in Requests, ReleaseTouch(r) PROVE ByteInv'
  <2>1. UsageInv'
    BY <1>28, UsageSame DEF ReleaseTouch, OnDisk
  <2>2. \A j \in Keys : meta'[j] # NoMeta => meta[j] # NoMeta /\ meta'[j].size = meta[j].size
    BY <1>28, SizeKept DEF ReleaseTouch, Status
  <2> QED
    BY <1>28, <2>1, <2>2 DEF ReleaseTouch, Go
<1>29. ASSUME NEW r \in Requests, Deliver(r) PROVE ByteInv'
  BY <1>29, UsageSame DEF Deliver, OnDisk
<1>30. ASSUME NEW r \in Requests, StreamClose(r) PROVE ByteInv'
  BY <1>30, UsageSame DEF StreamClose, Answer, OnDisk
<1>31. ASSUME NEW k \in Keys, Delete(k) PROVE ByteInv'
  <2>1. UsageInv'
    <3>1. CASE Exists(k)
      <4>1. BytesOf(OnDisk) = Size[k] + BytesOf(OnDisk \ {k}) /\ BytesOf(OnDisk \ {k}) \in Nat
        BY <3>1, BytesWithout, BytesNatural DEF OnDisk, Exists
      <4>2. ~(currentBytes < Size[k])
        BY <4>1, CountNatural DEF UsageInv
      <4>3. currentBytes' = currentBytes - Size[k]
        BY <1>31, <3>1, <4>2 DEF Delete
      <4> QED
        BY <1>31, <3>1, <4>3, UsageRemoved DEF Delete, Remove
    <3>2. CASE ~Exists(k)
      BY <1>31, <3>2, UsageSame DEF Delete, Remove, OnDisk, Exists
    <3> QED
      BY <3>1, <3>2
  <2> QED
    BY <1>31, <2>1 DEF Delete, Remove, requestVars
<1>32. ASSUME NEW k \in Keys, Corrupt(k) PROVE ByteInv'
  <2>1. OnDisk' = OnDisk
    BY <1>32 DEF Corrupt, OnDisk
  <2> QED
    BY <1>32, <2>1, UsageSame DEF Corrupt
<1>33. CASE Tick
  BY <1>33, UsageSame DEF Tick, requestVars, OnDisk
<1>34. CASE Crash
  <2>1. OnDisk' = OnDisk
    BY <1>34 DEF Crash, OnDisk
  <2>2. UsageInv'
    BY <1>34, <2>1 DEF Crash, UsageInv, AccountingExact, BudgetRespected
  <2> QED
    BY <1>34, <2>2 DEF Crash
<1>35. CASE UNCHANGED vars
  BY <1>35, UsageSame DEF vars, requestVars, OnDisk
<1> QED
  BY <1>1, <1>2, <1>3, <1>4, <1>5, <1>6, <1>7, <1>8, <1>9, <1>10, <1>11, <1>12, <1>13,
     <1>14, <1>15, <1>16, <1>17, <1>18, <1>19, <1>20, <1>21, <1>22, <1>23, <1>24,
     <1>25, <1>26, <1>27, <1>28, <1>29, <1>30, <1>31, <1>32, <1>33, <1>34, <1>35
     DEF Next, Proceed, Ingest, Inspect, VerifyAndRelease

-----------------------------------------------------------------------------
(* The theorems.                                                           *)

Inv == PinInv /\ ScreenInv /\ RecordInv /\ AuthenticInv /\ ByteInv

\* The inductive invariant of the quarantine holds in every instance.
THEOREM QuarantineInvariant == Spec => []Inv
<1>1. Init => ScreenInv /\ RecordInv /\ AuthenticInv
  BY DEF Init, ScreenInv, NothingUnverifiedOnDisk, Screened, ReleasePath, RecordInv,
         AuthenticInv, Verified
<1>2. Init => ByteInv
  <2> SUFFICES ASSUME Init PROVE ByteInv
    OBVIOUS
  <2>1. OnDisk = {}
    BY DEF Init, OnDisk
  <2>2. BytesOf(OnDisk) = 0
    BY <2>1, BytesOfNothing
  <2>3. UsageInv
    BY <2>2 DEF Init, UsageInv, AccountingExact, BudgetRespected
  <2> QED
    BY <2>3 DEF Init, ByteInv, GhostsWeighNothing, CommitAlone
<1>3. PinInv /\ ScreenInv /\ [Next]_vars => ScreenInv'
  BY ScreenStep DEF ScreenInv
<1>4. PinInv /\ RecordInv /\ [Next]_vars => RecordInv'
  BY RecordStep DEF RecordInv
<1>5. PinInv /\ AuthenticInv /\ [Next]_vars => AuthenticInv'
  BY AuthenticStep
<1>6. PinInv /\ ByteInv /\ [Next]_vars => ByteInv'
  BY ByteStep
<1> QED
  BY <1>1, <1>2, <1>3, <1>4, <1>5, <1>6, PinInvariant, PTL DEF Spec, Inv

\* The byte count the budget test reads is the number of bytes on disk,
\* whatever ingestions, evictions, deletions and restarts raced (putInternal,
\* evictOneCandidateLocked, Delete, NewDiskBlobStore).
THEOREM TheCountIsExact == Spec => []AccountingExact
<1>1. Inv => AccountingExact
  BY DEF Inv, ByteInv, UsageInv
<1> QED
  BY <1>1, QuarantineInvariant, PTL

\* The blobs on disk never exceed the budget (putInternal).
THEOREM TheBudgetHolds == Spec => []BudgetRespected
<1>1. Inv => BudgetRespected
  BY DEF Inv, ByteInv, UsageInv
<1> QED
  BY <1>1, QuarantineInvariant, PTL

\* A client receives the bytes its integrity value names unless they changed
\* after the second verification (VerifyAndRelease).
THEOREM DeliveriesAreAuthentic == Spec => []DeliveredIsAuthentic
<1>1. Inv => DeliveredIsAuthentic
  BY DEF Inv, AuthenticInv, DeliveredIsAuthentic
<1> QED
  BY <1>1, QuarantineInvariant, PTL

\* When nothing else writes to blobs/, it holds only bytes that hash to their
\* key, whenever the process crashes (putInternal, NewDiskBlobStore).
THEOREM BlobsAreVerified == Spec => []NothingUnverifiedOnDisk
<1>1. Inv => NothingUnverifiedOnDisk
  BY DEF Inv, ScreenInv, NothingUnverifiedOnDisk
<1> QED
  BY <1>1, QuarantineInvariant, PTL

\* Content that inspection rejects is never delivered and never recorded as
\* inspected or released (handleQuarantinedTarball).
THEOREM HazardsStayInside == Spec => []HazardousNeverReleased
<1>1. Inv => HazardousNeverReleased
  BY DEF Inv, ScreenInv, Screened, HazardousNeverReleased, ReleasePath
<1> QED
  BY <1>1, QuarantineInvariant, PTL

\* As long as the process lives, the budget error is told only when every
\* blob on disk is in use (evictOneCandidateLocked).
THEOREM BudgetErrorsAreJustified ==
    ASSUME ~CrashAllowed
    PROVE  Spec => BudgetErrorJustified
<1>1. ASSUME Inv, [Next]_vars, NEW r \in Requests, out[r] # "budget", out'[r] = "budget",
             NEW k \in Keys
      PROVE  ~Unclaimed(k)
  <2> USE <1>1 DEF Inv, PinInv, ShapeOK
  <2>1. EvictFail(r)
    <3>1. ASSUME NEW q \in Requests, Refuse(q) PROVE FALSE
      BY <3>1 DEF Refuse, Answer
    <3>2. ASSUME NEW q \in Requests, NEW j \in Keys, Begin(q, j) PROVE FALSE
      BY <3>2 DEF Begin
    <3>3. ASSUME NEW q \in Requests, IngestHas(q) PROVE FALSE
      BY <3>3 DEF IngestHas, Go
    <3>4. ASSUME NEW q \in Requests, IngestPinExisting(q) PROVE FALSE
      BY <3>4 DEF IngestPinExisting, Go
    <3>5. ASSUME NEW q \in Requests, IngestTouch(q) PROVE FALSE
      BY <3>5 DEF IngestTouch, Go
    <3>6. ASSUME NEW q \in Requests, PutCheck(q) PROVE FALSE
      BY <3>6 DEF PutCheck, Go
    <3>7. ASSUME NEW q \in Requests, PutStage(q) PROVE FALSE
      BY <3>7 DEF PutStage
    <3>8. ASSUME NEW q \in Requests, PutStageFail(q) PROVE FALSE
      BY <3>8 DEF PutStageFail, Answer
    <3>9. ASSUME NEW q \in Requests, MismatchRecord(q) PROVE FALSE
      BY <3>9 DEF MismatchRecord, Answer
    <3>10. ASSUME NEW q \in Requests, PutLock(q) PROVE FALSE
      BY <3>10 DEF PutLock
    <3>11. ASSUME NEW q \in Requests, EvictOne(q) PROVE FALSE
      BY <3>11 DEF EvictOne, requestVars
    <3>12. ASSUME NEW q \in Requests, EvictFail(q) PROVE q = r
      BY <3>12 DEF EvictFail, Answer
    <3>13. ASSUME NEW q \in Requests, PutRename(q) PROVE FALSE
      BY <3>13 DEF PutRename
    <3>14. ASSUME NEW q \in Requests, PutRenameFail(q) PROVE FALSE
      BY <3>14 DEF PutRenameFail, Answer
    <3>15. ASSUME NEW q \in Requests, IngestPin(q) PROVE FALSE
      BY <3>15 DEF IngestPin, Go
    <3>16. ASSUME NEW q \in Requests, PinFail(q) PROVE FALSE
      BY <3>16 DEF PinFail, Answer
    <3>17. ASSUME NEW q \in Requests, IngestRecord(q) PROVE FALSE
      BY <3>17 DEF IngestRecord, Go
    <3>18. ASSUME NEW q \in Requests, InspectRead(q) PROVE FALSE
      BY <3>18 DEF InspectRead
    <3>19. ASSUME NEW q \in Requests, InspectUnpin(q) PROVE FALSE
      BY <3>19 DEF InspectUnpin, Go
    <3>20. ASSUME NEW q \in Requests, InspectReject(q) PROVE FALSE
      BY <3>20 DEF InspectReject, Answer
    <3>21. ASSUME NEW q \in Requests, PostCheckDeny(q) PROVE FALSE
      BY <3>21 DEF PostCheckDeny, Answer
    <3>22. ASSUME NEW q \in Requests, ReleasePin(q) PROVE FALSE
      BY <3>22 DEF ReleasePin, Go
    <3>23. ASSUME NEW q \in Requests, ReleaseVerify(q) PROVE FALSE
      BY <3>23 DEF ReleaseVerify, Go
    <3>24. ASSUME NEW q \in Requests, ReleaseReject(q) PROVE FALSE
      BY <3>24 DEF ReleaseReject, Go
    <3>25. ASSUME NEW q \in Requests, ReleaseBlock(q) PROVE FALSE
      BY <3>25 DEF ReleaseBlock, Answer
    <3>26. ASSUME NEW q \in Requests, ReleaseReopen(q) PROVE FALSE
      BY <3>26 DEF ReleaseReopen
    <3>27. ASSUME NEW q \in Requests, ReleaseRecord(q) PROVE FALSE
      BY <3>27 DEF ReleaseRecord, Go
    <3>28. ASSUME NEW q \in Requests, ReleaseTouch(q) PROVE FALSE
      BY <3>28 DEF ReleaseTouch, Go
    <3>29. ASSUME NEW q \in Requests, Deliver(q) PROVE FALSE
      BY <3>29 DEF Deliver
    <3>30. ASSUME NEW q \in Requests, StreamClose(q) PROVE FALSE
      BY <3>30 DEF StreamClose, Answer
    <3>31. ASSUME NEW j \in Keys, Delete(j) PROVE FALSE
      BY <3>31 DEF Delete, requestVars
    <3>32. ASSUME NEW j \in Keys, Corrupt(j) PROVE FALSE
      BY <3>32 DEF Corrupt
    <3>33. CASE Tick
      BY <3>33 DEF Tick, requestVars
    <3>34. CASE Crash
      BY <3>34 DEF Crash
    <3>35. CASE UNCHANGED vars
      BY <3>35 DEF vars, requestVars
    <3> QED
      BY <3>1, <3>2, <3>3, <3>4, <3>5, <3>6, <3>7, <3>8, <3>9, <3>10, <3>11, <3>12,
         <3>13, <3>14, <3>15, <3>16, <3>17, <3>18, <3>19, <3>20, <3>21, <3>22, <3>23,
         <3>24, <3>25, <3>26, <3>27, <3>28, <3>29, <3>30, <3>31, <3>32, <3>33, <3>34,
         <3>35
         DEF Next, Proceed, Ingest, Inspect, VerifyAndRelease
  <2>2. meta[k] = NoMeta \/ pins[k] # 0
    BY <2>1 DEF EvictFail, Evictable
  <2>3. SUFFICES ASSUME disk[k] # "absent", pins[k] = 0, meta[k] = NoMeta
                 PROVE  \E q \in Requests : pc[q] = "pinNew" /\ key[q] = k
    BY <2>2 DEF Unclaimed
  <2>4. PICK q \in Requests : pc[q] \in {"pinNew", "putMeta"} /\ key[q] = k
    BY <2>3 DEF RecordInv
  <2>5. pc[q] \notin PinnedAt
    BY <2>3, <2>4, UnpinnedUnheld
  <2> QED
    BY <2>4, <2>5 DEF PinnedAt
<1>2. Inv /\ [Next]_vars =>
        [\A r \in Requests :
          (out[r] # "budget" /\ out'[r] = "budget") => \A k \in Keys : ~Unclaimed(k)]_vars
  BY <1>1
<1> QED
  BY <1>2, QuarantineInvariant, PTL DEF Spec, BudgetErrorJustified

\* Every variable keeps its type; the byte count never goes negative.
THEOREM TypeCorrect == Spec => []TypeOK
<1>1. Inv => TypeOK
  BY CountNatural DEF Inv, PinInv, ByteInv, UsageInv, TypeOK
<1> QED
  BY <1>1, QuarantineInvariant, PTL
=============================================================================
