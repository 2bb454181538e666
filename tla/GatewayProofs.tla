---------------------------- MODULE GatewayProofs ----------------------------
(***************************************************************************)
(* Proofs about the HTTP handler, for every number of requests, versions   *)
(* and contents, every catalog and every header a client may send: it      *)
(* implements the release gate, and what it records has a cause.           *)
(*                                                                         *)
(* The argument follows a digest.  What the registry holds, a packument    *)
(* somebody is reading, the index and the digest a request expects all     *)
(* name content that the registry offered for that version (Offers), so    *)
(* the bytes that quarantine verifies against it are offered content.      *)
(***************************************************************************)
EXTENDS Gateway, TLAPS

Offers ==
    /\ \A v \in Versions : registry[v] # NoDist => <<v, registry[v].content>> \in offered
    /\ \A v \in Versions : index[v] # NoIntegrity => <<v, index[v].of>> \in offered
    /\ \A r \in Requests, v \in Versions :
          pack[r][v] # NoDist => <<v, pack[r][v].content>> \in offered

\* The points inside handleQuarantinedTarball.
Guarded   == {"fetch", "resolve", "fetchMeta", "indexMeta", "lookup", "ingest", "inspect",
              "post", "release"}
Expecting == {"ingest", "inspect", "post", "release"}

\* Which requests come where: the quarantined path is for the GET of a
\* tarball with a version and a gateway with quarantine, the ordinary one for
\* the rest.
Path(r) ==
    /\ pc[r] = "pre" => route[r] = "tarball"
    /\ pc[r] \in Guarded =>
          route[r] = "tarball" /\ ~head[r] /\ quarantined /\ ver[r] \in Versions
    /\ pc[r] = "copy" => ~head[r]
    /\ pc[r] = "indexing" => route[r] = "metadata"
    /\ pc[r] \in {"relay", "copy"} /\ route[r] = "tarball" /\ ~head[r] => ~quarantined

\* The bytes a request holds are damaged or were offered for its version, if
\* it has one.
Bodied(r) ==
    /\ pc[r] \in {"idle", "pre", "relay", "fetch"} => body[r] = NoContent
    /\ pc[r] \in {"resolve", "fetchMeta", "indexMeta", "lookup", "ingest"} =>
          body[r] # NoContent
    /\ \/ ver[r] = NoVersion
       \/ body[r] \in {NoContent, Damaged}
       \/ <<ver[r], body[r]>> \in offered

\* The digest it expects is the client's, or one of its version; the
\* registry is asked only when the client named none.
Expected(r) ==
    /\ pc[r] \in {"fetchMeta", "indexMeta", "lookup"} => header[r] = NoIntegrity
    /\ pc[r] \in Expecting =>
          /\ want[r] # NoIntegrity
          /\ \/ header[r] # NoIntegrity /\ want[r] = header[r]
             \/ header[r] = NoIntegrity /\ <<ver[r], want[r].of>> \in offered

\* After the inspection its content is fit to be delivered, and a truncated
\* one is on record unless the store refused the document.
Inspected(r) ==
    pc[r] \in {"post", "release"} =>
        /\ Inspection[want[r].of] \notin {"unsafe", "dangerous"}
        /\ Inspection[want[r].of] = "truncated" =>
              <<ver[r], "truncated">> \in docs \/ unsaved[r]

Sane(r) == Path(r) /\ Bodied(r) /\ Expected(r) /\ Inspected(r)

IInv == TypeOK /\ Offers /\ \A r \in Requests : Sane(r)

-----------------------------------------------------------------------------
(* Digests and routes.                                                     *)

\* The digest a dist object advertises is one of its content.
LEMMA AdvertisedDigest ==
    ASSUME NEW d \in Dists \cup {NoDist}, Advertised(d) # NoIntegrity
    PROVE  d # NoDist /\ Advertised(d) \in Integrity /\ Advertised(d).of = d.content
<1>1. d # NoDist
  BY DEF Advertised
<1>2. PICK c \in Contents, f \in DistForms : d = Dist(c, f)
  BY <1>1 DEF Dists
<1>3. /\ d.content = c
      /\ d.integrity \in {Sri(c), Md5(c), NoIntegrity}
      /\ d.shasum \in {Shasum(c), NoIntegrity}
  BY <1>2 DEF Dist
<1>4. Advertised(d) \in {Sri(c), Md5(c), Shasum(c)}
  BY <1>1, <1>3 DEF Advertised
<1>5. /\ Sri(c) \in Integrity /\ Md5(c) \in Integrity /\ Shasum(c) \in Integrity
      /\ Sri(c).of = c /\ Md5(c).of = c /\ Shasum(c).of = c
  BY DEF Sri, Md5, Shasum, Integrity, Bytes
<1> QED
  BY <1>1, <1>3, <1>4, <1>5

\* A dist object names content of the registry.
LEMMA DistContent ==
    /\ \A d \in Dists : d.content \in Contents
    /\ \A c \in Contents, f \in Forms : Dist(c, f) \in Dists /\ Dist(c, f).content = c
<1>1. \A d \in Dists : d.content \in Contents
  BY DEF Dists, Dist
<1>2. \A c \in Contents, f \in Forms : Dist(c, f) \in Dists
  BY FormsAssumption DEF Dists
<1>3. \A c \in Contents, f \in Forms : Dist(c, f).content = c
  BY DEF Dist
<1> QED
  BY <1>1, <1>2, <1>3

\* A digest that parses names the same content.
LEMMA ParsedDigest ==
    ASSUME NEW s \in Integrity, ParseDigest(s) # NoKey
    PROVE  /\ ParseDigest(s) \in [algo : DOMAIN DigestLen, of : Bytes]
           /\ ParseDigest(s).of = s.of
<1> DEFINE fits == {a \in DOMAIN DigestLen :
                       /\ DigestLen[a] = s.len
                       /\ s.algo = a \/ (s.algo = "" /\ s.code = "hex")}
<1>1. fits # {} /\ ParseDigest(s) = [algo |-> CHOOSE a \in fits : TRUE, of |-> s.of]
  BY DEF ParseDigest
<1>2. (CHOOSE a \in fits : TRUE) \in DOMAIN DigestLen
  BY <1>1
<1>3. s.of \in Bytes
  BY DEF Integrity
<1> HIDE DEF fits
<1> QED
  BY <1>1, <1>2, <1>3

\* Only metadata and tarballs are proxied.
LEMMA ProxiedKinds ==
    ASSUME NEW p \in Proxied
    PROVE  p.kind \in {"metadata", "tarball"} /\ p.method \in {"GET", "HEAD"}
<1>1. ASSUME NEW m \in {"GET", "HEAD"}, NEW q
      PROVE  Classify(m, q) \in {"unsupported", "health", "ready", "metadata", "tarball"}
  <2> DEFINE rest == packageAndRest(q).rest
             ordinary == CASE rest = <<>> -> "metadata"
                           [] rest = <<"-", "tgz">> -> "tarball"
                           [] OTHER -> "unsupported"
  <2>1. ordinary \in {"metadata", "tarball", "unsupported"}
    <3> HIDE DEF rest
    <3> QED
      OBVIOUS
  <2>2. Classify(m, q) \in {"unsupported", "health", "ready", ordinary}
    BY Zenon DEF Classify
  <2> HIDE DEF ordinary
  <2> QED
    BY <2>1, <2>2
<1>2. ASSUME NEW m \in {"GET", "HEAD"}, NEW q
      PROVE  Classify(m, q) = Classify("GET", q)
  BY DEF Classify
<1>3. PICK m \in {"GET", "HEAD"}, q \in Relayed : p = [kind |-> Classify(m, q), method |-> m]
  BY DEF Proxied
<1>4. Classify("GET", q) \notin {"health", "ready", "unsupported"}
  <2>1. DirectStatus("GET", q, FALSE) = 0
    BY <1>3 DEF Relayed
  <2> QED
    BY <2>1 DEF DirectStatus
<1> QED
  BY <1>1, <1>2, <1>3, <1>4

\* A header names content of the registry.
LEMMA HeaderContent ==
    ASSUME NEW h \in Headers \cup {NoIntegrity}, h # NoIntegrity
    PROVE  h \in Integrity /\ h.of \in Contents
BY HeadersAssumption

-----------------------------------------------------------------------------
(* Types.                                                                  *)

\* The end of a handler keeps the types.
LEMMA DeliverType ==
    ASSUME TypeOK, NEW r \in Requests, NEW b \in Bytes \cup {NoContent}, Deliver(r, b)
    PROVE  /\ pc' \in [Requests -> Points]
           /\ route' \in [Requests -> {"none", "metadata", "tarball"}]
           /\ head' \in [Requests -> BOOLEAN]
           /\ ver' \in [Requests -> Versions \cup {NoVersion}]
           /\ header' \in [Requests -> Headers \cup {NoIntegrity}]
           /\ body' \in [Requests -> Bytes \cup {NoContent}]
           /\ pack' \in [Requests -> Packs]
           /\ want' \in [Requests -> Integrity \cup {NoIntegrity}]
           /\ given' \in [Requests -> Bytes \cup {NoContent}]
           /\ unsaved' \in [Requests -> BOOLEAN]
<1>1. NoPack \in Packs
  BY DEF NoPack, Packs
<1>2. "idle" \in Points
  BY DEF Points
<1>3. /\ pc' \in [Requests -> Points]
      /\ route' \in [Requests -> {"none", "metadata", "tarball"}]
      /\ head' \in [Requests -> BOOLEAN]
  BY <1>2 DEF Deliver, TypeOK
<1>4. /\ ver' \in [Requests -> Versions \cup {NoVersion}]
      /\ unsaved' \in [Requests -> BOOLEAN]
  BY DEF Deliver, TypeOK
<1>5. /\ header' \in [Requests -> Headers \cup {NoIntegrity}]
      /\ body' \in [Requests -> Bytes \cup {NoContent}]
  BY DEF Deliver, TypeOK
<1>6. /\ pack' \in [Requests -> Packs]
      /\ want' \in [Requests -> Integrity \cup {NoIntegrity}]
      /\ given' \in [Requests -> Bytes \cup {NoContent}]
  BY <1>1 DEF Deliver, TypeOK
<1> QED
  BY <1>3, <1>4, <1>5, <1>6
-----------------------------------------------------------------------------
(* Steps.                                                                  *)

\* What the rest of the gateway may do to a request: the registry offers
\* more, more documents are saved.
Grows == offered \subseteq offered' /\ docs \subseteq docs' /\ quarantined' = quarantined

\* One handler does not disturb another.
LEMMA Undisturbed ==
    ASSUME Grows, NEW q \in Requests, Sane(q),
           pc'[q] = pc[q], route'[q] = route[q], head'[q] = head[q], ver'[q] = ver[q],
           header'[q] = header[q], body'[q] = body[q], want'[q] = want[q],
           unsaved'[q] = unsaved[q]
    PROVE  Sane(q)'
<1>1. Path(q)'
  BY DEF Sane, Path, Grows
<1>2. Bodied(q)'
  BY DEF Sane, Bodied, Grows
<1>3. Expected(q)'
  BY DEF Sane, Expected, Grows
<1>4. Inspected(q)'
  BY DEF Sane, Inspected, Grows
<1> QED
  BY <1>1, <1>2, <1>3, <1>4 DEF Sane

\* Saving a document, or not, keeps the others.
LEMMA SaveGrows ==
    ASSUME TypeOK, NEW r \in Requests, ver[r] \in Versions, NEW rule, Save(r, rule)
    PROVE  docs \subseteq docs' /\ docs' \subseteq Versions \X Watched
BY DEF Save, TypeOK

\* The end of a handler, whatever it was answered with.
LEMMA DeliverStep ==
    ASSUME IInv, NEW r \in Requests, NEW b \in Bytes \cup {NoContent}, Deliver(r, b),
           UNCHANGED <<worldVars, quarantined, index>>,
           stored' \subseteq [algo : DOMAIN DigestLen, of : Bytes],
           docs \subseteq docs', docs' \subseteq Versions \X Watched
    PROVE  IInv'
<1>0. TypeOK /\ Offers /\ \A q \in Requests : Sane(q)
  BY DEF IInv
<1>1. TypeOK'
  BY <1>0, DeliverType DEF TypeOK, worldVars
<1>2. /\ pc'[r] = "idle" /\ body'[r] = NoContent /\ pack'[r] = NoPack
      /\ \A q \in Requests : q # r =>
            /\ pc'[q] = pc[q] /\ route'[q] = route[q] /\ head'[q] = head[q] /\ ver'[q] = ver[q]
            /\ header'[q] = header[q] /\ body'[q] = body[q] /\ pack'[q] = pack[q]
            /\ want'[q] = want[q] /\ unsaved'[q] = unsaved[q]
  BY <1>0 DEF Deliver, TypeOK
<1>3. Offers'
  BY <1>0, <1>2 DEF Offers, worldVars, NoPack
<1>4. Sane(r)'
  BY <1>2 DEF Sane, Path, Bodied, Expected, Inspected, Guarded, Expecting
<1>5. Grows
  BY DEF Grows, worldVars
<1>6. ASSUME NEW q \in Requests, q # r PROVE Sane(q)'
  BY <1>0, <1>2, <1>5, <1>6, Undisturbed
<1> QED
  BY <1>1, <1>3, <1>4, <1>6 DEF IInv

\* An answer without bytes, without or with a document.
LEMMA ReplyStep ==
    ASSUME IInv, NEW r \in Requests, Reply(r), UNCHANGED <<worldVars, sharedVars>>
    PROVE  IInv'
<1>1. docs' = docs /\ stored' = stored /\ UNCHANGED <<worldVars, quarantined, index>>
  BY DEF sharedVars
<1>2. docs \subseteq Versions \X Watched /\ stored \subseteq [algo : DOMAIN DigestLen, of : Bytes]
  BY DEF IInv, TypeOK
<1> QED
  BY <1>1, <1>2, DeliverStep DEF Reply

\* The same with a decision document.
LEMMA BlockStep ==
    ASSUME IInv, NEW r \in Requests, ver[r] \in Versions, NEW rule, Block(r, rule),
           UNCHANGED <<worldVars, quarantined, index, stored>>
    PROVE  IInv'
<1>1. TypeOK /\ ver[r] \in Versions /\ stored \subseteq [algo : DOMAIN DigestLen, of : Bytes]
  BY DEF IInv, TypeOK
<1>2. docs \subseteq docs' /\ docs' \subseteq Versions \X Watched
  BY <1>1, SaveGrows DEF Block
<1> QED
  BY <1>1, <1>2, DeliverStep DEF Block, Reply

\* A handler goes on to another point, with its locals as they are.
LEMMA WalkStep ==
    ASSUME IInv, NEW r \in Requests, NEW point \in Points, Go(r, point),
           UNCHANGED <<worldVars, localVars, quarantined, index>>,
           stored' \subseteq [algo : DOMAIN DigestLen, of : Bytes],
           docs \subseteq docs', docs' \subseteq Versions \X Watched,
           Sane(r)'
    PROVE  IInv'
<1>0. TypeOK /\ Offers /\ \A q \in Requests : Sane(q)
  BY DEF IInv
<1>1. TypeOK'
  <2>1. pc' \in [Requests -> Points]
    BY <1>0 DEF TypeOK, Go
  <2> QED
    BY <1>0, <2>1 DEF TypeOK, worldVars, localVars
<1>2. Offers'
  BY <1>0 DEF Offers, worldVars, localVars
<1>3. Grows
  BY DEF Grows, worldVars
<1>4. ASSUME NEW q \in Requests, q # r PROVE Sane(q)'
  <2>1. pc'[q] = pc[q]
    BY <1>0, <1>4 DEF TypeOK, Go
  <2> QED
    BY <1>0, <1>3, <2>1, Undisturbed DEF localVars
<1> QED
  BY <1>1, <1>2, <1>4 DEF IInv

\* Accept: a new request has neither bytes nor a digest.
LEMMA AcceptStep ==
    ASSUME IInv, NEW r \in Requests, Accept(r)
    PROVE  IInv'
<1>0. TypeOK /\ Offers /\ \A q \in Requests : Sane(q)
  BY DEF IInv
<1>1. PICK p \in Proxied :
         /\ pc' = [pc EXCEPT ![r] = IF p.kind = "tarball" THEN "pre" ELSE "relay"]
         /\ route' = [route EXCEPT ![r] = p.kind]
         /\ \E v \in {NoVersion} \cup (IF p.kind = "tarball" THEN Versions ELSE {}),
               h \in IF Quarantinable(p) THEN Headers ELSE {NoIntegrity} :
               /\ ver' = [ver EXCEPT ![r] = v]
               /\ header' = [header EXCEPT ![r] = h]
  BY DEF Accept
<1>b. PICK hd \in BOOLEAN : head' = [head EXCEPT ![r] = hd]
  <2>1. \A m : (m = "HEAD") \in BOOLEAN
    OBVIOUS
  <2> QED
    BY <2>1, Zenon DEF Accept
<1>2. p.kind \in {"metadata", "tarball"}
  BY ProxiedKinds
<1>3. PICK v \in Versions \cup {NoVersion}, h \in Headers \cup {NoIntegrity} :
         /\ ver' = [ver EXCEPT ![r] = v]
         /\ header' = [header EXCEPT ![r] = h]
  BY <1>1
<1>4. /\ pc[r] = "idle" /\ given' = [given EXCEPT ![r] = NoContent]
      /\ UNCHANGED <<worldVars, sharedVars, body, pack, want, unsaved>>
  BY DEF Accept, At
<1>5. PICK point \in {"pre", "relay"} :
         /\ pc' = [pc EXCEPT ![r] = point]
         /\ point = "pre" <=> p.kind = "tarball"
  BY <1>1
<1>6. TypeOK'
  <2>1. pc' \in [Requests -> Points] /\ given' \in [Requests -> Bytes \cup {NoContent}]
    BY <1>0, <1>4, <1>5 DEF TypeOK, Points
  <2>2. /\ route' \in [Requests -> {"none", "metadata", "tarball"}]
        /\ head' \in [Requests -> BOOLEAN]
    BY <1>0, <1>1, <1>b, <1>2 DEF TypeOK
  <2>3. /\ ver' \in [Requests -> Versions \cup {NoVersion}]
        /\ header' \in [Requests -> Headers \cup {NoIntegrity}]
    BY <1>0, <1>3 DEF TypeOK
  <2> QED
    BY <1>0, <1>4, <2>1, <2>2, <2>3 DEF TypeOK, worldVars, sharedVars
<1>7. Offers'
  BY <1>0, <1>4 DEF Offers, worldVars, sharedVars
<1>8. Sane(r)'
  <2>1. /\ pc'[r] = point /\ route'[r] = p.kind /\ body'[r] = body[r]
    BY <1>0, <1>1, <1>4, <1>5 DEF TypeOK
  <2>2. body[r] = NoContent
    BY <1>0, <1>4 DEF Sane, Bodied
  <2> QED
    BY <1>2, <1>5, <2>1, <2>2 DEF Sane, Path, Bodied, Expected, Inspected, Guarded, Expecting
<1>9. ASSUME NEW q \in Requests, q # r PROVE Sane(q)'
  <2>1. Grows
    BY <1>4 DEF Grows, worldVars, sharedVars
  <2>2. /\ pc'[q] = pc[q] /\ route'[q] = route[q] /\ head'[q] = head[q] /\ ver'[q] = ver[q]
        /\ header'[q] = header[q] /\ body'[q] = body[q] /\ want'[q] = want[q]
        /\ unsaved'[q] = unsaved[q]
    BY <1>0, <1>1, <1>b, <1>3, <1>4, <1>5, <1>9 DEF TypeOK
  <2> QED
    BY <1>0, <2>1, <2>2, Undisturbed
<1> QED
  BY <1>6, <1>7, <1>8, <1>9 DEF IInv

\* PreCheck: evaluation, before anything is fetched.
LEMMA PreCheckStep ==
    ASSUME IInv, NEW r \in Requests, PreCheck(r)
    PROVE  IInv'
<1>0. TypeOK /\ Sane(r) /\ pc[r] = "pre" /\ route[r] = "tarball"
  BY DEF IInv, PreCheck, At, Sane, Path
<1>1. UNCHANGED <<worldVars, quarantined, index, stored>>
  BY DEF PreCheck
<1>2. CASE ver[r] \in Versions /\ Block(r, "policy")
  BY <1>1, <1>2, BlockStep
<1>3. CASE Reply(r) /\ UNCHANGED docs
  BY <1>1, <1>3, ReplyStep DEF sharedVars
<1>4. CASE /\ ver[r] \in permitted \/ Unevaluated(r)
           /\ Go(r, IF quarantined /\ ~head[r] THEN "fetch" ELSE "relay")
           /\ UNCHANGED <<docs, localVars>>
  <2> DEFINE point == IF quarantined /\ ~head[r] THEN "fetch" ELSE "relay"
  <2>1. /\ point \in {"fetch", "relay"}
        /\ point = "fetch" => quarantined /\ ~head[r] /\ ver[r] \in Versions
        /\ point = "relay" => head[r] \/ ~quarantined
    BY <1>0, <1>4 DEF Unevaluated, TypeOK
  <2>2. Go(r, point)
    BY <1>4
  <2> HIDE DEF point
  <2>3. pc'[r] = point /\ body[r] = NoContent
    BY <1>0, <2>2 DEF Go, TypeOK, Sane, Bodied
  <2>4. Path(r)'
    BY <1>0, <1>1, <1>4, <2>1, <2>3 DEF Path, localVars, Guarded
  <2>5. Sane(r)'
    BY <1>1, <1>4, <2>1, <2>3, <2>4 DEF Sane, Bodied, Expected, Inspected, localVars, Guarded, Expecting
  <2>6. point \in Points
    BY <2>1 DEF Points
  <2>7. /\ docs \subseteq Versions \X Watched /\ stored \subseteq [algo : DOMAIN DigestLen, of : Bytes]
    BY <1>0 DEF TypeOK
  <2> QED
    BY <1>1, <1>4, <2>2, <2>5, <2>6, <2>7, WalkStep
<1> QED
  BY <1>2, <1>3, <1>4 DEF PreCheck

\* The steps that end a handler on the ordinary path.
LEMMA OrdinaryEndStep ==
    ASSUME IInv, NEW r \in Requests,
           ServeDirectly(r) \/ RoundTripFails(r) \/ PassStatus(r) \/ RelayIndexed(r) \/ CopyCut(r)
    PROVE  IInv'
<1>1. CASE ServeDirectly(r) \/ RoundTripFails(r) \/ PassStatus(r) \/ RelayIndexed(r)
  BY <1>1, ReplyStep DEF ServeDirectly, RoundTripFails, PassStatus, RelayIndexed
<1>2. CASE CopyCut(r)
  <2>1. UNCHANGED <<worldVars, sharedVars>> /\ (Deliver(r, Damaged) \/ Reply(r))
    BY <1>2 DEF CopyCut
  <2>2. Damaged \in Bytes
    BY DEF Bytes
  <2>3. docs \subseteq Versions \X Watched /\ stored \subseteq [algo : DOMAIN DigestLen, of : Bytes]
    BY DEF IInv, TypeOK
  <2> QED
    BY <2>1, <2>2, <2>3, ReplyStep, DeliverStep DEF sharedVars
<1> QED
  BY <1>1, <1>2

\* A packument or a tarball arrives: it is what the registry holds.
LEMMA ArrivalStep ==
    ASSUME IInv, NEW r \in Requests, RelayReply(r) \/ FetchReply(r) \/ MetaReply(r)
    PROVE  IInv'
<1>0. TypeOK /\ Offers /\ \A q \in Requests : Sane(q)
  BY DEF IInv
<1>1. UNCHANGED <<worldVars, sharedVars>>
  BY DEF RelayReply, FetchReply, MetaReply
<1>2. CASE RelayReply(r) /\ Reply(r)
  BY <1>1, <1>2, ReplyStep
<1>3. ASSUME NEW p \in {registry, NoPack}, pack' = [pack EXCEPT ![r] = p],
             \/ pc[r] = "relay" /\ route[r] = "metadata" /\ ~head[r] /\ Go(r, "copy")
             \/ pc[r] = "fetchMeta" /\ Go(r, "indexMeta"),
             UNCHANGED <<route, head, ver, header, body, want, given, unsaved>>
      PROVE  IInv'
  <2>1. PICK point \in {"copy", "indexMeta"} :
           /\ pc' = [pc EXCEPT ![r] = point]
           /\ point = "copy" => pc[r] = "relay" /\ route[r] = "metadata" /\ ~head[r]
           /\ point = "indexMeta" => pc[r] = "fetchMeta"
    BY <1>3 DEF Go
  <2>2. p \in Packs
    BY <1>0 DEF TypeOK, NoPack, Packs
  <2>3. TypeOK'
    <3>1. pc' \in [Requests -> Points]
      BY <1>0, <2>1 DEF TypeOK, Points
    <3>2. pack' \in [Requests -> Packs]
      BY <1>0, <1>3, <2>2 DEF TypeOK
    <3> QED
      BY <1>0, <1>1, <1>3, <3>1, <3>2 DEF TypeOK, worldVars, sharedVars
  <2>4. Offers'
    <3>1. \A v \in Versions : p[v] # NoDist => <<v, p[v].content>> \in offered
      BY <1>0, <1>3 DEF Offers, NoPack
    <3>2. \A q \in Requests : pack'[q] = IF q = r THEN p ELSE pack[q]
      BY <1>0, <1>3 DEF TypeOK
    <3> QED
      BY <1>0, <1>1, <3>1, <3>2 DEF Offers, worldVars, sharedVars
  <2>5. Grows
    BY <1>1 DEF Grows, worldVars, sharedVars
  <2>6. Sane(r)'
    <3>1. pc'[r] = point
      BY <1>0, <2>1 DEF TypeOK
    <3>2. Path(r)'
      BY <1>0, <1>1, <1>3, <2>1, <3>1 DEF Sane, Path, Guarded, sharedVars
    <3>3. Bodied(r)'
      BY <1>0, <1>1, <1>3, <2>1, <3>1 DEF Sane, Bodied, Guarded, worldVars
    <3> QED
      BY <1>0, <1>3, <2>1, <3>1, <3>2, <3>3 DEF Sane, Expected, Inspected, Expecting
  <2>7. ASSUME NEW q \in Requests, q # r PROVE Sane(q)'
    <3>1. pc'[q] = pc[q]
      BY <1>0, <2>1, <2>7 DEF TypeOK
    <3> QED
      BY <1>0, <1>3, <2>5, <3>1, Undisturbed
  <2> QED
    BY <2>3, <2>4, <2>6, <2>7 DEF IInv
<1>4. ASSUME NEW b \in Bytes, Serves(ver[r], b), body' = [body EXCEPT ![r] = b],
             route[r] = "tarball",
             \/ pc[r] = "relay" /\ ~head[r] /\ Go(r, "copy")
             \/ pc[r] = "fetch" /\ Go(r, "resolve"),
             UNCHANGED <<route, head, ver, header, pack, want, given, unsaved>>
      PROVE  IInv'
  <2>1. PICK point \in {"copy", "resolve"} :
           /\ pc' = [pc EXCEPT ![r] = point]
           /\ point = "copy" => pc[r] = "relay" /\ ~head[r]
           /\ point = "resolve" => pc[r] = "fetch"
    BY <1>4 DEF Go
  <2>2. TypeOK'
    <3>1. pc' \in [Requests -> Points]
      BY <1>0, <2>1 DEF TypeOK, Points
    <3>2. body' \in [Requests -> Bytes \cup {NoContent}]
      BY <1>0, <1>4 DEF TypeOK
    <3> QED
      BY <1>0, <1>1, <1>4, <3>1, <3>2 DEF TypeOK, worldVars, sharedVars
  <2>3. Offers'
    BY <1>0, <1>1, <1>4 DEF Offers, worldVars, sharedVars
  <2>4. Grows
    BY <1>1 DEF Grows, worldVars, sharedVars
  <2>5. Sane(r)'
    <3>1. pc'[r] = point /\ body'[r] = b
      BY <1>0, <1>4, <2>1 DEF TypeOK
    <3>2. Path(r)'
      BY <1>0, <1>1, <1>4, <2>1, <3>1 DEF Sane, Path, Guarded, sharedVars
    <3>3. ver[r] \in Versions \cup {NoVersion} /\ b # NoContent
      BY <1>0, ContentsAssumption DEF TypeOK
    <3>4. ver[r] = NoVersion \/ b = Damaged \/ <<ver[r], b>> \in offered
      BY <1>0, <1>4, <3>3 DEF Serves, Offers
    <3>5. Bodied(r)'
      BY <1>1, <1>4, <2>1, <3>1, <3>3, <3>4 DEF Bodied, Guarded, worldVars
    <3> QED
      BY <2>1, <3>1, <3>2, <3>5 DEF Sane, Expected, Inspected, Expecting
  <2>6. ASSUME NEW q \in Requests, q # r PROVE Sane(q)'
    <3>1. pc'[q] = pc[q] /\ body'[q] = body[q]
      BY <1>0, <1>4, <2>1, <2>6 DEF TypeOK
    <3> QED
      BY <1>0, <1>4, <2>4, <3>1, Undisturbed
  <2> QED
    BY <2>2, <2>3, <2>5, <2>6 DEF IInv
<1>5. CASE RelayReply(r)
  BY <1>2, <1>3, <1>4, <1>5 DEF RelayReply, At
<1>6. CASE FetchReply(r)
  <2>1. pc[r] = "fetch" /\ route[r] = "tarball"
    BY <1>0, <1>6 DEF FetchReply, At, Sane, Path, Guarded
  <2> QED
    BY <1>4, <1>6, <2>1 DEF FetchReply
<1>7. CASE MetaReply(r)
  BY <1>3, <1>7 DEF MetaReply, At
<1> QED
  BY <1>5, <1>6, <1>7

\* Copy: a tarball is delivered, a packument goes on to be indexed.
LEMMA CopyStep ==
    ASSUME IInv, NEW r \in Requests, Copy(r)
    PROVE  IInv'
<1>0. TypeOK /\ Sane(r) /\ pc[r] = "copy" /\ UNCHANGED <<worldVars, sharedVars>>
  BY DEF IInv, Copy, At
<1>1. /\ docs' = docs /\ stored' = stored /\ UNCHANGED <<quarantined, index>>
      /\ docs \subseteq Versions \X Watched /\ stored \subseteq [algo : DOMAIN DigestLen, of : Bytes]
  BY <1>0 DEF TypeOK, sharedVars
<1>2. CASE Deliver(r, body[r])
  <2>1. body[r] \in Bytes \cup {NoContent}
    BY <1>0 DEF TypeOK
  <2> QED
    BY <1>0, <1>1, <1>2, <2>1, DeliverStep
<1>3. CASE route[r] = "metadata" /\ Go(r, "indexing") /\ UNCHANGED localVars
  <2>1. pc'[r] = "indexing" /\ "indexing" \in Points
    BY <1>0, <1>3 DEF TypeOK, Go, Points
  <2>2. Path(r)'
    BY <1>0, <1>3, <2>1 DEF Path, localVars, Guarded
  <2>3. Bodied(r)'
    BY <1>0, <1>3, <2>1 DEF Sane, Bodied, localVars, Guarded, worldVars
  <2>4. Sane(r)'
    BY <2>1, <2>2, <2>3 DEF Sane, Expected, Inspected, Expecting
  <2> QED
    BY <1>0, <1>1, <1>3, <2>1, <2>4, WalkStep
<1> QED
  BY <1>2, <1>3 DEF Copy

\* IntegrityIndex.Set: what goes into the index was advertised.
LEMMA IndexStep ==
    ASSUME IInv, NEW r \in Requests, IndexSet(r)
    PROVE  IInv'
<1>0. TypeOK /\ Offers /\ \A q \in Requests : Sane(q)
  BY DEF IInv
<1>1. PICK v \in Pending(r) : /\ index' = [index EXCEPT ![v] = Advertised(pack[r][v])]
                              /\ pack' = [pack EXCEPT ![r][v] = NoDist]
  BY DEF IndexSet
<1>2. UNCHANGED <<worldVars, quarantined, stored, docs, pc, route, head, ver, header, body, want, given, unsaved>>
  BY DEF IndexSet
<1>3. v \in Versions /\ Advertised(pack[r][v]) # NoIntegrity
  BY DEF Pending
<1>4. pack[r] \in Packs /\ pack[r][v] \in Dists \cup {NoDist}
  BY <1>0, <1>3 DEF TypeOK, Packs
<1>5. /\ Advertised(pack[r][v]) \in Integrity
      /\ pack[r][v] # NoDist /\ Advertised(pack[r][v]).of = pack[r][v].content
  BY <1>3, <1>4, AdvertisedDigest
<1>6. \A w \in Versions : index'[w] = IF w = v THEN Advertised(pack[r][v]) ELSE index[w]
  BY <1>0, <1>1 DEF TypeOK
<1>7. \A q \in Requests, w \in Versions :
         pack'[q][w] = IF q = r /\ w = v THEN NoDist ELSE pack[q][w]
  BY <1>0, <1>1 DEF TypeOK, Packs
<1>8. TypeOK'
  <2>1. index' \in [Versions -> Integrity \cup {NoIntegrity}]
    BY <1>0, <1>1, <1>5 DEF TypeOK
  <2>2. [pack[r] EXCEPT ![v] = NoDist] \in Packs
    BY <1>4 DEF Packs
  <2>3. pack' \in [Requests -> Packs]
    BY <1>0, <1>1, <2>2 DEF TypeOK
  <2> QED
    BY <1>0, <1>2, <2>1, <2>3 DEF TypeOK, worldVars
<1>9. Offers'
  <2>1. <<v, Advertised(pack[r][v]).of>> \in offered
    BY <1>0, <1>3, <1>5 DEF Offers
  <2>2. registry' = registry /\ offered' = offered
    BY <1>2 DEF worldVars
  <2>3. \A w \in Versions : index'[w] # NoIntegrity => <<w, index'[w].of>> \in offered
    BY <1>0, <1>6, <2>1 DEF Offers
  <2>4. \A q \in Requests, w \in Versions :
           pack'[q][w] # NoDist => <<w, pack'[q][w].content>> \in offered
    BY <1>0, <1>7 DEF Offers
  <2> QED
    BY <1>0, <2>2, <2>3, <2>4 DEF Offers
<1>10. Grows
  BY <1>2 DEF Grows, worldVars
<1>11. \A q \in Requests : Sane(q)'
  BY <1>0, <1>2, <1>10, Undisturbed
<1> QED
  BY <1>8, <1>9, <1>11 DEF IInv

\* The packument is done with.
LEMMA MetaIndexedStep ==
    ASSUME IInv, NEW r \in Requests, MetaIndexed(r)
    PROVE  IInv'
<1>0. TypeOK /\ Offers /\ \A q \in Requests : Sane(q)
  BY DEF IInv
<1>1. /\ pc[r] = "indexMeta" /\ pc' = [pc EXCEPT ![r] = "lookup"]
      /\ pack' = [pack EXCEPT ![r] = NoPack]
      /\ UNCHANGED <<worldVars, sharedVars, route, head, ver, header, body, want, given, unsaved>>
  BY DEF MetaIndexed, At, Go
<1>2. TypeOK'
  <2>1. NoPack \in Packs /\ "lookup" \in Points
    BY DEF NoPack, Packs, Points
  <2>2. pc' \in [Requests -> Points] /\ pack' \in [Requests -> Packs]
    BY <1>0, <1>1, <2>1 DEF TypeOK
  <2> QED
    BY <1>0, <1>1, <2>2 DEF TypeOK, worldVars, sharedVars
<1>3. Offers'
  <2>1. \A q \in Requests : pack'[q] = IF q = r THEN NoPack ELSE pack[q]
    BY <1>0, <1>1 DEF TypeOK
  <2> QED
    BY <1>0, <1>1, <2>1 DEF Offers, NoPack, worldVars, sharedVars
<1>4. Grows
  BY <1>1 DEF Grows, worldVars, sharedVars
<1>5. Sane(r)'
  <2>1. pc'[r] = "lookup"
    BY <1>0, <1>1 DEF TypeOK
  <2>2. Path(r)'
    BY <1>0, <1>1, <2>1 DEF Sane, Path, Guarded, sharedVars
  <2>3. Bodied(r)'
    BY <1>0, <1>1, <2>1 DEF Sane, Bodied, Guarded, worldVars
  <2> QED
    BY <1>0, <1>1, <2>1, <2>2, <2>3 DEF Sane, Expected, Inspected, Expecting
<1>6. ASSUME NEW q \in Requests, q # r PROVE Sane(q)'
  <2>1. pc'[q] = pc[q]
    BY <1>0, <1>1, <1>6 DEF TypeOK
  <2> QED
    BY <1>0, <1>1, <1>4, <2>1, Undisturbed
<1> QED
  BY <1>2, <1>3, <1>5, <1>6 DEF IInv

\* A request settles on a digest: its header, or what is indexed for its
\* version.
LEMMA ExpectStep ==
    ASSUME IInv, NEW r \in Requests, pc[r] \in {"resolve", "lookup"}, NEW d \in Integrity,
           \/ header[r] # NoIntegrity /\ d = header[r]
           \/ header[r] = NoIntegrity /\ <<ver[r], d.of>> \in offered,
           Expect(r, d), UNCHANGED <<worldVars, sharedVars>>
    PROVE  IInv'
<1>0. TypeOK /\ Offers /\ \A q \in Requests : Sane(q)
  BY DEF IInv
<1>1. /\ pc' = [pc EXCEPT ![r] = "ingest"] /\ want' = [want EXCEPT ![r] = d]
      /\ UNCHANGED <<route, head, ver, header, body, pack, given, unsaved>>
  BY DEF Expect, Go
<1>2. TypeOK'
  <2>1. pc' \in [Requests -> Points] /\ want' \in [Requests -> Integrity \cup {NoIntegrity}]
    BY <1>0, <1>1 DEF TypeOK, Points
  <2> QED
    BY <1>0, <1>1, <2>1 DEF TypeOK, worldVars, sharedVars
<1>3. Offers'
  BY <1>0, <1>1 DEF Offers, worldVars, sharedVars
<1>4. Grows
  BY DEF Grows, worldVars, sharedVars
<1>5. Sane(r)'
  <2>1. pc'[r] = "ingest" /\ want'[r] = d /\ d # NoIntegrity
    BY <1>0, <1>1, NoneAssumption DEF TypeOK
  <2>2. Path(r)'
    BY <1>0, <1>1, <2>1 DEF Sane, Path, Guarded, sharedVars
  <2>3. Bodied(r)'
    BY <1>0, <1>1, <2>1 DEF Sane, Bodied, Guarded, worldVars
  <2>4. Expected(r)'
    BY <1>1, <2>1 DEF Expected, worldVars
  <2> QED
    BY <2>1, <2>2, <2>3, <2>4 DEF Sane, Inspected
<1>6. ASSUME NEW q \in Requests, q # r PROVE Sane(q)'
  <2>1. pc'[q] = pc[q] /\ want'[q] = want[q]
    BY <1>0, <1>1, <1>6 DEF TypeOK
  <2> QED
    BY <1>0, <1>1, <1>4, <2>1, Undisturbed
<1> QED
  BY <1>2, <1>3, <1>5, <1>6 DEF IInv

\* resolveExpectedIntegrity.
LEMMA ResolveStep ==
    ASSUME IInv, NEW r \in Requests, Resolve(r) \/ MetaFails(r) \/ Lookup(r)
    PROVE  IInv'
<1>0. TypeOK /\ Offers /\ Sane(r) /\ pc[r] \in {"resolve", "fetchMeta", "lookup"}
  BY DEF IInv, Resolve, MetaFails, Lookup, At
<1>1. ver[r] \in Versions
  BY <1>0 DEF Sane, Path, Guarded
<1>2. UNCHANGED <<worldVars, quarantined, index, stored>>
  BY DEF Resolve, MetaFails, Lookup, sharedVars
<1>3. CASE Block(r, "unresolvable")
  BY <1>1, <1>2, <1>3, BlockStep
<1>4. CASE Resolve(r) /\ header[r] # NoIntegrity /\ Expect(r, header[r])
  <2>1. header[r] \in Integrity
    BY <1>0, <1>4, HeaderContent DEF TypeOK
  <2>2. pc[r] = "resolve" /\ UNCHANGED <<worldVars, sharedVars>>
    BY <1>4 DEF Resolve, At
  <2> QED
    BY <1>4, <2>1, <2>2, ExpectStep
<1>5. CASE /\ pc[r] \in {"resolve", "lookup"} /\ header[r] = NoIntegrity
           /\ index[ver[r]] # NoIntegrity /\ Expect(r, index[ver[r]]) /\ UNCHANGED docs
  <2>1. index[ver[r]] \in Integrity /\ <<ver[r], index[ver[r]].of>> \in offered
    BY <1>0, <1>1, <1>5 DEF TypeOK, Offers
  <2>2. UNCHANGED <<worldVars, sharedVars>>
    BY <1>2, <1>5 DEF sharedVars
  <2> QED
    BY <1>5, <2>1, <2>2, ExpectStep
<1>6. CASE /\ pc[r] = "resolve" /\ header[r] = NoIntegrity
           /\ Go(r, "fetchMeta") /\ UNCHANGED <<localVars, docs>>
  <2>1. pc'[r] = "fetchMeta" /\ "fetchMeta" \in Points
    BY <1>0, <1>6 DEF TypeOK, Go, Points
  <2>2. Path(r)'
    BY <1>0, <1>2, <1>6, <2>1 DEF Sane, Path, Guarded, localVars
  <2>3. Bodied(r)'
    BY <1>0, <1>2, <1>6, <2>1 DEF Sane, Bodied, Guarded, localVars, worldVars
  <2>4. Sane(r)'
    BY <1>6, <2>1, <2>2, <2>3 DEF Sane, Expected, Inspected, Expecting, localVars
  <2>5. docs \subseteq Versions \X Watched /\ stored \subseteq [algo : DOMAIN DigestLen, of : Bytes]
    BY <1>0 DEF TypeOK
  <2> QED
    BY <1>2, <1>6, <2>1, <2>4, <2>5, WalkStep
<1>7. CASE Resolve(r)
  BY <1>4, <1>5, <1>6, <1>7 DEF Resolve, At, sharedVars
<1>8. CASE MetaFails(r)
  BY <1>3, <1>8 DEF MetaFails
<1>9. CASE Lookup(r)
  <2>1. pc[r] = "lookup"
    BY <1>9 DEF Lookup, At
  <2>2. CASE Block(r, "unresolvable")
    BY <1>3, <2>2
  <2>3. CASE index[ver[r]] # NoIntegrity /\ Expect(r, index[ver[r]]) /\ UNCHANGED docs
    <3>1. header[r] = NoIntegrity
      BY <1>0, <2>1 DEF Sane, Expected
    <3> QED
      BY <1>5, <2>1, <2>3, <3>1
  <2> QED
    BY <1>9, <2>2, <2>3 DEF Lookup
<1> QED
  BY <1>7, <1>8, <1>9

\* Manager.Ingest.
LEMMA IngestStep ==
    ASSUME IInv, NEW r \in Requests, Ingest(r)
    PROVE  IInv'
<1> DEFINE k == ParseDigest(want[r])
<1>0. /\ TypeOK /\ Offers /\ \A q \in Requests : Sane(q)
      /\ pc[r] = "ingest" /\ ver[r] \in Versions
  BY DEF IInv, Ingest, At, Sane, Path, Guarded
<1>1. UNCHANGED <<worldVars, quarantined, index>>
  BY DEF Ingest
<1>2. CASE Reply(r) /\ UNCHANGED <<stored, docs>>
  BY <1>1, <1>2, ReplyStep DEF sharedVars
<1>3. CASE Block(r, "mismatch") /\ UNCHANGED stored
  BY <1>0, <1>1, <1>3, BlockStep
<1>4. CASE /\ k # NoKey /\ stored' = stored \cup {k}
           /\ body' = [body EXCEPT ![r] = NoContent]
           /\ Go(r, "inspect")
           /\ UNCHANGED <<docs, route, head, ver, header, pack, want, given, unsaved>>
  <2>1. want[r] \in Integrity
    BY <1>0 DEF TypeOK, Sane, Expected, Expecting
  <2>2. k \in [algo : DOMAIN DigestLen, of : Bytes]
    BY <1>4, <2>1, ParsedDigest
  <2> HIDE DEF k
  <2>3. /\ stored' \subseteq [algo : DOMAIN DigestLen, of : Bytes]
        /\ pc' \in [Requests -> Points] /\ body' \in [Requests -> Bytes \cup {NoContent}]
    BY <1>0, <1>4, <2>2 DEF TypeOK, Go, Points
  <2>4. TypeOK'
    BY <1>0, <1>1, <1>4, <2>3 DEF TypeOK, worldVars
  <2>5. Offers'
    BY <1>0, <1>1, <1>4 DEF Offers, worldVars
  <2>6. Sane(r)'
    <3>1. pc'[r] = "inspect" /\ body'[r] = NoContent
      BY <1>0, <1>4 DEF TypeOK, Go
    <3>2. Path(r)'
      BY <1>0, <1>1, <1>4, <3>1 DEF Sane, Path, Guarded
    <3>3. Expected(r)'
      BY <1>0, <1>1, <1>4, <3>1 DEF Sane, Expected, Expecting, worldVars
    <3> QED
      BY <3>1, <3>2, <3>3 DEF Sane, Bodied, Inspected
  <2>7. ASSUME NEW q \in Requests, q # r PROVE Sane(q)'
    <3>1. pc'[q] = pc[q] /\ body'[q] = body[q]
      BY <1>0, <1>4, <2>7 DEF TypeOK, Go
    <3>2. Grows
      BY <1>1, <1>4 DEF Grows, worldVars
    <3> QED
      BY <1>0, <1>4, <3>1, <3>2, Undisturbed
  <2> QED
    BY <2>4, <2>5, <2>6, <2>7 DEF IInv
<1> QED
  BY <1>2, <1>3, <1>4 DEF Ingest

\* Manager.Inspect: what goes on is fit to be delivered, and a truncated
\* inspection is on record.
LEMMA InspectStep ==
    ASSUME IInv, NEW r \in Requests, Inspect(r)
    PROVE  IInv'
<1> DEFINE finding == Inspection[want[r].of]
<1>0. /\ TypeOK /\ Offers /\ \A q \in Requests : Sane(q)
      /\ pc[r] = "inspect" /\ ver[r] \in Versions
  BY DEF IInv, Inspect, At, Sane, Path, Guarded
<1>1. UNCHANGED <<worldVars, quarantined, index, stored>>
  BY DEF Inspect
<1>2. CASE Block(r, finding)
  BY <1>0, <1>1, <1>2, BlockStep
<1>3. ASSUME finding \notin {"unsafe", "dangerous"}, Go(r, "post"),
             UNCHANGED <<route, head, ver, header, body, pack, want, given>>,
             docs \subseteq docs', docs' \subseteq Versions \X Watched,
             NEW lost \in BOOLEAN, unsaved' = [unsaved EXCEPT ![r] = lost],
             finding = "truncated" => <<ver[r], "truncated">> \in docs' \/ lost
      PROVE  IInv'
  <2>1. /\ pc' \in [Requests -> Points] /\ pc'[r] = "post"
        /\ unsaved' \in [Requests -> BOOLEAN] /\ unsaved'[r] = lost
    BY <1>0, <1>3 DEF TypeOK, Go, Points
  <2>2. TypeOK'
    BY <1>0, <1>1, <1>3, <2>1 DEF TypeOK, worldVars
  <2>3. Offers'
    BY <1>0, <1>1, <1>3 DEF Offers, worldVars
  <2>4. Path(r)'
    BY <1>0, <1>1, <1>3, <2>1 DEF Sane, Path, Guarded
  <2>5. Bodied(r)'
    BY <1>0, <1>1, <1>3, <2>1 DEF Sane, Bodied, worldVars
  <2>6. Expected(r)'
    BY <1>0, <1>1, <1>3, <2>1 DEF Sane, Expected, Expecting, worldVars
  <2>7. Inspected(r)'
    BY <1>3, <2>1 DEF Inspected
  <2>8. ASSUME NEW q \in Requests, q # r PROVE Sane(q)'
    <3>1. pc'[q] = pc[q] /\ unsaved'[q] = unsaved[q]
      BY <1>0, <1>3, <2>8 DEF TypeOK, Go
    <3>2. Grows
      BY <1>1, <1>3 DEF Grows, worldVars
    <3> QED
      BY <1>0, <1>3, <3>1, <3>2, Undisturbed
  <2> QED
    BY <2>2, <2>3, <2>4, <2>5, <2>6, <2>7, <2>8 DEF IInv, Sane
<1>4. CASE /\ finding = "truncated" /\ Save(r, finding)
           /\ unsaved' = [unsaved EXCEPT ![r] = <<ver[r], finding>> \notin docs']
           /\ Go(r, "post")
           /\ UNCHANGED <<route, head, ver, header, body, pack, want, given>>
  <2> DEFINE lost == <<ver[r], finding>> \notin docs'
  <2>1. docs \subseteq docs' /\ docs' \subseteq Versions \X Watched
    BY <1>0, <1>4, SaveGrows
  <2>2. lost \in BOOLEAN /\ unsaved' = [unsaved EXCEPT ![r] = lost]
    BY <1>4
  <2>3. <<ver[r], "truncated">> \in docs' \/ lost
    BY <1>4
  <2> HIDE DEF lost
  <2> QED
    BY <1>3, <1>4, <2>1, <2>2, <2>3
<1>5. CASE finding = "clean" /\ Go(r, "post") /\ UNCHANGED <<docs, localVars>>
  <2>1. docs \subseteq docs' /\ docs' \subseteq Versions \X Watched
    BY <1>0, <1>5 DEF TypeOK
  <2>2. unsaved[r] \in BOOLEAN /\ unsaved' = [unsaved EXCEPT ![r] = unsaved[r]]
    BY <1>0, <1>5 DEF TypeOK, localVars
  <2> QED
    BY <1>3, <1>5, <2>1, <2>2 DEF localVars
<1> QED
  BY <1>2, <1>4, <1>5 DEF Inspect

\* The second evaluation, and the release.
LEMMA ReleaseStep ==
    ASSUME IInv, NEW r \in Requests,
           PostCheck(r) \/ Release(r) \/ ReleaseMismatch(r) \/ QuarantineFails(r)
    PROVE  IInv'
<1>0. /\ TypeOK /\ Sane(r) /\ pc[r] \in {"ingest", "post", "release"} /\ ver[r] \in Versions
      /\ docs \subseteq Versions \X Watched /\ stored \subseteq [algo : DOMAIN DigestLen, of : Bytes]
  BY DEF IInv, PostCheck, Release, ReleaseMismatch, QuarantineFails, At, Sane, Path, Guarded, TypeOK
<1>1. UNCHANGED <<worldVars, quarantined, index, stored>>
  BY DEF PostCheck, Release, ReleaseMismatch, QuarantineFails, sharedVars
<1>2. CASE PostCheck(r)
  <2>1. CASE Block(r, "policy")
    BY <1>0, <1>1, <2>1, BlockStep
  <2>2. CASE Reply(r) /\ UNCHANGED docs
    BY <1>1, <2>2, ReplyStep DEF sharedVars
  <2>3. CASE Go(r, "release") /\ UNCHANGED <<docs, localVars>>
    <3>1. pc[r] = "post" /\ pc'[r] = "release" /\ "release" \in Points
      BY <1>0, <1>2, <2>3 DEF TypeOK, PostCheck, At, Go, Points
    <3>2. Path(r)'
      BY <1>0, <1>1, <2>3, <3>1 DEF Sane, Path, Guarded, localVars
    <3>3. Bodied(r)'
      BY <1>0, <1>1, <2>3, <3>1 DEF Sane, Bodied, Guarded, localVars, worldVars
    <3>4. Expected(r)'
      BY <1>0, <1>1, <2>3, <3>1 DEF Sane, Expected, Expecting, localVars, worldVars
    <3>5. Inspected(r)'
      BY <1>0, <2>3, <3>1 DEF Sane, Inspected, localVars
    <3>6. Sane(r)'
      BY <3>2, <3>3, <3>4, <3>5 DEF Sane
    <3> QED
      BY <1>0, <1>1, <2>3, <3>1, <3>6, WalkStep
  <2> QED
    BY <1>2, <2>1, <2>2, <2>3 DEF PostCheck
<1>3. CASE Release(r)
  <2>1. want[r] \in Integrity
    BY <1>0, <1>3 DEF Release, At, TypeOK, Sane, Expected, Expecting
  <2>2. want[r].of \in Bytes
    BY <2>1 DEF Integrity
  <2> QED
    BY <1>0, <1>1, <1>3, <2>2, DeliverStep DEF Release, sharedVars
<1>4. CASE ReleaseMismatch(r)
  BY <1>0, <1>1, <1>4, BlockStep DEF ReleaseMismatch
<1>5. CASE QuarantineFails(r)
  BY <1>5, ReplyStep DEF QuarantineFails
<1> QED
  BY <1>2, <1>3, <1>4, <1>5

\* The registry publishes, or policy changes its mind.
LEMMA WorldStep ==
    ASSUME IInv, NEW v \in Versions, Publish(v) \/ PolicyChanges(v)
    PROVE  IInv'
<1>0. TypeOK /\ Offers /\ \A q \in Requests : Sane(q)
  BY DEF IInv
<1>1. UNCHANGED <<sharedVars, requestVars>>
  BY DEF Publish, PolicyChanges, sharedVars
<1>2. CASE Publish(v)
  <2>1. PICK c \in Contents, f \in Forms : /\ registry' = [registry EXCEPT ![v] = Dist(c, f)]
                                           /\ offered' = offered \cup {<<v, c>>}
    BY <1>2 DEF Publish
  <2>2. Dist(c, f) \in Dists /\ Dist(c, f).content = c
    BY DistContent
  <2>3. published' \in 0 .. MaxPublish
    BY <1>0, <1>2, PublishAssumption DEF Publish, TypeOK
  <2>4. registry' \in Packs
    BY <1>0, <2>1, <2>2 DEF TypeOK, Packs
  <2>5. offered' \subseteq Versions \X Contents /\ permitted' = permitted
    BY <1>0, <1>2, <2>1 DEF TypeOK, Publish
  <2>6. TypeOK'
    BY <1>0, <1>1, <2>3, <2>4, <2>5 DEF TypeOK, sharedVars, requestVars, localVars
  <2>7. Offers'
    <3>1. \A w \in Versions : registry'[w] = IF w = v THEN Dist(c, f) ELSE registry[w]
      BY <1>0, <2>1 DEF TypeOK, Packs
    <3> QED
      BY <1>0, <1>1, <2>1, <2>2, <3>1 DEF Offers, sharedVars, requestVars, localVars
  <2>8. Grows
    BY <1>1, <2>1 DEF Grows, sharedVars
  <2> QED
    BY <1>0, <1>1, <2>6, <2>7, <2>8, Undisturbed DEF IInv, requestVars, localVars
<1>3. CASE PolicyChanges(v)
  <2>1. permitted' \subseteq Versions /\ UNCHANGED <<registry, published, offered>>
    BY <1>0, <1>3 DEF TypeOK, PolicyChanges
  <2>2. TypeOK'
    BY <1>0, <1>1, <2>1 DEF TypeOK, sharedVars, requestVars, localVars
  <2>3. Offers'
    BY <1>0, <1>1, <2>1 DEF Offers, sharedVars, requestVars, localVars
  <2>4. Grows
    BY <1>1, <2>1 DEF Grows, sharedVars
  <2> QED
    BY <1>0, <1>1, <2>2, <2>3, <2>4, Undisturbed DEF IInv, requestVars, localVars
<1> QED
  BY <1>2, <1>3
-----------------------------------------------------------------------------
(* The invariant, and what it says of alarms and records.                  *)

\* Initially the catalog has been offered and no request is there.
LEMMA InitInvariant == Init => IInv
<1> SUFFICES ASSUME Init PROVE IInv
  OBVIOUS
<1>1. NoPack \in Packs /\ Catalog \in Packs
  BY CatalogAssumption DEF NoPack, Packs
<1>2. \A v \in Versions : Catalog[v] # NoDist => Catalog[v].content \in Contents
  BY <1>1, DistContent DEF Packs
<1>3. offered \subseteq Versions \X Contents
  BY <1>2 DEF Init
<1>4. TypeOK
  BY <1>1, <1>3, PublishAssumption DEF Init, TypeOK, Points
<1>5. Offers
  <2>1. \A v \in Versions : Catalog[v] # NoDist => <<v, Catalog[v].content>> \in offered
    BY DEF Init
  <2>2. \A r \in Requests, v \in Versions : pack[r][v] = NoDist
    BY DEF Init, NoPack
  <2> QED
    BY <2>1, <2>2 DEF Init, Offers
<1>6. ASSUME NEW r \in Requests PROVE Sane(r)
  BY DEF Init, Sane, Path, Bodied, Expected, Inspected, Guarded, Expecting
<1> QED
  BY <1>4, <1>5, <1>6 DEF IInv

\* Every step keeps the invariant.
LEMMA StepInvariant == IInv /\ [Next]_vars => IInv'
<1> SUFFICES ASSUME IInv, [Next]_vars PROVE IInv'
  OBVIOUS
<1>1. ASSUME NEW r \in Requests, ServeHTTP(r) PROVE IInv'
  BY <1>1, AcceptStep, PreCheckStep, OrdinaryEndStep, ArrivalStep, CopyStep, IndexStep DEF ServeHTTP
<1>2. ASSUME NEW r \in Requests, handleQuarantinedTarball(r) PROVE IInv'
  BY <1>2, ArrivalStep, ResolveStep, MetaIndexedStep, IngestStep, InspectStep, ReleaseStep
     DEF handleQuarantinedTarball
<1>3. ASSUME NEW v \in Versions, Publish(v) \/ PolicyChanges(v) PROVE IInv'
  BY <1>3, WorldStep
<1>5. (\E v \in Volatile : PolicyChanges(v)) => \E v \in Versions : PolicyChanges(v)
  BY VolatileAssumption
<1>4. CASE UNCHANGED vars
  <2>1. UNCHANGED <<worldVars, sharedVars, requestVars>>
    BY <1>4 DEF vars
  <2>2. TypeOK' /\ Offers' /\ Grows
    BY <2>1 DEF IInv, TypeOK, Offers, Grows, worldVars, sharedVars, requestVars, localVars
  <2> QED
    BY <2>1, <2>2, Undisturbed DEF IInv, requestVars, localVars
<1> QED
  BY <1>1, <1>2, <1>3, <1>4, <1>5 DEF Next

\* Every digest in the gateway names content offered for its version, and the
\* types are right.
THEOREM Invariant == Spec => []IInv
BY InitInvariant, StepInvariant, PTL DEF Spec

\* No false alarm: a checksum mismatch has a cause outside the gateway, for
\* any number of requests and packuments that overtake one another.
THEOREM MismatchesHaveCauses == Spec => []MismatchHasCause
<1>1. IInv => MismatchHasCause
  <2> SUFFICES ASSUME IInv, NEW r \in Requests, pc[r] = "ingest", want[r].of # body[r],
                      body[r] # Damaged, header[r] = NoIntegrity
               PROVE  \E c, d \in Contents : c # d /\ {<<ver[r], c>>, <<ver[r], d>>} \subseteq offered
    BY DEF MismatchHasCause
  <2>1. Sane(r) /\ offered \subseteq Versions \X Contents
    BY DEF IInv, TypeOK
  <2>2. <<ver[r], body[r]>> \in offered
    BY <2>1, VersionsAssumption DEF Sane, Path, Bodied, Guarded
  <2>3. <<ver[r], want[r].of>> \in offered
    BY <2>1 DEF Sane, Expected, Expecting
  <2> QED
    BY <2>1, <2>2, <2>3
<1> QED
  BY <1>1, Invariant, PTL

\* Content whose inspection was cut short is on record before it is released,
\* or the store refused its document while this very request held it.
THEOREM TruncationsAreRecorded == Spec => []TruncationRecorded
<1>1. IInv => TruncationRecorded
  BY DEF IInv, Sane, Inspected, TruncationRecorded
<1> QED
  BY <1>1, Invariant, PTL
-----------------------------------------------------------------------------
(* The release gate.  Each step of a handler is one step of the gate for   *)
(* this request, or none.                                                  *)

\* A request as the gate sees it.
PhaseOf(r) == IF ~InGate(r) THEN "idle"
              ELSE IF pc[r] \in {"release", "relay", "copy"} THEN "cleared" ELSE "held"
AskedOf(r) == IF InGate(r) THEN ver[r] ELSE NoVersion
NamedOf(r) == IF InGate(r) /\ header[r] # NoIntegrity THEN header[r].of ELSE NoContent

\* The content that may not be given.
Unsound == {Damaged} \cup {c \in Contents : Inspection[c] \in {"unsafe", "dangerous"}}

\* A step changes how the gate sees request r, at most, to phase x about
\* version y with named content z and given content g.
Sees(r, x, y, z, g) ==
    /\ GatePhase' = [GatePhase EXCEPT ![r] = x]
    /\ GateAsked' = [GateAsked EXCEPT ![r] = y]
    /\ GateNamed' = [GateNamed EXCEPT ![r] = z]
    /\ given' = [given EXCEPT ![r] = g]
    /\ UNCHANGED <<quarantined, permitted, offered>>

\* The view is made of these.
LEMMA View ==
    /\ GatePhase = [q \in Requests |-> PhaseOf(q)]
    /\ GateAsked = [q \in Requests |-> AskedOf(q)]
    /\ GateNamed = [q \in Requests |-> NamedOf(q)]
    /\ \A r \in Requests : /\ GatePhase[r] = PhaseOf(r) /\ GateAsked[r] = AskedOf(r)
                           /\ GateNamed[r] = NamedOf(r)
<1>1. /\ GatePhase = [q \in Requests |-> PhaseOf(q)]
      /\ GateAsked = [q \in Requests |-> AskedOf(q)]
      /\ GateNamed = [q \in Requests |-> NamedOf(q)]
  BY DEF GatePhase, GateAsked, GateNamed, PhaseOf, AskedOf, NamedOf
<1> QED
  BY <1>1

\* The gate sees what changes of one request.
LEMMA Seen ==
    ASSUME NEW r \in Requests, NEW g, given' = [given EXCEPT ![r] = g],
           UNCHANGED <<quarantined, permitted, offered>>,
           \A q \in Requests : q # r =>
              /\ pc'[q] = pc[q] /\ route'[q] = route[q] /\ head'[q] = head[q]
              /\ ver'[q] = ver[q] /\ header'[q] = header[q]
    PROVE  Sees(r, PhaseOf(r)', AskedOf(r)', NamedOf(r)', g)
<1>1. /\ GatePhase' = [q \in Requests |-> PhaseOf(q)']
      /\ GateAsked' = [q \in Requests |-> AskedOf(q)']
      /\ GateNamed' = [q \in Requests |-> NamedOf(q)']
  BY DEF GatePhase, GateAsked, GateNamed, PhaseOf, AskedOf, NamedOf
<1>2. \A q \in Requests : q # r =>
         PhaseOf(q)' = PhaseOf(q) /\ AskedOf(q)' = AskedOf(q) /\ NamedOf(q)' = NamedOf(q)
  BY DEF PhaseOf, AskedOf, NamedOf, InGate
<1> QED
  BY <1>1, <1>2, View DEF Sees

\* A request the gate sees as it was.
LEMMA SeenStutter ==
    ASSUME TypeOK, NEW r \in Requests,
           Sees(r, PhaseOf(r), AskedOf(r), NamedOf(r), given[r])
    PROVE  UNCHANGED Gate!gateVars
<1>1. GatePhase' = GatePhase /\ GateAsked' = GateAsked /\ GateNamed' = GateNamed /\ given' = given
  BY View DEF Sees, TypeOK
<1> QED
  BY <1>1 DEF Sees, Gate!gateVars

\* Hold.
LEMMA SeenHold ==
    ASSUME TypeOK, NEW r \in Requests, PhaseOf(r) = "idle", NEW v \in Versions \cup {NoVersion},
           NEW c \in Bytes \cup {NoContent}, Sees(r, "held", v, c, NoContent)
    PROVE  Gate!GateNext
<1>1. Gate!Hold(r)
  BY View DEF Gate!Hold, Sees
<1>2. GatePhase' # GatePhase
  BY View DEF Sees
<1> QED
  BY <1>1, <1>2 DEF Gate!GateNext

\* Clear.
LEMMA SeenClear ==
    ASSUME TypeOK, NEW r \in Requests, PhaseOf(r) = "held",
           AskedOf(r) \in permitted \/ (AskedOf(r) = NoVersion /\ ~quarantined),
           Sees(r, "cleared", AskedOf(r), NamedOf(r), given[r])
    PROVE  Gate!GateNext
<1>1. GateAsked' = GateAsked /\ GateNamed' = GateNamed /\ given' = given
  BY View DEF Sees, TypeOK
<1>2. Gate!Clear(r)
  BY <1>1, View DEF Gate!Clear, Sees
<1>3. GatePhase' # GatePhase
  BY View DEF Sees
<1> QED
  BY <1>2, <1>3 DEF Gate!GateNext

\* TurnAway, which a request that is not there does not notice.
LEMMA SeenTurnAway ==
    ASSUME TypeOK, NEW r \in Requests, Sees(r, "idle", NoVersion, NoContent, NoContent)
    PROVE  Gate!GateNext \/ UNCHANGED Gate!gateVars
<1>1. CASE PhaseOf(r) = "idle" /\ given[r] = NoContent
  <2>1. AskedOf(r) = NoVersion /\ NamedOf(r) = NoContent
    BY <1>1 DEF PhaseOf, AskedOf, NamedOf
  <2> QED
    BY <1>1, <2>1, SeenStutter
<1>2. CASE PhaseOf(r) # "idle" \/ given[r] # NoContent
  <2>1. Gate!TurnAway(r)
    BY <1>2, View DEF Gate!TurnAway, Sees
  <2>2. GatePhase' # GatePhase \/ given' # given
    BY <1>2, View DEF Sees, TypeOK
  <2> QED
    BY <2>1, <2>2 DEF Gate!GateNext
<1> QED
  BY <1>1, <1>2

\* Give.
LEMMA SeenGive ==
    ASSUME TypeOK, NEW r \in Requests, NEW c \in Bytes, PhaseOf(r) = "cleared",
           quarantined => /\ c \notin Unsound
                          /\ <<AskedOf(r), c>> \in offered \/ NamedOf(r) = c,
           Sees(r, "idle", NoVersion, NoContent, c)
    PROVE  Gate!GateNext
<1>1. Gate!Give(r, c)
  BY View DEF Gate!Give, Gate!Sound, Sees, Unsound
<1>2. GatePhase' # GatePhase
  BY View DEF Sees
<1> QED
  BY <1>1, <1>2 DEF Gate!GateNext

\* The end of a handler is seen by the gate.
LEMMA DeliverSeen ==
    ASSUME TypeOK, NEW r \in Requests, NEW b, Deliver(r, b), UNCHANGED <<worldVars, quarantined>>
    PROVE  Sees(r, "idle", NoVersion, NoContent, b)
<1>1. /\ \A q \in Requests : q # r =>
            /\ pc'[q] = pc[q] /\ route'[q] = route[q] /\ head'[q] = head[q]
            /\ ver'[q] = ver[q] /\ header'[q] = header[q]
      /\ pc'[r] = "idle" /\ given' = [given EXCEPT ![r] = b]
  BY DEF Deliver, TypeOK
<1>2. PhaseOf(r)' = "idle" /\ AskedOf(r)' = NoVersion /\ NamedOf(r)' = NoContent
  BY <1>1 DEF PhaseOf, AskedOf, NamedOf, InGate
<1>3. UNCHANGED <<quarantined, permitted, offered>>
  BY DEF worldVars
<1> QED
  BY <1>1, <1>2, <1>3, Seen

\* So an answer without bytes turns the request away.
LEMMA ReplySeen ==
    ASSUME IInv, NEW r \in Requests, Reply(r) \/ \E rule : Block(r, rule),
           UNCHANGED <<worldVars, quarantined>>
    PROVE  Gate!GateNext \/ UNCHANGED Gate!gateVars
<1>1. Deliver(r, NoContent)
  BY DEF Reply, Block
<1> QED
  BY <1>1, DeliverSeen, SeenTurnAway DEF IInv

\* A handler that goes on, with its route, version and header, is seen at
\* its new point.
LEMMA GoSeen ==
    ASSUME IInv, NEW r \in Requests, NEW point, Go(r, point),
           UNCHANGED <<worldVars, quarantined, route, head, ver, header, given>>
    PROVE  Sees(r, PhaseOf(r)', AskedOf(r)', NamedOf(r)', given[r])
<1>1. /\ \A q \in Requests : q # r => pc'[q] = pc[q]
      /\ given' = [given EXCEPT ![r] = given[r]]
  BY DEF IInv, TypeOK, Go
<1> QED
  BY <1>1, Seen DEF worldVars

\* It is held or cleared as before if it stays on the same side.
LEMMA GoUnseen ==
    ASSUME IInv, NEW r \in Requests, NEW point \in Points, Go(r, point),
           UNCHANGED <<worldVars, quarantined, route, head, ver, header, given>>,
           pc[r] # "idle", point # "idle",
           \/ ~InGate(r)
           \/ pc[r] \in {"release", "relay", "copy"} <=> point \in {"release", "relay", "copy"}
    PROVE  UNCHANGED Gate!gateVars
<1>1. pc'[r] = point
  BY DEF IInv, TypeOK, Go
<1>2. PhaseOf(r)' = PhaseOf(r) /\ AskedOf(r)' = AskedOf(r) /\ NamedOf(r)' = NamedOf(r)
  BY <1>1 DEF PhaseOf, AskedOf, NamedOf, InGate
<1> QED
  BY <1>2, GoSeen, SeenStutter DEF IInv

\* A new request is held if it is for a tarball's bytes.
LEMMA AcceptSeen ==
    ASSUME IInv, NEW r \in Requests, Accept(r)
    PROVE  Gate!GateNext \/ UNCHANGED Gate!gateVars
<1>0. TypeOK /\ pc[r] = "idle" /\ TypeOK'
  BY AcceptStep DEF IInv, Accept, At
<1>1. PICK p \in Proxied :
         /\ pc' = [pc EXCEPT ![r] = IF p.kind = "tarball" THEN "pre" ELSE "relay"]
         /\ route' = [route EXCEPT ![r] = p.kind]
         /\ \E v \in {NoVersion} \cup (IF p.kind = "tarball" THEN Versions ELSE {}),
               h \in IF Quarantinable(p) THEN Headers ELSE {NoIntegrity} :
               /\ ver' = [ver EXCEPT ![r] = v]
               /\ header' = [header EXCEPT ![r] = h]
  BY DEF Accept
<1>a. PICK v \in Versions \cup {NoVersion}, h \in Headers \cup {NoIntegrity} :
         /\ ver' = [ver EXCEPT ![r] = v]
         /\ header' = [header EXCEPT ![r] = h]
  BY <1>1
<1>b. PICK point \in {"pre", "relay"} :
         /\ pc' = [pc EXCEPT ![r] = point]
         /\ point = "pre" <=> p.kind = "tarball"
  BY <1>1
<1>2. PICK hd \in BOOLEAN : head' = [head EXCEPT ![r] = hd]
  <2>1. \A m : (m = "HEAD") \in BOOLEAN
    OBVIOUS
  <2> QED
    BY <2>1, Zenon DEF Accept
<1>3. /\ \A q \in Requests : q # r =>
            /\ pc'[q] = pc[q] /\ route'[q] = route[q] /\ head'[q] = head[q]
            /\ ver'[q] = ver[q] /\ header'[q] = header[q]
      /\ pc'[r] \in {"pre", "relay"} /\ (pc'[r] = "pre" <=> route'[r] = "tarball")
      /\ ver'[r] \in Versions \cup {NoVersion}
      /\ header'[r] \in Headers \cup {NoIntegrity}
  BY <1>0, <1>1, <1>a, <1>b, <1>2 DEF TypeOK
<1>4. given' = [given EXCEPT ![r] = NoContent] /\ UNCHANGED <<quarantined, permitted, offered>>
  BY DEF Accept, worldVars, sharedVars
<1>5. Sees(r, PhaseOf(r)', AskedOf(r)', NamedOf(r)', NoContent)
  BY <1>3, <1>4, Seen
<1>6. PhaseOf(r) = "idle"
  BY <1>0 DEF PhaseOf, InGate
<1>7. CASE route'[r] = "tarball" /\ ~head'[r]
  <2>1. PhaseOf(r)' = "held" /\ AskedOf(r)' \in Versions \cup {NoVersion}
    BY <1>3, <1>7 DEF PhaseOf, AskedOf, InGate
  <2>2. NamedOf(r)' \in Bytes \cup {NoContent}
    <3>1. CASE header'[r] = NoIntegrity
      BY <3>1 DEF NamedOf
    <3>2. CASE header'[r] # NoIntegrity
      <4>1. header'[r].of \in Contents
        BY <1>3, <3>2, HeaderContent
      <4> QED
        BY <4>1 DEF NamedOf, Bytes
    <3> QED
      BY <3>1, <3>2
  <2> QED
    BY <1>0, <1>5, <1>6, <2>1, <2>2, SeenHold
<1>8. CASE ~(route'[r] = "tarball" /\ ~head'[r])
  <2>1. PhaseOf(r)' = "idle" /\ AskedOf(r)' = NoVersion /\ NamedOf(r)' = NoContent
    BY <1>8 DEF PhaseOf, AskedOf, NamedOf, InGate
  <2> QED
    BY <1>0, <1>5, <2>1, SeenTurnAway
<1> QED
  BY <1>7, <1>8

\* An evaluation that permits the version clears the request, unless there is
\* an inspection to come; without quarantine so does the lack of a version.
LEMMA PreCheckSeen ==
    ASSUME IInv, NEW r \in Requests, PreCheck(r)
    PROVE  Gate!GateNext \/ UNCHANGED Gate!gateVars
<1>0. TypeOK /\ pc[r] = "pre" /\ route[r] = "tarball" /\ UNCHANGED <<worldVars, quarantined>>
  BY DEF IInv, PreCheck, At, Sane, Path
<1>1. CASE Reply(r) \/ Block(r, "policy")
  BY <1>0, <1>1, ReplySeen
<1>2. CASE /\ ver[r] \in permitted \/ Unevaluated(r)
           /\ Go(r, IF quarantined /\ ~head[r] THEN "fetch" ELSE "relay")
           /\ UNCHANGED localVars
  <2>0. UNCHANGED <<worldVars, quarantined, route, head, ver, header, given>>
    BY <1>0, <1>2 DEF localVars
  <2>1. CASE quarantined /\ ~head[r]
    <3>1. Go(r, "fetch") /\ "fetch" \in Points
      BY <1>2, <2>1 DEF Points
    <3> QED
      BY <1>0, <2>0, <3>1, GoUnseen
  <2>2. CASE head[r]
    <3>1. Go(r, "relay") /\ "relay" \in Points /\ ~InGate(r)
      BY <1>2, <2>2 DEF Points, InGate
    <3> QED
      BY <1>0, <2>0, <3>1, GoUnseen
  <2>3. CASE ~quarantined /\ ~head[r]
    <3>1. Go(r, "relay")
      BY <1>2, <2>3
    <3>2. pc'[r] = "relay"
      BY <1>0, <3>1 DEF TypeOK, Go
    <3>3. /\ PhaseOf(r) = "held" /\ PhaseOf(r)' = "cleared"
          /\ AskedOf(r) = ver[r] /\ AskedOf(r)' = AskedOf(r) /\ NamedOf(r)' = NamedOf(r)
      BY <1>0, <2>0, <2>3, <3>2 DEF PhaseOf, AskedOf, NamedOf, InGate
    <3>4. AskedOf(r) \in permitted \/ (AskedOf(r) = NoVersion /\ ~quarantined)
      BY <1>2, <2>3, <3>3 DEF Unevaluated
    <3> QED
      BY <1>0, <2>0, <3>1, <3>3, <3>4, GoSeen, SeenClear
  <2> QED
    BY <2>1, <2>2, <2>3
<1> QED
  BY <1>1, <1>2 DEF PreCheck

\* Bytes on the ordinary path: there is no quarantine to guard them.
LEMMA CopySeen ==
    ASSUME IInv, NEW r \in Requests, Copy(r) \/ CopyCut(r)
    PROVE  Gate!GateNext \/ UNCHANGED Gate!gateVars
<1>0. TypeOK /\ Path(r) /\ pc[r] = "copy" /\ UNCHANGED <<worldVars, sharedVars>>
  BY DEF IInv, Copy, CopyCut, At, Sane
<1>1. CASE Reply(r)
  BY <1>0, <1>1, ReplySeen DEF sharedVars
<1>2. ASSUME NEW b \in Bytes \cup {NoContent}, route[r] = "tarball", Deliver(r, b)
      PROVE  Gate!GateNext \/ UNCHANGED Gate!gateVars
  <2>1. Sees(r, "idle", NoVersion, NoContent, b)
    BY <1>0, <1>2, DeliverSeen DEF sharedVars
  <2>2. ~quarantined /\ PhaseOf(r) = "cleared"
    BY <1>0, <1>2 DEF Path, PhaseOf, InGate
  <2> QED
    BY <1>0, <2>1, <2>2, SeenTurnAway, SeenGive
<1>3. CASE route[r] = "metadata" /\ Go(r, "indexing") /\ UNCHANGED localVars
  <2>1. "indexing" \in Points /\ ~InGate(r)
    BY <1>3 DEF Points, InGate
  <2> QED
    BY <1>0, <1>3, <2>1, GoUnseen DEF localVars, sharedVars
<1>4. body[r] \in Bytes \cup {NoContent} /\ Damaged \in Bytes
  BY <1>0 DEF TypeOK, Bytes
<1> QED
  BY <1>1, <1>2, <1>3, <1>4 DEF Copy, CopyCut

\* On the way to a digest and its inspection a request is held.
LEMMA HeldSeen ==
    ASSUME IInv, NEW r \in Requests,
           \/ FetchReply(r) \/ Resolve(r) \/ MetaReply(r) \/ MetaFails(r) \/ MetaIndexed(r)
           \/ Lookup(r) \/ Ingest(r) \/ Inspect(r)
    PROVE  Gate!GateNext \/ UNCHANGED Gate!gateVars
<1> DEFINE before == {"fetch", "resolve", "fetchMeta", "indexMeta", "lookup", "ingest", "inspect"}
           after == {"resolve", "fetchMeta", "indexMeta", "lookup", "ingest", "inspect", "post"}
<1>1. pc[r] \in before /\ UNCHANGED <<worldVars, quarantined>>
  BY DEF FetchReply, Resolve, MetaReply, MetaFails, MetaIndexed, Lookup, Ingest, Inspect, At, sharedVars
<1>2. \/ Reply(r) \/ \E rule : Block(r, rule)
      \/ (\E point \in after : Go(r, point)) /\ UNCHANGED <<route, head, ver, header, given>>
  BY DEF FetchReply, Resolve, MetaReply, MetaFails, MetaIndexed, Lookup, Ingest, Inspect, Expect,
         localVars
<1>3. ASSUME NEW point \in after, Go(r, point), UNCHANGED <<route, head, ver, header, given>>
      PROVE  UNCHANGED Gate!gateVars
  <2>1. point \in Points /\ point # "idle" /\ point \notin {"release", "relay", "copy"}
    BY DEF Points
  <2>2. pc[r] # "idle" /\ pc[r] \notin {"release", "relay", "copy"}
    BY <1>1
  <2> QED
    BY <1>1, <1>3, <2>1, <2>2, GoUnseen
<1> QED
  BY <1>1, <1>2, <1>3, ReplySeen

\* The evaluation after the inspection clears the request, and the release
\* gives sound content that was offered for its version or named by the client.
LEMMA ReleaseSeen ==
    ASSUME IInv, NEW r \in Requests,
           PostCheck(r) \/ Release(r) \/ ReleaseMismatch(r) \/ QuarantineFails(r)
    PROVE  Gate!GateNext \/ UNCHANGED Gate!gateVars
<1>0. /\ TypeOK /\ Sane(r) /\ pc[r] \in {"ingest", "post", "release"}
      /\ UNCHANGED <<worldVars, quarantined>>
  BY DEF IInv, PostCheck, Release, ReleaseMismatch, QuarantineFails, At, sharedVars
<1>1. InGate(r) /\ quarantined
  BY <1>0 DEF Sane, Path, Guarded, InGate
<1>2. CASE Reply(r) \/ \E rule : Block(r, rule)
  BY <1>0, <1>2, ReplySeen
<1>3. CASE pc[r] = "post" /\ ver[r] \in permitted /\ Go(r, "release") /\ UNCHANGED localVars
  <2>1. pc'[r] = "release"
    BY <1>0, <1>3 DEF TypeOK, Go
  <2>2. /\ PhaseOf(r) = "held" /\ PhaseOf(r)' = "cleared"
        /\ AskedOf(r) = ver[r] /\ AskedOf(r)' = AskedOf(r) /\ NamedOf(r)' = NamedOf(r)
    BY <1>1, <1>3, <2>1 DEF PhaseOf, AskedOf, NamedOf, InGate, localVars
  <2> QED
    BY <1>0, <1>3, <2>2, GoSeen, SeenClear DEF localVars
<1>4. CASE Release(r)
  <2> DEFINE c == want[r].of
  <2>1. pc[r] = "release" /\ Deliver(r, c)
    BY <1>4 DEF Release, At
  <2>2. Sees(r, "idle", NoVersion, NoContent, c)
    BY <1>0, <2>1, DeliverSeen
  <2>3. PhaseOf(r) = "cleared" /\ AskedOf(r) = ver[r]
    BY <1>1, <2>1 DEF PhaseOf, AskedOf
  <2>4. \/ header[r] # NoIntegrity /\ want[r] = header[r]
        \/ header[r] = NoIntegrity /\ <<ver[r], c>> \in offered
    BY <1>0, <2>1 DEF Sane, Expected, Expecting
  <2>5. c \in Contents /\ (<<AskedOf(r), c>> \in offered \/ NamedOf(r) = c)
    <3>1. CASE header[r] # NoIntegrity /\ want[r] = header[r]
      <4>1. header[r] \in Headers \cup {NoIntegrity}
        BY <1>0 DEF TypeOK
      <4> QED
        BY <1>1, <3>1, <4>1, HeaderContent DEF NamedOf
    <3>2. CASE <<ver[r], c>> \in offered
      BY <1>0, <2>3, <3>2 DEF TypeOK
    <3> QED
      BY <2>4, <3>1, <3>2
  <2>6. c \notin Unsound
    BY <1>0, <2>1, <2>5, ContentsAssumption DEF Sane, Inspected, Unsound
  <2>7. c \in Bytes
    BY <2>5 DEF Bytes
  <2> HIDE DEF c
  <2> QED
    BY <1>0, <2>2, <2>3, <2>5, <2>6, <2>7, SeenGive
<1> QED
  BY <1>2, <1>3, <1>4 DEF PostCheck, ReleaseMismatch, QuarantineFails, At

\* Everything else on the ordinary path ends the request or leaves it as it is.
LEMMA OrdinarySeen ==
    ASSUME IInv, NEW r \in Requests,
           \/ ServeDirectly(r) \/ RoundTripFails(r) \/ PassStatus(r) \/ RelayReply(r)
           \/ RelayIndexed(r)
    PROVE  Gate!GateNext \/ UNCHANGED Gate!gateVars
<1>0. UNCHANGED <<worldVars, sharedVars>> /\ UNCHANGED <<worldVars, quarantined>>
  BY DEF ServeDirectly, RoundTripFails, PassStatus, RelayReply, RelayIndexed, sharedVars
<1>1. CASE Reply(r)
  BY <1>0, <1>1, ReplySeen
<1>2. CASE pc[r] = "relay" /\ Go(r, "copy") /\ UNCHANGED <<route, head, ver, header, given>>
  <2>1. "copy" \in Points
    BY DEF Points
  <2> QED
    BY <1>0, <1>2, <2>1, GoUnseen
<1> QED
  BY <1>1, <1>2 DEF ServeDirectly, RoundTripFails, PassStatus, RelayReply, RelayIndexed, At

\* The gate sees no index.
LEMMA IndexUnseen ==
    ASSUME UNCHANGED <<quarantined, permitted, offered, pc, route, head, ver, header, given>>
    PROVE  UNCHANGED Gate!gateVars
<1>1. \A q \in Requests :
         PhaseOf(q)' = PhaseOf(q) /\ AskedOf(q)' = AskedOf(q) /\ NamedOf(q)' = NamedOf(q)
  BY DEF PhaseOf, AskedOf, NamedOf, InGate
<1>2. /\ GatePhase' = [q \in Requests |-> PhaseOf(q)']
      /\ GateAsked' = [q \in Requests |-> AskedOf(q)']
      /\ GateNamed' = [q \in Requests |-> NamedOf(q)']
  BY DEF GatePhase, GateAsked, GateNamed, PhaseOf, AskedOf, NamedOf
<1>3. GatePhase' = GatePhase /\ GateAsked' = GateAsked /\ GateNamed' = GateNamed
  BY <1>1, <1>2, View
<1> QED
  BY <1>3 DEF Gate!gateVars

\* Publications and changes of policy are the gate's world.
LEMMA WorldSeen ==
    ASSUME IInv, NEW v \in Versions, Publish(v) \/ PolicyChanges(v)
    PROVE  Gate!GateNext \/ UNCHANGED Gate!gateVars
<1>1. UNCHANGED <<quarantined, requestVars>>
  BY DEF Publish, PolicyChanges, sharedVars
<1>2. /\ permitted' \subseteq Versions /\ offered \subseteq offered'
      /\ offered' \subseteq Versions \X Bytes
  <2>1. permitted \subseteq Versions /\ offered \subseteq Versions \X Bytes
    BY DEF IInv, TypeOK, Bytes
  <2>2. CASE Publish(v)
    BY <2>1, <2>2 DEF Publish, Bytes
  <2>3. CASE PolicyChanges(v)
    BY <2>1, <2>3 DEF PolicyChanges
  <2> QED
    BY <2>2, <2>3
<1>3. UNCHANGED <<quarantined, pc, route, head, ver, header, given>>
  BY <1>1 DEF requestVars, localVars
<1>4. CASE permitted' = permitted /\ offered' = offered
  BY <1>3, <1>4, IndexUnseen
<1>5. CASE permitted' # permitted \/ offered' # offered
  <2>1. \A q \in Requests :
           PhaseOf(q)' = PhaseOf(q) /\ AskedOf(q)' = AskedOf(q) /\ NamedOf(q)' = NamedOf(q)
    BY <1>3 DEF PhaseOf, AskedOf, NamedOf, InGate
  <2>2. /\ GatePhase' = [q \in Requests |-> PhaseOf(q)']
        /\ GateAsked' = [q \in Requests |-> AskedOf(q)']
        /\ GateNamed' = [q \in Requests |-> NamedOf(q)']
    BY DEF GatePhase, GateAsked, GateNamed, PhaseOf, AskedOf, NamedOf
  <2>3. GatePhase' = GatePhase /\ GateAsked' = GateAsked /\ GateNamed' = GateNamed
    BY <2>1, <2>2, View
  <2> QED
    BY <1>2, <1>3, <1>5, <2>3 DEF Gate!World, Gate!GateNext
<1> QED
  BY <1>4, <1>5

\* The handler starts as the gate does.
LEMMA InitSeen == Init => Gate!GateInit
<1> SUFFICES ASSUME Init PROVE Gate!GateInit
  OBVIOUS
<1>1. /\ quarantined \in BOOLEAN /\ permitted \subseteq Versions
      /\ offered \subseteq Versions \X Bytes
  BY InitInvariant DEF IInv, TypeOK, Bytes
<1>2. \A q \in Requests :
         PhaseOf(q) = "idle" /\ AskedOf(q) = NoVersion /\ NamedOf(q) = NoContent
  BY DEF Init, PhaseOf, AskedOf, NamedOf, InGate
<1>3. /\ GatePhase = [q \in Requests |-> "idle"] /\ GateAsked = [q \in Requests |-> NoVersion]
      /\ GateNamed = [q \in Requests |-> NoContent]
  BY <1>2, View
<1> QED
  BY <1>1, <1>3 DEF Init, Gate!GateInit

\* Every step of the handler is a step of the gate, or one it does not see.
LEMMA StepSeen == IInv /\ [Next]_vars => [Gate!GateNext]_(Gate!gateVars)
<1> SUFFICES ASSUME IInv, [Next]_vars
             PROVE  Gate!GateNext \/ UNCHANGED Gate!gateVars
  OBVIOUS
<1>1. ASSUME NEW r \in Requests, ServeHTTP(r)
      PROVE  Gate!GateNext \/ UNCHANGED Gate!gateVars
  <2>1. CASE IndexSet(r)
    BY <2>1, IndexUnseen DEF IndexSet, worldVars
  <2> QED
    BY <1>1, <2>1, OrdinarySeen, AcceptSeen, PreCheckSeen, CopySeen DEF ServeHTTP
<1>2. ASSUME NEW r \in Requests, handleQuarantinedTarball(r)
      PROVE  Gate!GateNext \/ UNCHANGED Gate!gateVars
  BY <1>2, HeldSeen, ReleaseSeen DEF handleQuarantinedTarball
<1>3. CASE UNCHANGED vars
  BY <1>3, IndexUnseen DEF vars, worldVars, sharedVars, requestVars, localVars
<1>4. (\E v \in Volatile : PolicyChanges(v)) => \E v \in Versions : PolicyChanges(v)
  BY VolatileAssumption
<1> QED
  BY <1>1, <1>2, <1>3, <1>4, WorldSeen DEF Next

\* docs/SPEC.md:7.  The handler implements the release gate, for any number of
\* requests, versions and contents: no byte of a tarball with a version reaches
\* npm before policy permits the version after the inspection, and with
\* quarantine only sound content that was offered for this version or that the
\* client named.  With quarantine nothing is given without a version; without
\* it such a file passes unasked (transport.go:331).
THEOREM HandlerImplementsGate == Spec => ImplementsGate
<1>1. Spec => Init /\ [][Next]_vars /\ []IInv
  BY Invariant, PTL DEF Spec
<1> QED
  BY <1>1, InitSeen, StepSeen, PTL DEF ImplementsGate, Gate!GateSpec
=============================================================================
