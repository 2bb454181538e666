------------------------------ MODULE Gateway ------------------------------
(***************************************************************************)
(* The HTTP handler between npm and the registry:                          *)
(*                                                                         *)
(*   internal/gateway/classify.go     Classify                             *)
(*   internal/gateway/transport.go    ServeHTTP, RoundTrip,                *)
(*                                    handleQuarantinedTarball,            *)
(*                                    resolveExpectedIntegrity,            *)
(*                                    indexPackumentIntegrities            *)
(*   internal/quarantine/manager.go   IntegrityIndex                       *)
(*   internal/quarantine/digest.go    ParseDigest                          *)
(*                                                                         *)
(* One package.  A request is a handler goroutine; a step ends where it    *)
(* waits for the registry, evaluates policy, or uses the index, the        *)
(* document store or quarantine.  The inside of quarantine is module       *)
(* Quarantine: here Ingest, Inspect and VerifyAndRelease are one step      *)
(* each.  Policy is the set of versions Evaluate would let through.        *)
(***************************************************************************)
EXTENDS Integers, Sequences, FiniteSets

CONSTANTS
    Requests,       \* handler goroutines that may be in flight together
    Versions,       \* versions of the package
    Contents,       \* tarballs the registry may publish
    Damaged,        \* bytes that are no tarball of the registry
    NoContent, NoVersion, NoDist, NoIntegrity, NoKey,
    Inspection,     \* what Manager.Inspect finds in each content
    Forms,          \* which digests registry entries carry
    Headers,        \* values of X-Package-Integrity that clients send
    Watched,        \* the rules whose decision documents are remembered
    Volatile,       \* the versions about which policy changes its mind
    Catalog,        \* what the registry offers when the gateway starts
    MaxPublish      \* bound on later publications

Bytes     == Contents \cup {Damaged}
Findings  == {"clean", "truncated", "dangerous", "unsafe"}
Integrity == [algo : {"sha512", "sha1", "md5", ""}, code : {"base64", "hex"},
              len : Nat, of : Bytes]
Rules     == {"policy", "unresolvable", "mismatch", "unsafe", "dangerous", "truncated"}
DistForms == {"full", "legacy", "unsupported", "bare"}

ASSUME ContentsAssumption == Damaged \notin Contents /\ NoContent \notin Bytes
ASSUME VersionsAssumption == NoVersion \notin Versions
ASSUME NoneAssumption == NoIntegrity \notin Integrity /\ NoKey \notin [algo : STRING, of : Bytes]
ASSUME InspectionAssumption == Inspection \in [Contents -> Findings]
ASSUME FormsAssumption == Forms \subseteq DistForms
ASSUME HeadersAssumption ==
    \A h \in Headers \ {NoIntegrity} : h \in Integrity /\ h.of \in Contents
ASSUME PublishAssumption == MaxPublish \in Nat
ASSUME WatchedAssumption == Watched \subseteq Rules
ASSUME VolatileAssumption == Volatile \subseteq Versions

-----------------------------------------------------------------------------
(* Digests.                                                                *)

DigestLen == [sha512 |-> 64, sha384 |-> 48, sha256 |-> 32, sha1 |-> 20]

\* A prefixed string names its algorithm, a bare hexadecimal one is
\* recognised by its length; the length must be the algorithm's.
ParseDigest(s) ==
    LET fits == {a \in DOMAIN DigestLen :
                    /\ DigestLen[a] = s.len
                    /\ s.algo = a \/ (s.algo = "" /\ s.code = "hex")}
    IN  IF fits = {} THEN NoKey ELSE [algo |-> CHOOSE a \in fits : TRUE, of |-> s.of]

Sri(c)    == [algo |-> "sha512", code |-> "base64", len |-> 64, of |-> c]
Shasum(c) == [algo |-> "", code |-> "hex", len |-> 20, of |-> c]
Md5(c)    == [algo |-> "md5", code |-> "base64", len |-> 16, of |-> c]

\* The "dist" object of a version in the packument.
Dist(c, form) ==
    [content   |-> c,
     integrity |-> CASE form = "full" -> Sri(c)
                     [] form = "unsupported" -> Md5(c)
                     [] OTHER -> NoIntegrity,
     shasum    |-> IF form \in {"full", "legacy"} THEN Shasum(c) ELSE NoIntegrity]
Dists == {Dist(c, f) : c \in Contents, f \in DistForms}

Packs == [Versions -> Dists \cup {NoDist}]

ASSUME DistAssumption == NoDist \notin Dists
ASSUME CatalogAssumption == Catalog \in Packs

\* dist.integrity, or dist.shasum when there is none.
Advertised(d) == IF d = NoDist THEN NoIntegrity
                 ELSE IF d.integrity # NoIntegrity THEN d.integrity ELSE d.shasum

-----------------------------------------------------------------------------
(* Routes.  A path is its segments: "@" is a scope, "name" a package name, *)
(* "tgz" a tarball's file name.                                            *)

packageAndRest(parts) ==
    IF parts = <<>> \/ parts = <<"@">> THEN [ok |-> FALSE, rest |-> <<>>]
    ELSE [ok |-> TRUE, rest |-> SubSeq(parts, IF Head(parts) = "@" THEN 3 ELSE 2, Len(parts))]

Classify(method, parts) ==
    LET pr == packageAndRest(parts)
    IN  IF method \notin {"GET", "HEAD"} THEN "unsupported"
        ELSE CASE parts = <<"-", "installgate", "health">> -> "health"
               [] parts = <<"-", "installgate", "ready">> -> "ready"
               [] OTHER ->
                    IF parts = <<>> \/ (Head(parts) = "-" /\ Len(parts) > 1) \/ ~pr.ok
                    THEN "unsupported"
                    ELSE CASE pr.rest = <<>> -> "metadata"
                           [] pr.rest = <<"-", "tgz">> -> "tarball"
                           [] OTHER -> "unsupported"

Paths == {<<>>, <<"-", "installgate", "health">>, <<"-", "installgate", "ready">>,
          <<"-", "name">>, <<"@">>, <<"name">>, <<"@", "name">>, <<"name", "-", "tgz">>,
          <<"@", "name", "-", "tgz">>, <<"name", "-", "name">>, <<"name", "name">>}
Methods == {"GET", "HEAD", "PUT"}

-----------------------------------------------------------------------------
VARIABLES
    registry,   \* upstream: the dist object of each version
    published,  \* how many publications there were
    offered,    \* upstream: every <<version, content>> it ever served
    permitted,  \* versions that Evaluate answers allow or warn for
    quarantined,\* is Handler.quarantine configured?
    index,      \* IntegrityIndex.entries
    stored,     \* digests under which quarantine has kept verified bytes
    docs,       \* <<version, rule>> of the saved decision documents
    pc, route, head, ver, header, body, pack, want,  \* each handler and its locals
    given,      \* the tarball bytes it was last answered with
    unsaved     \* is its document of a truncated inspection missing (ghost)?

worldVars   == <<registry, published, offered, permitted>>
sharedVars  == <<quarantined, index, stored, docs>>
localVars   == <<route, head, ver, header, body, pack, want, given, unsaved>>
requestVars == <<pc, localVars>>
vars        == <<worldVars, sharedVars, requestVars>>

Points == {"idle", "pre", "relay", "copy", "indexing", "fetch", "resolve", "fetchMeta",
           "indexMeta", "lookup", "ingest", "inspect", "post", "release"}
NoPack == [v \in Versions |-> NoDist]

\* Every variable has its type.
TypeOK ==
    /\ registry \in Packs
    /\ published \in 0 .. MaxPublish
    /\ offered \subseteq Versions \X Contents
    /\ permitted \subseteq Versions
    /\ quarantined \in BOOLEAN
    /\ index \in [Versions -> Integrity \cup {NoIntegrity}]
    /\ stored \subseteq [algo : DOMAIN DigestLen, of : Bytes]
    /\ docs \subseteq Versions \X Watched
    /\ pc \in [Requests -> Points]
    /\ route \in [Requests -> {"none", "metadata", "tarball"}]
    /\ head \in [Requests -> BOOLEAN]
    /\ ver \in [Requests -> Versions \cup {NoVersion}]
    /\ header \in [Requests -> Headers \cup {NoIntegrity}]
    /\ body \in [Requests -> Bytes \cup {NoContent}]
    /\ pack \in [Requests -> Packs]
    /\ want \in [Requests -> Integrity \cup {NoIntegrity}]
    /\ given \in [Requests -> Bytes \cup {NoContent}]
    /\ unsaved \in [Requests -> BOOLEAN]

\* NewHandler: an empty index; the resolver is the index itself.
Init ==
    /\ registry = Catalog /\ published = 0
    /\ offered = {<<v, Catalog[v].content>> : v \in {w \in Versions : Catalog[w] # NoDist}}
    /\ permitted = Versions
    /\ quarantined \in BOOLEAN
    /\ index = [v \in Versions |-> NoIntegrity]
    /\ stored = {} /\ docs = {}
    /\ pc = [r \in Requests |-> "idle"]
    /\ route = [r \in Requests |-> "none"]
    /\ head = [r \in Requests |-> FALSE]
    /\ ver = [r \in Requests |-> NoVersion]
    /\ header = [r \in Requests |-> NoIntegrity]
    /\ body = [r \in Requests |-> NoContent]
    /\ pack = [r \in Requests |-> NoPack]
    /\ want = [r \in Requests |-> NoIntegrity]
    /\ given = [r \in Requests |-> NoContent]
    /\ unsaved = [r \in Requests |-> FALSE]

At(r, point) == pc[r] = point
Go(r, point) == pc' = [pc EXCEPT ![r] = point]

\* The handler returns and its locals die with it.
Deliver(r, bytes) ==
    /\ pc' = [pc EXCEPT ![r] = "idle"]
    /\ route' = [route EXCEPT ![r] = "none"]
    /\ head' = [head EXCEPT ![r] = FALSE]
    /\ ver' = [ver EXCEPT ![r] = NoVersion]
    /\ header' = [header EXCEPT ![r] = NoIntegrity]
    /\ body' = [body EXCEPT ![r] = NoContent]
    /\ pack' = [pack EXCEPT ![r] = NoPack]
    /\ want' = [want EXCEPT ![r] = NoIntegrity]
    /\ given' = [given EXCEPT ![r] = bytes]
    /\ unsaved' = [unsaved EXCEPT ![r] = FALSE]

\* DecisionStore.Save.  The handler may have no store, and it drops the error
\* of one whose database is locked or full.
Save(r, rule) ==
    docs' \in {docs, docs \cup {d \in {<<ver[r], rule>>} : rule \in Watched}}

\* An answer without tarball bytes: an error, a status, metadata.
Reply(r) == Deliver(r, NoContent)

\* The 403 names a decision document, saved or not.
Block(r, rule) == Save(r, rule) /\ Reply(r)

-----------------------------------------------------------------------------
(* ServeHTTP.                                                              *)

DirectStatus(method, path, auth) ==
    IF auth THEN 400
    ELSE CASE Classify(method, path) \in {"health", "ready"} -> 200
           [] Classify(method, path) = "unsupported" ->
                  IF method \in {"GET", "HEAD"} THEN 400 ELSE 405
           [] OTHER -> 0

\* What a request without credentials may ask of the registry.
Relayed == {p \in Paths : DirectStatus("GET", p, FALSE) = 0}
Proxied == {[kind |-> Classify(m, p), method |-> m] : m \in {"GET", "HEAD"}, p \in Relayed}
Direct  == {DirectStatus(m, p, auth) : m \in Methods, p \in Paths, auth \in BOOLEAN} \ {0}

\* Credentials, the gateway's own routes, everything it does not proxy.
ServeDirectly(r) ==
    /\ At(r, "idle") /\ Direct # {}
    /\ Reply(r)
    /\ UNCHANGED <<worldVars, sharedVars>>

Quarantinable(p) == p.kind = "tarball" /\ p.method = "GET" /\ quarantined

\* Only the file name of a tarball may hold a version, and need not
\* (versionFromTarball: nothing is left of "name-.tgz"); only the way through
\* quarantine looks at the client's integrity header.
Accept(r) ==
    /\ At(r, "idle")
    /\ \E p \in Proxied :
          /\ pc' = [pc EXCEPT ![r] = IF p.kind = "tarball" THEN "pre" ELSE "relay"]
          /\ route' = [route EXCEPT ![r] = p.kind]
          /\ head' = [head EXCEPT ![r] = p.method = "HEAD"]
          /\ \E v \in {NoVersion} \cup (IF p.kind = "tarball" THEN Versions ELSE {}),
                h \in IF Quarantinable(p) THEN Headers ELSE {NoIntegrity} :
                /\ ver' = [ver EXCEPT ![r] = v]
                /\ header' = [header EXCEPT ![r] = h]
    /\ given' = [given EXCEPT ![r] = NoContent]
    /\ UNCHANGED <<worldVars, sharedVars, body, pack, want, unsaved>>

\* The ordinary path evaluates only what has a version.
Unevaluated(r) == ver[r] = NoVersion /\ (head[r] \/ ~quarantined)

\* Evaluate before anything is fetched: permitted, refused, or an error, which
\* is the engine's only answer about a name without a version.
PreCheck(r) ==
    /\ At(r, "pre")
    /\ \/ /\ ver[r] \in permitted \/ Unevaluated(r)
          /\ Go(r, IF quarantined /\ ~head[r] THEN "fetch" ELSE "relay")
          /\ UNCHANGED <<docs, localVars>>
       \/ ver[r] \in Versions \ permitted /\ Block(r, "policy")
       \/ ~Unevaluated(r) /\ Reply(r) /\ UNCHANGED docs
    /\ UNCHANGED <<worldVars, quarantined, index, stored>>

\* The timeout expires (504), the connection fails, the announced length is
\* over the limit, or the registry itself is in trouble (502).
RoundTripFails(r) ==
    /\ pc[r] \in {"relay", "fetch"}
    /\ Reply(r)
    /\ UNCHANGED <<worldVars, sharedVars>>

\* Redirects, "not modified" and "not found" are passed on without a body.
PassStatus(r) ==
    /\ pc[r] \in {"relay", "fetch"}
    /\ Reply(r)
    /\ UNCHANGED <<worldVars, sharedVars>>

\* A file that is no version's tarball may hold anything.
Serves(v, b) ==
    v \in Versions => registry[v] # NoDist /\ b \in {registry[v].content, Damaged}

\* 200 from the registry on the ordinary path.  A HEAD ends here; a body is
\* copied to the client as it arrives.
RelayReply(r) ==
    /\ At(r, "relay")
    /\ \/ head[r] /\ Reply(r)
       \/ /\ ~head[r] /\ route[r] = "metadata"
          /\ \E p \in {registry, NoPack} : pack' = [pack EXCEPT ![r] = p]
          /\ Go(r, "copy")
          /\ UNCHANGED <<route, head, ver, header, body, want, given, unsaved>>
       \/ /\ ~head[r] /\ route[r] = "tarball"
          /\ \E b \in Bytes : Serves(ver[r], b) /\ body' = [body EXCEPT ![r] = b]
          /\ Go(r, "copy")
          /\ UNCHANGED <<route, head, ver, header, pack, want, given, unsaved>>
    /\ UNCHANGED <<worldVars, sharedVars>>

Copy(r) ==
    /\ At(r, "copy")
    /\ \/ route[r] = "tarball" /\ Deliver(r, body[r])
       \/ route[r] = "metadata" /\ Go(r, "indexing") /\ UNCHANGED localVars
    /\ UNCHANGED <<worldVars, sharedVars>>

\* limitedBodyReader stops an unannounced long body and the handler panics,
\* the deadline closes the body, or the client leaves: part of the bytes have
\* been sent, nothing is indexed.
CopyCut(r) ==
    /\ At(r, "copy")
    /\ IF route[r] = "tarball" THEN Deliver(r, Damaged) ELSE Reply(r)
    /\ UNCHANGED <<worldVars, sharedVars>>

\* The versions of the decoded packument that are still to be indexed.
Pending(r) == {v \in Versions : Advertised(pack[r][v]) # NoIntegrity}

\* indexPackumentIntegrities: one IntegrityIndex.Set after the other, in the
\* random order of a Go map; a version without a digest keeps what is known.
IndexSet(r) ==
    /\ pc[r] \in {"indexing", "indexMeta"}
    /\ \E v \in Pending(r) :
          /\ index' = [index EXCEPT ![v] = Advertised(pack[r][v])]
          /\ pack' = [pack EXCEPT ![r][v] = NoDist]
    /\ UNCHANGED <<worldVars, quarantined, stored, docs, pc, route, head, ver, header, body,
                   want, given, unsaved>>

RelayIndexed(r) ==
    /\ At(r, "indexing") /\ Pending(r) = {}
    /\ Reply(r)
    /\ UNCHANGED <<worldVars, sharedVars>>

-----------------------------------------------------------------------------
(* handleQuarantinedTarball after the first evaluation.                    *)

FetchReply(r) ==
    /\ At(r, "fetch")
    /\ \E b \in Bytes :
          /\ Serves(ver[r], b)
          /\ body' = [body EXCEPT ![r] = b]
    /\ Go(r, "resolve")
    /\ UNCHANGED <<worldVars, sharedVars, route, head, ver, header, pack, want, given, unsaved>>

Expect(r, integrity) ==
    /\ want' = [want EXCEPT ![r] = integrity]
    /\ Go(r, "ingest")
    /\ UNCHANGED <<route, head, ver, header, body, pack, given, unsaved>>

\* resolveExpectedIntegrity: the client's header, then the index (which is
\* also the resolver), then the registry.
Resolve(r) ==
    /\ At(r, "resolve")
    /\ \/ header[r] # NoIntegrity /\ Expect(r, header[r])
       \/ header[r] = NoIntegrity /\ index[ver[r]] # NoIntegrity /\ Expect(r, index[ver[r]])
       \/ /\ header[r] = NoIntegrity /\ index[ver[r]] = NoIntegrity
          /\ Go(r, "fetchMeta")
          /\ UNCHANGED localVars
    /\ UNCHANGED <<worldVars, sharedVars>>

MetaReply(r) ==
    /\ At(r, "fetchMeta")
    /\ \E p \in {registry, NoPack} : pack' = [pack EXCEPT ![r] = p]
    /\ Go(r, "indexMeta")
    /\ UNCHANGED <<worldVars, sharedVars, route, head, ver, header, body, want, given, unsaved>>

MetaFails(r) ==
    /\ At(r, "fetchMeta")
    /\ Block(r, "unresolvable")
    /\ UNCHANGED <<worldVars, quarantined, index, stored>>

MetaIndexed(r) ==
    /\ At(r, "indexMeta") /\ Pending(r) = {}
    /\ pack' = [pack EXCEPT ![r] = NoPack]
    /\ Go(r, "lookup")
    /\ UNCHANGED <<worldVars, sharedVars, route, head, ver, header, body, want, given, unsaved>>

\* Mutant: any indexed integrity of the package will do.
LookupAny(r) ==
    /\ At(r, "lookup")
    /\ \/ \E v \in Versions : index[v] # NoIntegrity /\ Expect(r, index[v]) /\ UNCHANGED docs
       \/ (\A v \in Versions : index[v] = NoIntegrity) /\ Block(r, "unresolvable")
    /\ UNCHANGED <<worldVars, quarantined, index, stored>>

Lookup(r) ==
    /\ At(r, "lookup")
    /\ \/ index[ver[r]] # NoIntegrity /\ Expect(r, index[ver[r]]) /\ UNCHANGED docs
       \/ index[ver[r]] = NoIntegrity /\ Block(r, "unresolvable")
    /\ UNCHANGED <<worldVars, quarantined, index, stored>>

\* Manager.Ingest: a blob that is still there is taken without a look at the
\* bytes that just arrived; one that was stored once may be evicted by now.
Ingest(r) ==
    LET k == ParseDigest(want[r])
    IN  /\ At(r, "ingest")
        /\ \/ k = NoKey /\ Reply(r) /\ UNCHANGED <<stored, docs>>
           \/ /\ k # NoKey /\ (k \in stored \/ k.of = body[r])
              /\ stored' = stored \cup {k}
              /\ body' = [body EXCEPT ![r] = NoContent]
              /\ Go(r, "inspect")
              /\ UNCHANGED <<docs, route, head, ver, header, pack, want, given, unsaved>>
           \/ k # NoKey /\ k.of # body[r] /\ Block(r, "mismatch") /\ UNCHANGED stored
        /\ UNCHANGED <<worldVars, quarantined, index>>

\* Mutant: a truncated inspection goes on without a word to the store.
InspectSilent(r) ==
    LET finding == Inspection[want[r].of]
    IN  /\ At(r, "inspect")
        /\ \/ finding \in {"unsafe", "dangerous"} /\ Block(r, finding)
           \/ finding \in {"truncated", "clean"} /\ Go(r, "post") /\ UNCHANGED <<docs, localVars>>
        /\ UNCHANGED <<worldVars, quarantined, index, stored>>

\* Manager.Inspect.  A truncated inspection goes on, its document saved or not.
Inspect(r) ==
    LET finding == Inspection[want[r].of]
    IN  /\ At(r, "inspect")
        /\ \/ finding \in {"unsafe", "dangerous"} /\ Block(r, finding)
           \/ /\ finding = "truncated"
              /\ Save(r, finding)
              /\ unsaved' = [unsaved EXCEPT ![r] = <<ver[r], finding>> \notin docs']
              /\ Go(r, "post")
              /\ UNCHANGED <<route, head, ver, header, body, pack, want, given>>
           \/ finding = "clean" /\ Go(r, "post") /\ UNCHANGED <<docs, localVars>>
        /\ UNCHANGED <<worldVars, quarantined, index, stored>>

\* Mutant: the first evaluation is taken to hold still.
PostCheckSkipped(r) ==
    /\ At(r, "post")
    /\ Go(r, "release")
    /\ UNCHANGED <<worldVars, sharedVars, localVars>>

PostCheck(r) ==
    /\ At(r, "post")
    /\ \/ ver[r] \in permitted /\ Go(r, "release") /\ UNCHANGED <<docs, localVars>>
       \/ ver[r] \notin permitted /\ Block(r, "policy")
       \/ Reply(r) /\ UNCHANGED docs
    /\ UNCHANGED <<worldVars, quarantined, index, stored>>

\* Manager.VerifyAndRelease and the delivery.
Release(r) ==
    /\ At(r, "release")
    /\ Deliver(r, want[r].of)
    /\ UNCHANGED <<worldVars, sharedVars>>

\* Something changed the blob on disk: the second verification sees it.
ReleaseMismatch(r) ==
    /\ At(r, "release")
    /\ Block(r, "mismatch")
    /\ UNCHANGED <<worldVars, quarantined, index, stored>>

\* Quarantine fails for a reason of its own: budget, input and output, the
\* deadline, a blob evicted between Inspect and VerifyAndRelease.
QuarantineFails(r) ==
    /\ pc[r] \in {"ingest", "release"}
    /\ Reply(r)
    /\ UNCHANGED <<worldVars, sharedVars>>

-----------------------------------------------------------------------------
(* Everything that is not a request.                                       *)

\* The registry publishes a version, or other content under the same version.
Publish(v) ==
    /\ published < MaxPublish
    /\ published' = published + 1
    /\ \E c \in Contents, f \in Forms :
          /\ registry' = [registry EXCEPT ![v] = Dist(c, f)]
          /\ offered' = offered \cup {<<v, c>>}
    /\ UNCHANGED <<permitted, quarantined, index, stored, docs, requestVars>>

\* Evidence, policy or approvals change.
PolicyChanges(v) ==
    /\ permitted' = IF v \in permitted THEN permitted \ {v} ELSE permitted \cup {v}
    /\ UNCHANGED <<registry, published, offered, sharedVars, requestVars>>

ServeHTTP(r) ==
    \/ ServeDirectly(r) \/ Accept(r) \/ PreCheck(r) \/ RoundTripFails(r) \/ PassStatus(r)
    \/ RelayReply(r) \/ Copy(r) \/ CopyCut(r) \/ IndexSet(r) \/ RelayIndexed(r)

handleQuarantinedTarball(r) ==
    \/ FetchReply(r) \/ Resolve(r) \/ MetaReply(r) \/ MetaFails(r) \/ MetaIndexed(r)
    \/ Lookup(r) \/ Ingest(r) \/ Inspect(r) \/ PostCheck(r)
    \/ Release(r) \/ ReleaseMismatch(r) \/ QuarantineFails(r)

Next ==
    \/ \E r \in Requests : ServeHTTP(r) \/ handleQuarantinedTarball(r)
    \/ \E v \in Versions : Publish(v)
    \/ \E v \in Volatile : PolicyChanges(v)

Spec == Init /\ [][Next]_vars

-----------------------------------------------------------------------------
(* Properties.                                                             *)

InGate(r)   == pc[r] # "idle" /\ route[r] = "tarball" /\ ~head[r]
GatePhase   == [r \in Requests |->
                  IF ~InGate(r) THEN "idle"
                  ELSE IF pc[r] \in {"release", "relay", "copy"} THEN "cleared" ELSE "held"]
GateAsked   == [r \in Requests |-> IF InGate(r) THEN ver[r] ELSE NoVersion]
GateNamed   == [r \in Requests |->
                  IF InGate(r) /\ header[r] # NoIntegrity THEN header[r].of ELSE NoContent]

Gate == INSTANCE ReleaseGate WITH
            Contents <- Bytes,
            Rejected <- {Damaged} \cup {c \in Contents : Inspection[c] \in {"unsafe", "dangerous"}},
            guarded <- quarantined, phase <- GatePhase, asked <- GateAsked,
            named <- GateNamed

\* The handler implements the release gate: no byte of a tarball with a
\* version reaches npm before policy permits the version after the inspection,
\* and then only sound content that was offered for this version
\* (docs/SPEC.md:7).  A file name without a version gets nothing out of
\* quarantine; without one it is passed on unasked, as ReleaseGate says.
ImplementsGate == Gate!GateSpec

\* No false alarm: Ingest can only find a "checksum mismatch" when the bytes
\* were damaged, the version was published twice or the client named a digest
\* itself, never because requests and packuments overtook one another.
MismatchHasCause ==
    \A r \in Requests : pc[r] = "ingest" /\ want[r].of # body[r] =>
        \/ body[r] = Damaged
        \/ header[r] # NoIntegrity
        \/ \E c, d \in Contents : c # d /\ {<<ver[r], c>>, <<ver[r], d>>} \subseteq offered

\* Content whose inspection was cut short is never delivered silently: when it
\* is about to be released, a degraded decision document of that version is
\* saved, also when another request brought the blob in, unless the store
\* refused the document in this very request.
TruncationRecorded ==
    \A r \in Requests : pc[r] = "release" /\ Inspection[want[r].of] = "truncated"
        => <<ver[r], "truncated">> \in docs \/ unsaved[r]
=============================================================================
