------------------------- MODULE ArchiveInspection -------------------------
(***************************************************************************)
(* Static inspection of a quarantined tarball:                             *)
(*                                                                         *)
(*   internal/quarantine/archive.go   InspectArchiveWithLimits             *)
(*   internal/quarantine/inspect.go   inspectPackageJSONContent            *)
(*                                                                         *)
(* Entries arrive one by one, in an order the publisher chose; every entry *)
(* passes nine checks in turn and the first that fails ends the            *)
(* inspection.  The first regular package.json is read for lifecycle       *)
(* scripts, within limits of its own.                                      *)
(*                                                                         *)
(* A path is the sequence of its segments, a script its hook, its length   *)
(* and the position where a threat indicator would be complete.            *)
(***************************************************************************)
EXTENDS Integers, Sequences, FiniteSets, SequencesExt

CONSTANTS
    Entries,                \* tar headers an archive may contain
    MaxEntryCount, MaxFileBytes, MaxExtractedBytes, MaxNestingDepth,
                            \* ArchiveLimits
    MaxPackageJSONBytes, MaxScriptCount, MaxScriptBytes,
                            \* InspectLimits
    Previous,               \* hooks of the previous version's package.json
    NoManifest

Hooks    == {"preinstall", "install", "postinstall", "prepare"}
Types    == {"reg", "dir", "symlink", "link"}
\* at = 0: nothing suspicious in the script.
Script   == [name : Hooks \cup {"test"}, len : Nat, at : Nat]
\* text: the length of the JSON text within the size bytes of the entry.
Manifest == [text : Nat, valid : BOOLEAN, scripts : SUBSET Script, gypfile : BOOLEAN]
Segment  == STRING

\* ArchiveLimits.Validate and InspectLimits.Validate refuse anything else.
ASSUME LimitsAssumption ==
    {MaxEntryCount, MaxFileBytes, MaxExtractedBytes, MaxNestingDepth,
     MaxPackageJSONBytes, MaxScriptCount, MaxScriptBytes} \subseteq Nat \ {0}
ASSUME PreviousAssumption == Previous \subseteq Hooks
ASSUME EntriesAssumption ==
    /\ NoManifest \notin Entries
    /\ \A e \in Entries :
          /\ e.type \in Types /\ e.abs \in BOOLEAN /\ e.linkAbs \in BOOLEAN /\ e.size \in Nat
          /\ e.path \in Seq(Segment) /\ e.link \in Seq(Segment)
          /\ e.manifest # NoManifest =>
                /\ e.manifest.text \in 0 .. e.size /\ e.manifest.valid \in BOOLEAN
                /\ e.manifest.gypfile \in BOOLEAN
                /\ \A s \in e.manifest.scripts : s \in Script

VARIABLES
    read,       \* the entries read so far
    seenPaths,  \* clean paths
    extracted,  \* totalExtracted
    outcome,    \* "reading", "accepted" or the error returned
    manifest,   \* the entry whose package.json was inspected, or NoManifest
    scripts,    \* detectedScripts
    dangerous,  \* dangerousScripts
    native,     \* hasNativeBuild
    truncated,
    signals     \* the observations of the signals

vars == <<read, seenPaths, extracted, outcome, manifest, scripts, dangerous, native,
          truncated, signals>>

-----------------------------------------------------------------------------
(* Paths.                                                                  *)

\* path.Clean of a relative path.
CleanStep(done, seg) ==
    IF seg \in {"", "."} THEN done
    ELSE IF seg = ".." /\ done # <<>> /\ Last(done) # ".." THEN Front(done)
    ELSE Append(done, seg)
Clean(p) == FoldLeft(CleanStep, <<>>, p)

Traverses(e) == e.abs \/ ".." \in Range(e.path)

pathDepth(p) == Len(p)

Dir(p) == IF p = <<>> THEN <<>> ELSE Front(p)

\* Mutant: the target is only looked at from the entry's own directory.
LinkEscapesFromHere(e) ==
    /\ e.type \in {"symlink", "link"}
    /\ LET resolved == Clean(Dir(Clean(e.path)) \o Clean(e.link))
       IN  e.linkAbs \/ (resolved # <<>> /\ Head(resolved) = "..")

\* Symlinks and hard links: the target itself may not climb, and neither may
\* the target seen from the directory of the entry.
LinkEscapes(e) ==
    LET target   == Clean(e.link)
        resolved == Clean(Dir(Clean(e.path)) \o target)
        climbs(p) == p # <<>> /\ Head(p) = ".."
    IN  /\ e.type \in {"symlink", "link"}
        /\ e.linkAbs \/ climbs(target) \/ climbs(resolved)

Base(e)            == IF Clean(e.path) = <<>> THEN "." ELSE Last(Clean(e.path))
isNestedArchive(e) == e.type = "reg" /\ Base(e) \in {"x.tgz", "x.zip"}
isNativeBuild(e)   == Base(e) \in {"binding.gyp", "addon.node"}
isPackageJSON(e)   == Base(e) = "package.json"

\* Every regular package.json has a content.
ASSUME ContentAssumption ==
    \A e \in Entries : isPackageJSON(e) /\ e.type = "reg" => e.manifest # NoManifest

-----------------------------------------------------------------------------
(* package.json.                                                           *)

ReadLimit(e) == IF e.size > MaxPackageJSONBytes THEN MaxPackageJSONBytes ELSE e.size

\* json.Unmarshal of what was read: text that was cut off does not parse.
Parses(e) == e.manifest.valid /\ e.manifest.text <= ReadLimit(e)

Lifecycle(m) == {s \in m.scripts : s.name \in Hooks}

\* Mutant: the cut takes one byte too many.
IndicatesShort(s) == s.at > 0 /\ s.at <= s.len /\ s.at < MaxScriptBytes

\* An indicator pattern matches what is left of the script.
Indicates(s) == s.at > 0 /\ s.at <= s.len /\ s.at <= MaxScriptBytes

\* The scripts the loop over the map may get to: Go's order is random, the
\* loop ends at MaxScriptCount.
Examined(m) ==
    LET all == Lifecycle(m)
    IN  {S \in SUBSET all : Cardinality(S) =
            IF Cardinality(all) > MaxScriptCount THEN MaxScriptCount ELSE Cardinality(all)}

Cut(m, S) == S # Lifecycle(m) \/ \E s \in S : s.len > MaxScriptBytes

ScriptSignals(S) ==
    {<<"lifecycle_script", s.name>> : s \in S}
    \cup {<<"dangerous_script", s.name>> : s \in {t \in S : Indicates(t)}}
    \cup {<<"new_lifecycle_script", s.name>> :
             s \in {t \in S : Previous # {} /\ t.name \notin Previous}}
    \cup {<<"script_added">> : s \in {t \in S : Previous # {} /\ t.name \notin Previous}}

\* inspectPackageJSONContent and what the caller does with its result.
InspectManifest(e) ==
    /\ manifest' = e
    /\ \/ /\ ~Parses(e)
          /\ truncated' = (e.size > MaxPackageJSONBytes)
          /\ native' = (native \/ isNativeBuild(e))
          /\ UNCHANGED <<scripts, dangerous, signals>>
       \/ /\ Parses(e)
          /\ \E S \in Examined(e.manifest) :
                /\ truncated' = (e.size > MaxPackageJSONBytes \/ Cut(e.manifest, S))
                /\ scripts' = {s.name : s \in S}
                /\ dangerous' = {s.name : s \in {t \in S : Indicates(t)}}
                /\ signals' = ScriptSignals(S)
          /\ native' = (native \/ e.manifest.gypfile)

-----------------------------------------------------------------------------
Init ==
    /\ read = <<>> /\ seenPaths = {} /\ extracted = 0 /\ outcome = "reading"
    /\ manifest = NoManifest /\ scripts = {} /\ dangerous = {} /\ native = FALSE
    /\ truncated = FALSE /\ signals = {}

\* The checks of the loop; the first that applies is returned.
Check(e) ==
    IF Len(read) + 1 > MaxEntryCount THEN "too many entries"
    ELSE IF Traverses(e) THEN "path traversal"
    ELSE IF pathDepth(Clean(e.path)) > MaxNestingDepth THEN "too deep"
    ELSE IF Clean(e.path) \in seenPaths THEN "duplicate"
    ELSE IF LinkEscapes(e) THEN "link escape"
    ELSE IF e.size > MaxFileBytes THEN "entry too large"
    ELSE IF extracted + e.size > MaxExtractedBytes THEN "bomb"
    ELSE IF isNestedArchive(e) THEN "nested archive"
    ELSE "reading"

\* One turn of the loop: tarReader.Next and everything done with the header.
ReadEntry(e) ==
    /\ outcome = "reading"
    /\ read' = Append(read, e)
    /\ outcome' = Check(e)
    /\ \/ /\ outcome' # "reading"
          /\ UNCHANGED <<seenPaths, extracted, manifest, scripts, dangerous, native,
                         truncated, signals>>
       \/ /\ outcome' = "reading"
          /\ seenPaths' = seenPaths \cup {Clean(e.path)}
          /\ extracted' = extracted + e.size
          /\ \/ /\ isPackageJSON(e) /\ e.type = "reg" /\ manifest = NoManifest
                /\ InspectManifest(e)
             \/ /\ ~(isPackageJSON(e) /\ e.type = "reg" /\ manifest = NoManifest)
                /\ native' = (native \/ isNativeBuild(e))
                /\ UNCHANGED <<manifest, scripts, dangerous, truncated, signals>>

\* The deadline passes, the stream is longer than MaxTarballBytes, or it is
\* no gzip or tar: no inspection is returned.
Fail ==
    /\ outcome = "reading"
    /\ outcome' = "unreadable"
    /\ UNCHANGED <<read, seenPaths, extracted, manifest, scripts, dangerous, native,
                   truncated, signals>>

\* Mutant: the all-clear is given whatever was cut.
SummaryUnqualified ==
    (IF native THEN {<<"native_build">>} ELSE {})
    \cup (IF scripts # {} THEN {<<"present">>}
          ELSE IF native THEN {<<"native_build">>}
          ELSE {<<"none">>, <<"no_lifecycle_scripts">>})
    \cup (IF truncated THEN {<<"inspect_truncated">>} ELSE {})

Summary ==
    (IF native THEN {<<"native_build">>} ELSE {})
    \cup (IF scripts # {} THEN {<<"present">>}
          ELSE IF native THEN {<<"native_build">>}
          ELSE {<<"none">>} \cup IF truncated THEN {} ELSE {<<"no_lifecycle_scripts">>})
    \cup (IF truncated THEN {<<"inspect_truncated">>} ELSE {})

Finish ==
    /\ outcome = "reading"
    /\ outcome' = "accepted"
    /\ signals' = signals \cup Summary
    /\ UNCHANGED <<read, seenPaths, extracted, manifest, scripts, dangerous, native, truncated>>

Next == (\E e \in Entries : ReadEntry(e)) \/ Fail \/ Finish

Spec == Init /\ [][Next]_vars

-----------------------------------------------------------------------------
(* Properties.  Each compares the running result with a definition over    *)
(* the whole archive that knows nothing of the loop.                       *)

\* Every variable has its type.
TypeOK ==
    /\ read \in Seq(Entries) /\ Len(read) <= MaxEntryCount + 1
    /\ seenPaths \subseteq {Clean(e.path) : e \in Range(read)}
    /\ extracted \in 0 .. MaxExtractedBytes
    /\ manifest \in Entries \cup {NoManifest}
    /\ scripts \subseteq Hooks /\ dangerous \subseteq scripts
    /\ native \in BOOLEAN /\ truncated \in BOOLEAN

SizeOf(es) == FoldLeft(LAMBDA sum, e : sum + e.size, 0, es)

\* Walking along the segments never leads above the starting point.
Names(seg)  == seg \notin {"", ".", ".."}
Ups(p, n)   == {i \in 1 .. n : p[i] = ".."}
Downs(p, n) == {i \in 1 .. n : Names(p[i])}
StaysBelow(p) ==
    \A n \in 0 .. Len(p) : Cardinality(Ups(p, n)) <= Cardinality(Downs(p, n))

\* The limits, by the headers alone.
WithinLimits(es) ==
    /\ Len(es) <= MaxEntryCount
    /\ SizeOf(es) <= MaxExtractedBytes
    /\ \A i \in 1 .. Len(es) :
          /\ es[i].size <= MaxFileBytes
          /\ Len(Clean(es[i].path)) <= MaxNestingDepth
          /\ ~isNestedArchive(es[i])
    /\ \A i, j \in 1 .. Len(es) : i # j => Clean(es[i].path) # Clean(es[j].path)

\* An accepted archive keeps every limit, repeats no path and nests no archive,
\* and no entry or link target leads out of the directory it would be unpacked
\* to, as written and not only as cleaned; and an archive that is turned away
\* for a limit really breaks one.
AcceptedIsSound ==
    /\ outcome \in {"reading", "accepted"} =>
          /\ WithinLimits(read)
          /\ \A i \in 1 .. Len(read) :
                /\ ~read[i].abs /\ StaysBelow(read[i].path)
                /\ read[i].type \in {"symlink", "link"} =>
                      ~read[i].linkAbs /\ StaysBelow(read[i].link)
    /\ outcome \in {"too many entries", "too deep", "duplicate", "entry too large", "bomb",
                    "nested archive"} => ~WithinLimits(read)

\* A limit that was reached during inspection never reads as all-clear
\* (inspect.go:88): it is marked, and "no_lifecycle_scripts" is only said
\* when the manifest was read to its end and has none.
NoSilentAllClear ==
    outcome = "accepted" /\ manifest # NoManifest =>
        LET m == manifest.manifest
        IN  /\ (<<"no_lifecycle_scripts">> \in signals /\ m.valid) =>
                  m.text <= MaxPackageJSONBytes /\ Lifecycle(m) = {}
            /\ (Parses(manifest) /\ Cardinality(Lifecycle(m)) > MaxScriptCount)
                  => <<"inspect_truncated">> \in signals
            /\ (m.valid /\ m.text <= manifest.size /\ m.text > MaxPackageJSONBytes)
                  => <<"inspect_truncated">> \in signals

\* Without the mark nothing was missed: the scripts reported dangerous are
\* exactly those with an indicator anywhere, in whatever order Go's map
\* handed them out.
CompleteUnlessTruncated ==
    (outcome = "accepted" /\ manifest # NoManifest /\ ~truncated /\ Parses(manifest)) =>
        dangerous = {s.name : s \in {t \in Lifecycle(manifest.manifest) : t.at \in 1 .. t.len}}
=============================================================================
