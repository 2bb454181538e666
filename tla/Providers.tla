----------------------------- MODULE Providers -----------------------------
(***************************************************************************)
(* What the evidence providers make of the outside world:                  *)
(*                                                                         *)
(*   internal/evidence/history.go      ages and gaps between releases      *)
(*   internal/evidence/provenance.go   continuity of maintainers,          *)
(*                                     publisher, repository, attestation  *)
(*   internal/evidence/confusion.go    names that look like popular ones   *)
(*   internal/evidence/advisory.go     OSV records                         *)
(*                                                                         *)
(* The world is the state: somebody picks a name, publishes versions under *)
(* it and withdraws some.  The providers are functions of the documents    *)
(* the registry and the advisory database answer with, which may be        *)
(* incomplete.  An outcome is its state and its observations; module       *)
(* Policy turns the observations of all outcomes into a verdict.           *)
(*                                                                         *)
(* Versions are numbered in the order of publication.  A name is its       *)
(* sequence of letters, all of one case: the code folds case before it     *)
(* compares names.  The timeouts of the requests are failed answers; the   *)
(* comparison of names, which asks nobody, is taken to end in time.        *)
(***************************************************************************)
EXTENDS Policy, Integers, Sequences, SequencesExt

CONSTANTS
    Popular,        \* the corpus of popular names
    Letters,        \* letters that typing mistakes and imitations use
    Lookalike,      \* confusableMap: non-ASCII letters to what they imitate
    Adjacent,       \* qwertyAdjacent, as pairs
    Publications,   \* metadata that a version may be published with
    Advisories,     \* answers of the advisory database
    NoOne, NoRepo, NoTime, Invalid,
    Newborn, Fresh, Dormant,    \* thresholds of HistoryProvider
    Slack,          \* how far in the future a timestamp may lie
    MaxTime,        \* bound on the clock
    MaxActivity     \* bound on typing mistakes and publications together

ASSUME ThresholdAssumption == {Newborn, Fresh, Dormant, Slack, MaxTime, MaxActivity} \subseteq Nat
ASSUME PopularAssumption ==
    \A t \in Popular : t \in Seq(Range(t)) /\ t # <<>> /\ Range(t) \cap DOMAIN Lookalike = {}
ASSUME PublicationsAssumption ==
    \A m \in Publications :
        m.signed \in BOOLEAN /\ (m.repo = NoRepo \/ m.repo.scheme \in {"https", "git+https", "git", "ssh"})

ASSUME TimesAssumption ==
    /\ Invalid \notin Nat
    /\ \A n \in 0 .. MaxActivity : NoTime \notin [0 .. n -> 0 .. MaxTime]

VARIABLES
    name,       \* the name of the package
    origin,     \* the popular name it was made from
    typos,      \* how many mistakes were made
    edits,      \* and how many single-letter edits they amount to
    log,        \* every publication, oldest first
    withdrawn,  \* unpublished versions
    clock

worldVars == <<log, withdrawn, clock>>
nameVars  == <<name, origin, typos, edits>>
vars      == <<nameVars, worldVars>>

Published == 1 .. Len(log)

-----------------------------------------------------------------------------
(* Outcomes.                                                               *)

See(kind, what)     == [kind |-> kind, observation |-> what]
Unavailable(kind)   == [state |-> "unavailable", obs |-> {See(kind, "unavailable")}]
Degraded(kind, what) == [state |-> "degraded", obs |-> {See(kind, what)}]
Answered(stale, obs) == [state |-> IF stale THEN "stale" ELSE "available", obs |-> obs]

-----------------------------------------------------------------------------
(* The registry's answers.  time[0] is the entry "created".                *)

Complete == [kind |-> "ok", stale |-> FALSE, listed |-> TRUE, versions |-> Published \ withdrawn,
             time |-> [k \in 0 .. Len(log) |-> IF k = 0 THEN log[1].at ELSE log[k].at]]

\* A mirror or a proxy may fail, not know the package, leave out the versions,
\* the times or one of them, have one that does not parse or lies in the
\* future, or know it is outdated.
Incomplete ==
    LET without(k) == [j \in (0 .. Len(log)) \ {k} |-> Complete.time[j]]
    IN  {[Complete EXCEPT !.listed = FALSE, !.versions = {}], [Complete EXCEPT !.time = NoTime],
         [Complete EXCEPT !.stale = TRUE],
         [Complete EXCEPT !.kind = "failed"], [Complete EXCEPT !.kind = "404"]}
        \cup {[Complete EXCEPT !.time = without(k)] : k \in 0 .. Len(log)}
        \cup {[Complete EXCEPT !.time[k] = Invalid] : k \in 0 .. Len(log)}
        \cup {[Complete EXCEPT !.time[k] = clock + Slack + 1] : k \in 0 .. Len(log)}

\* Mutant: the last of the other versions.
findAnyOther(time, v) ==
    LET others == {w \in DOMAIN time \ {0, v} : time[w] # Invalid}
    IN  IF v \notin DOMAIN time \/ others = {} THEN 0
        ELSE CHOOSE w \in others : \A u \in others : time[u] <= time[w]

\* The last version before v, by the timestamps that parse; 0 if there is none.
findPreviousVersion(time, v) ==
    LET timeline == {w \in DOMAIN time : w # 0 /\ time[w] # Invalid}
        earlier  == {w \in timeline : time[w] < time[v]}
    IN  IF v \notin timeline \/ earlier = {} THEN 0
        ELSE CHOOSE w \in earlier : \A u \in earlier : time[u] <= time[w]

-----------------------------------------------------------------------------
(* HistoryProvider.                                                        *)

Age(p, v) ==
    IF clock - p.time[0] < Newborn THEN "newborn"
    ELSE IF clock - p.time[v] < Fresh THEN "fresh" ELSE "mature"

Gap(p, v) ==
    LET prev == findPreviousVersion(p.time, v)
    IN  IF prev = 0 THEN "initial_release"
        ELSE IF p.time[v] - p.time[prev] > Dormant THEN "dormant_revival" ELSE "active_history"

Missing(what) == {See("publish_history", what), See("package_age", what)}

History(p, v) ==
    IF p.kind = "404" THEN Answered(FALSE, Missing("not_found"))
    ELSE IF p.kind = "failed" THEN Unavailable("publish_history")
    ELSE IF p.listed /\ v \notin p.versions THEN Answered(p.stale, Missing("version_not_found"))
    ELSE IF p.time = NoTime THEN Degraded("publish_history", "missing_timeline")
    ELSE IF {0, v} \cap DOMAIN p.time # {0, v}
         THEN Degraded("publish_history", "missing_version_time")
    ELSE IF Invalid \in {p.time[0], p.time[v]} THEN Degraded("publish_history", "invalid_timestamp")
    ELSE IF p.time[v] > clock + Slack
         THEN Degraded("publish_history", "conflicting_future_timestamp")
    ELSE Answered(p.stale, {See("package_age", Age(p, v)), See("publish_history", Gap(p, v))})

-----------------------------------------------------------------------------
(* ProvenanceProvider.                                                     *)

\* The maintainers of the version, or those of the package as it is today.
Maintainers(m) == IF m.owners # {} THEN m.owners ELSE log[Len(log)].owners

\* A non-empty attestation or signature.
hasAttestation(m) == m.signed

\* "git+", "git://" and "ssh://git@" are cut off; "https://" is not.
normalizeRepoURL(repo) ==
    IF repo = NoRepo THEN <<>>
    ELSE <<IF repo.scheme \in {"https", "git+https"} THEN "https" ELSE "", repo.path>>

\* Mutant: a missing repository is no change.
ChangesNoRepo(cur, prev) ==
    {c \in {"repository_changed"} : /\ cur.repo # NoRepo /\ prev.repo # NoRepo
                                    /\ normalizeRepoURL(cur.repo) # normalizeRepoURL(prev.repo)}
    \cup {c \in {"attestation_removed"} : hasAttestation(prev) /\ ~hasAttestation(cur)}

Changes(cur, prev) ==
    {c \in {"maintainer_set_changed"} : Maintainers(cur) # Maintainers(prev)}
    \cup {c \in {"new_unrecognized_publisher", "publisher_changed"} :
             /\ NoOne \notin {cur.by, prev.by} /\ cur.by # prev.by
             /\ c = "publisher_changed" <=> cur.by \in Maintainers(prev)}
    \cup {c \in {"repository_changed"} :
             /\ prev.repo # NoRepo
             /\ normalizeRepoURL(cur.repo) # normalizeRepoURL(prev.repo)}
    \cup {c \in {"attestation_removed"} : hasAttestation(prev) /\ ~hasAttestation(cur)}

Continuity(cur, prev) ==
    LET changes == Changes(cur, prev)
    IN  IF changes = {} THEN {"unchanged"} ELSE {"changed"} \cup changes

Provenance(p, v) ==
    LET prev     == IF p.time = NoTime THEN 0 ELSE findPreviousVersion(p.time, v)
        attested == {a \in {"attestation_present"} : hasAttestation(log[v])}
        said(S)  == Answered(p.stale, {See("provenance", s) : s \in S})
    IN  IF p.kind = "404" THEN Answered(FALSE, {See("provenance", "not_found")})
        ELSE IF p.kind = "failed" THEN Unavailable("provenance")
        ELSE IF v \notin p.versions THEN said({"version_not_found"})
        ELSE IF prev = 0 THEN said(attested \cup {"initial_release"})
        ELSE IF prev \notin p.versions THEN Degraded("provenance", "conflicting_metadata")
        ELSE said(attested \cup Continuity(log[v], log[prev]))

-----------------------------------------------------------------------------
(* ConfusionProvider.                                                      *)

AsciiOnly(s) == Range(s) \cap DOMAIN Lookalike = {}
Skeleton(s)  == [i \in 1 .. Len(s) |->
                    IF s[i] \in DOMAIN Lookalike THEN Lookalike[s[i]] ELSE s[i]]
\* Bytes: a letter outside ASCII has two.
ByteLen(s)   == Len(s) + Cardinality({i \in 1 .. Len(s) : s[i] \in DOMAIN Lookalike})
LongerOf(m, n)  == IF m >= n THEN m ELSE n
ShorterOf(m, n) == IF m <= n THEN m ELSE n

checkUnicodeConfusable(s) == ~AsciiOnly(s) /\ Skeleton(s) \in Popular

\* "@scope/name" with a popular name after the slash.
ScopeConfusion(s) ==
    /\ s # <<>> /\ Head(s) = "@"
    /\ \E i \in 2 .. Len(s) :
          /\ s[i] = "/" /\ \A j \in 2 .. i - 1 : s[j] # "/"
          /\ SubSeq(s, i + 1, Len(s)) \in Popular

normalizeSeparators(s) == SelectSeq(s, LAMBDA c : c \notin {"-", "_", "."})

DiffIndices(s, t) == {i \in 1 .. Len(s) : s[i] # t[i]}

\* Both compare bytes; a letter outside ASCII differs in two that match nothing.
checkKeyboardAdjacency(s, t) ==
    /\ AsciiOnly(s) /\ Len(s) = Len(t)
    /\ \E i \in 1 .. Len(s) : DiffIndices(s, t) = {i} /\ <<s[i], t[i]>> \in Adjacent

isTransposition(s, t) ==
    /\ AsciiOnly(s) /\ Len(s) = Len(t) /\ Len(s) >= 3
    /\ \E i \in 1 .. Len(s) - 1 :
          DiffIndices(s, t) = {i, i + 1} /\ s[i] = t[i + 1] /\ s[i + 1] = t[i]

\* The row of the table for the first i letters of one name, of which c is the
\* last: entry j + 1 is their distance from the first j letters of the other.
\* The row is filled from the left.
NextRow(prev, c, i, t) ==
    LET curr[j \in 0 .. Len(t)] ==
            IF j = 0 THEN <<i>>
            ELSE LET filled == curr[j - 1]
                 IN  Append(filled, ShorterOf(ShorterOf(prev[j + 1] + 1, filled[j] + 1),
                                              prev[j] + IF t[j] = c THEN 0 ELSE 1))
    IN  curr[Len(t)]

\* The code keeps the last two rows only.
levenshteinDistance(s, t) ==
    LET row[i \in 0 .. Len(s)] ==
            IF i = 0 THEN [j \in 1 .. Len(t) + 1 |-> j - 1] ELSE NextRow(row[i - 1], s[i], i, t)
    IN  row[Len(s)][Len(t) + 1]

\* Mutant: short names are let off.
NearLong(s, t) == levenshteinDistance(s, t) = 1 /\ ByteLen(t) >= 8

\* One edit from a name of at least four letters, or two from one of at least
\* eight with a similarity of 0.80.
Near(s, t) ==
    LET dist == levenshteinDistance(s, t)
    IN  \/ dist = 1 /\ ByteLen(t) >= 4
        \/ dist = 2 /\ ByteLen(t) >= 8 /\ 5 * dist <= LongerOf(ByteLen(s), ByteLen(t))

evaluateCandidate(s) ==
    \/ checkUnicodeConfusable(s)
    \/ ScopeConfusion(s)
    \/ \E t \in Popular \ {s} :
          \/ normalizeSeparators(s) = normalizeSeparators(t) /\ normalizeSeparators(s) # <<>>
          \/ checkKeyboardAdjacency(s, t) \/ isTransposition(s, t) \/ Near(s, t)

Confusion(s) ==
    IF Popular = {} THEN Unavailable("name_confusion")
    ELSE Answered(FALSE, {See("name_confusion",
                              IF s \in Popular THEN "exact_popular_match"
                              ELSE IF evaluateCandidate(s) THEN "confusion_detected"
                              ELSE "no_confusion_detected")})

-----------------------------------------------------------------------------
(* AdvisoryProvider.                                                       *)

\* Some mark makes a record malicious: its identifier, an alias, a flag or the text.
isMaliciousRecord(r) == r.marks # {}

processVulnerabilities(vulns) ==
    LET malicious == {r \in vulns : isMaliciousRecord(r)}
    IN  IF vulns = {} THEN {See("vulnerability", "no_record_found")}
        ELSE {See(kind, "malicious") : kind \in {k \in {"malicious", "vulnerability"} : malicious # {}}}
             \cup {See("vulnerability", "above_threshold") : r \in vulns \ malicious}
             \cup {See("vulnerability", "safe_version_suggested") :
                      r \in {q \in vulns : q.fixed /\ malicious = {}}}

\* Without a "vulns" key an answer is none.
Advisory(reply) ==
    IF reply.kind \in {"failed", "no vulns key"} THEN Unavailable("vulnerability")
    ELSE Answered(reply.stale, processVulnerabilities(reply.vulns))

-----------------------------------------------------------------------------
(* The world.                                                              *)

Init ==
    /\ origin \in Popular /\ name = origin /\ typos = 0 /\ edits = 0
    /\ log = <<>> /\ withdrawn = {} /\ clock = 0

\* Somebody gets the name wrong, or imitates it, before publishing.
Typo(s, cost) ==
    /\ log = <<>> /\ typos < MaxActivity
    /\ name' = s /\ typos' = typos + 1 /\ edits' = edits + cost
    /\ UNCHANGED <<origin, worldVars>>

Insert  == \E i \in 0 .. Len(name), c \in Letters : Typo(InsertAt(name, i + 1, c), 1)
Leave   == \E i \in 1 .. Len(name) : Typo(RemoveAt(name, i), 1)
Replace == \E i \in 1 .. Len(name), c \in Letters : Typo([name EXCEPT ![i] = c], 1)
Swap    == \E i \in 1 .. Len(name) - 1 :
               Typo([name EXCEPT ![i] = name[i + 1], ![i + 1] = name[i]], 2)
Scope   == Typo(<<"@", "s", "/">> \o name, 3)

\* The registry takes one publication at a time, each with a later timestamp.
Publish(m) ==
    /\ typos + Len(log) < MaxActivity /\ clock < MaxTime
    /\ log' = Append(log, [by |-> m.by, owners |-> m.owners, repo |-> m.repo, signed |-> m.signed,
                           at |-> clock])
    /\ clock' = clock + 1
    /\ UNCHANGED <<nameVars, withdrawn>>

\* The version goes, its timestamp stays.
Unpublish(v) ==
    /\ v \in Published \ withdrawn
    /\ withdrawn' = withdrawn \cup {v}
    /\ UNCHANGED <<nameVars, log, clock>>

Tick ==
    /\ log # <<>> /\ clock < MaxTime
    /\ clock' = clock + 1
    /\ UNCHANGED <<nameVars, log, withdrawn>>

Next ==
    \/ Insert \/ Leave \/ Replace \/ Swap \/ Scope
    \/ (\E m \in Publications : Publish(m)) \/ (\E v \in Published : Unpublish(v)) \/ Tick

Spec == Init /\ [][Next]_vars

-----------------------------------------------------------------------------
(* Properties.                                                             *)

\* Two publications one after the other that are not in the same hands.
Handover(cur, prev) ==
    \/ {} \notin {cur.owners, prev.owners} /\ cur.owners # prev.owners
    \/ NoOne \notin {cur.by, prev.by} /\ cur.by # prev.by
    \/ prev.repo # NoRepo /\ (cur.repo = NoRepo \/ cur.repo.path # prev.repo.path)
    \/ prev.signed /\ ~cur.signed

\* A version in other hands than the one published before it is never passed
\* off as unchanged or as a first release by an answer that neither provider
\* finds fault with: whatever was published before and after, whatever was
\* withdrawn, and whatever the packument leaves out, as long as it has the time
\* of the version before.
TakeoverSeen ==
    \A v \in 2 .. Len(log) : \A p \in {Complete} \cup Incomplete :
        (/\ Handover(log[v], log[v - 1])
         /\ p.time = NoTime \/ (v - 1 \in DOMAIN p.time /\ p.time[v - 1] = log[v - 1].at)
         /\ History(p, v).state \in {"available", "stale"})
        => Provenance(p, v).obs \cap {See("provenance", what) : what \in {"unchanged", "initial_release"}} = {}

\* The other way round, a change is only reported where an earlier version of
\* the package was published with other metadata, never because of what came
\* later, unless the history provider finds fault with the same packument.
AlarmHasCause ==
    \A v \in Published : \A p \in {Complete} \cup Incomplete :
        (/\ See("provenance", "changed") \in Provenance(p, v).obs
         /\ History(p, v).state \in {"available", "stale"}) =>
            \E w \in 1 .. v - 1 :
                \/ \E f \in {"by", "repo", "signed"} : log[v][f] # log[w][f]
                \/ log[v].owners # log[w].owners

\* A young package whose name is one slip away from a popular name of four
\* letters or more, or two letters from one of ten, is held in both profiles,
\* whatever the advisory database answers.
TypoHeld ==
    (/\ typos = 1 \/ (edits = 2 /\ Len(origin) >= 10)
     /\ name \notin Popular /\ Len(origin) >= 4
     /\ log # <<>> /\ Len(log) \notin withdrawn
     /\ clock - log[1].at < Newborn \/ clock - log[Len(log)].at < Fresh)
    => LET found == Confusion(name).obs \cup History(Complete, Len(log)).obs
                    \cup Provenance(Complete, Len(log)).obs
       IN  \A a \in Advisories, profile \in Profiles, t \in Severities :
              LET outcome == Advisory(a)
              IN  Holds(Evaluate(profile,
                                 Assess(found \cup outcome.obs, {outcome.state}, t)).verdict)
=============================================================================
