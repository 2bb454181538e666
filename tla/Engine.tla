------------------------------- MODULE Engine -------------------------------
(***************************************************************************)
(* The decision engine that the gateway, the CLI and the MCP server share, *)
(* for one package version:                                                *)
(*                                                                         *)
(*   internal/evidence/assembler.go  Assemble: clock, providers, cache;    *)
(*   internal/evidence/cache.go      MemoryCache, shared by the requests;  *)
(*   internal/gateway/engine.go      EvaluateSnapshot: policy, approvals,  *)
(*                                   document, decision and audit records; *)
(*   internal/explanation/document.go  what the document shows;            *)
(*   internal/store/sqlite.go        the approvals;                        *)
(*   cmd/installgate/main.go         approve, revoke and deny.             *)
(*                                                                         *)
(* Requests run concurrently.  A step is one reading of the clock, one     *)
(* access to the cache (which has a lock), one half of a provider's query  *)
(* or one database statement.  A provider reads its clock, then asks the   *)
(* upstream, whose answer is what the upstream holds when it answers.      *)
(* A required kind without a provider is a provider that always fails.     *)
(***************************************************************************)
EXTENDS Policy, Sequences, FiniteSets

CONSTANTS
    Requests,        \* evaluations that may run at the same time
    Kinds,           \* the evidence kinds of the providers, in their order
    Reports,         \* what each upstream may hold: Reports[k] is a set of
                     \* sets of observations
    Approvals,       \* identifiers of approvals
    None,
    FreshTTL,        \* how long an observation is fresh (FreshnessPolicy)
    StaleTTL,        \* and how long after that it may still be used
    ApprovalTTL,     \* how long an approval lasts
    MaxTime,         \* bound on the clock
    Threshold,       \* vulnerability_threshold of the policy
    Denies,          \* is deny run?
    UpstreamStale    \* may an upstream answer with an outdated or partial
                     \* report?

ASSUME TimesAssumption ==
    /\ {FreshTTL, StaleTTL, MaxTime} \subseteq Nat
    /\ ApprovalTTL \in Nat \ {0}
ASSUME PolicyAssumption == Threshold \in Severities
ASSUME SwitchesAssumption == {Denies, UpstreamStale} \subseteq BOOLEAN

Providers == 1 .. Len(Kinds)

\* There is a provider.  Only the assembler writes evidence of the kind
\* "cache", and "malicious" is said of a version by its advisories.
ASSUME EvidenceAssumption ==
    /\ Kinds \in Seq(STRING) /\ Kinds # <<>>
    /\ \A i \in Providers : \A report \in Reports[i] : \A o \in report :
          /\ o \in [kind : STRING \ {"cache"}, observation : STRING]
          /\ o.observation = "malicious" => o.kind \in {"malicious", "vulnerability"}

Time == 0 .. MaxTime
Patterns == {"exact", "caret", "any"}
Unavailable(i) == {[kind |-> Kinds[i], observation |-> "unavailable"]}
Observations == UNION {Unavailable(i) \cup UNION Reports[i] : i \in Providers}
Malicious(report) == \E o \in report : o.observation = "malicious"

VARIABLES
    clock,
    world,        \* what each upstream holds now
    since,        \* when it last changed (ghost)
    profile,      \* the profile of the policy, loaded at start
    cache,        \* MemoryCache.evidence
    allows,       \* MemoryCache.decisions, for this package version
    approvals,    \* the table of approvals
    deny,         \* the approvals a running deny command has still to revoke,
                  \* or None
    pc, next,     \* where each evaluation is, and its provider
    now, hit,     \* its clock reading and the cached allow it saw
    held, asked,  \* the stale entry in reserve, and the provider's clock
    live,         \* the provider's answer
    used,         \* the evidence of the snapshot, per provider
    doc,          \* the decision document
    void          \* approvals that were void when it began (ghost)

store == <<approvals, deny>>
caches == <<cache, allows>>
env == <<clock, world, since, profile>>
locals == <<pc, next, now, hit, held, asked, live, used, doc, void>>
vars == <<env, caches, store, locals>>

Points == {"idle", "allow", "get", "ask", "wait", "put", "decide", "record"}

Outcome == [state : {"available", "stale", "degraded", "unavailable"},
            from : {"live", "cache", "upstream"},
            obs : SUBSET Observations,
            retrieved : Time]
Approval == [pattern : Patterns, expires : Nat, revoked : BOOLEAN]
Document == [verdict : Verdicts, rule : Rules, degraded : BOOLEAN,
             via : Approvals \cup {None}, stale : BOOLEAN]

ASSUME NoneAssumption ==
    None \notin Nat \cup Approvals \cup Approval \cup Outcome \cup Document

TypeOK ==
    /\ clock \in Time
    /\ world \in [Providers -> UNION {Reports[i] : i \in Providers}]
    /\ \A i \in Providers : world[i] \in Reports[i]
    /\ since \in [Providers -> Time]
    /\ profile \in Profiles
    /\ cache \in [Providers -> Outcome \cup {None}]
    /\ allows \in Time \cup {None}
    /\ approvals \in [Approvals -> Approval \cup {None}]
    /\ deny \in {None} \cup SUBSET Approvals
    /\ pc \in [Requests -> Points]
    /\ next \in [Requests -> Providers]
    /\ now \in [Requests -> Time]
    /\ hit \in [Requests -> {"none", "fresh_allow", "stale_allow"}]
    /\ held \in [Requests -> Outcome \cup {None}]
    /\ asked \in [Requests -> Time]
    /\ live \in [Requests -> Outcome \cup {None}]
    /\ used \in [Requests -> [Providers -> Outcome \cup {None}]]
    /\ doc \in [Requests -> Document \cup {None}]
    /\ void \in [Requests -> SUBSET Approvals]

Init ==
    /\ clock = 0
    /\ world \in {w \in [Providers -> UNION {Reports[i] : i \in Providers}] :
                     \A i \in Providers : w[i] \in Reports[i]}
    /\ since = [i \in Providers |-> 0]
    /\ profile \in Profiles
    /\ cache = [i \in Providers |-> None]
    /\ allows = None
    /\ approvals = [a \in Approvals |-> None]
    /\ deny = None
    /\ pc = [r \in Requests |-> "idle"]
    /\ next = [r \in Requests |-> 1]
    /\ now = [r \in Requests |-> 0]
    /\ hit = [r \in Requests |-> "none"]
    /\ held = [r \in Requests |-> None]
    /\ asked = [r \in Requests |-> 0]
    /\ live = [r \in Requests |-> None]
    /\ used = [r \in Requests |-> [i \in Providers |-> None]]
    /\ doc = [r \in Requests |-> None]
    /\ void = [r \in Requests |-> {}]

-----------------------------------------------------------------------------
(* Bookkeeping.                                                            *)

At(r, point) == pc[r] = point
Go(r, point) == pc' = [pc EXCEPT ![r] = point]

FreshUntil(o) == IF o.state = "stale" /\ o.from = "upstream" THEN o.retrieved
                 ELSE o.retrieved + FreshTTL
StaleUntil(o) == o.retrieved + FreshTTL + StaleTTL

\* The outcome of the provider at hand is in the snapshot; on to the next.
Use(r, outcome) ==
    /\ used' = [used EXCEPT ![r][next[r]] = outcome]
    /\ held' = [held EXCEPT ![r] = None]
    /\ live' = [live EXCEPT ![r] = None]
    /\ asked' = [asked EXCEPT ![r] = 0]
    /\ IF next[r] = Len(Kinds)
       THEN Go(r, "decide") /\ next' = next
       ELSE Go(r, "get") /\ next' = [next EXCEPT ![r] = @ + 1]

\* A live approval for this version (FindActiveApproval): every pattern here
\* matches it.
Active(a, t) == approvals[a] # None /\ ~approvals[a].revoked /\ approvals[a].expires > t

-----------------------------------------------------------------------------
(* Assemble.                                                               *)

Begin(r) ==
    /\ At(r, "idle")
    /\ now' = [now EXCEPT ![r] = clock]
    /\ doc' = [doc EXCEPT ![r] = None]
    /\ void' = [void EXCEPT ![r] = {a \in Approvals : approvals[a] # None /\ ~Active(a, clock)}]
    /\ Go(r, "allow")
    /\ UNCHANGED <<env, caches, store, next, hit, held, asked, live, used>>

\* GetCachedAllow, IsFresh and IsStale.
CheckAllow(r) ==
    /\ At(r, "allow")
    /\ hit' = [hit EXCEPT ![r] =
                  IF allows = None \/ now[r] > allows + FreshTTL + StaleTTL THEN "none"
                  ELSE IF now[r] <= allows + FreshTTL THEN "fresh_allow" ELSE "stale_allow"]
    /\ Go(r, "get")
    /\ UNCHANGED <<env, caches, store, next, now, held, asked, live, used, doc, void>>

\* Cache.Get: a fresh entry is used, a stale one kept in reserve.
Get(r) ==
    LET entry == cache[next[r]] IN
    /\ At(r, "get")
    /\ IF entry # None /\ now[r] <= FreshUntil(entry)
       THEN Use(r, [entry EXCEPT !.from = "cache"])
       ELSE /\ held' = [held EXCEPT ![r] =
                           IF entry # None /\ now[r] <= StaleUntil(entry)
                           THEN [entry EXCEPT !.state = "stale", !.from = "cache"] ELSE None]
            /\ Go(r, "ask")
            /\ UNCHANGED <<next, asked, live, used>>
    /\ UNCHANGED <<env, caches, store, now, hit, doc, void>>

\* Provide, first half: the provider reads its clock.
Ask(r) ==
    /\ At(r, "ask")
    /\ asked' = [asked EXCEPT ![r] = clock]
    /\ Go(r, "wait")
    /\ UNCHANGED <<env, caches, store, next, now, hit, held, live, used, doc, void>>

\* Provide, second half: the upstream answers.
Answer(r) ==
    /\ At(r, "wait")
    /\ live' = [live EXCEPT ![r] = [state |-> "available", obs |-> world[next[r]],
                                    retrieved |-> asked[r], from |-> "live"]]
    /\ Go(r, "put")
    /\ UNCHANGED <<env, caches, store, next, now, hit, held, asked, used, doc, void>>

\* The upstream says itself that its answer is stale, or gives a part of it.
\* Such an answer is used and not cached.
AnswerReduced(r) ==
    /\ UpstreamStale
    /\ At(r, "wait")
    /\ \E report \in Reports[next[r]], state \in {"stale", "degraded"} :
          Use(r, [state |-> state, obs |-> report, retrieved |-> asked[r], from |-> "upstream"])
    /\ UNCHANGED <<env, caches, store, now, hit, doc, void>>

\* An error, a timeout, an empty or an unreadable answer: the stale entry is
\* used, or the kind is marked unavailable.
AnswerFail(r) ==
    /\ At(r, "wait")
    /\ Use(r, IF held[r] # None THEN held[r]
              ELSE [state |-> "unavailable", obs |-> Unavailable(next[r]),
                    retrieved |-> asked[r], from |-> "live"])
    /\ UNCHANGED <<env, caches, store, now, hit, doc, void>>

\* Mutant: the entry is as old as the time it is stored.
PutNow(r) ==
    /\ At(r, "put")
    /\ cache' = [cache EXCEPT ![next[r]] = [live[r] EXCEPT !.retrieved = clock]]
    /\ Use(r, live[r])
    /\ UNCHANGED <<env, allows, store, now, hit, doc, void>>

\* Cache.Put overwrites whatever another request has stored meanwhile.
Put(r) ==
    /\ At(r, "put")
    /\ cache' = [cache EXCEPT ![next[r]] = live[r]]
    /\ Use(r, live[r])
    /\ UNCHANGED <<env, allows, store, now, hit, doc, void>>

-----------------------------------------------------------------------------
(* EvaluateSnapshot.                                                       *)

Observed(r) ==
    (UNION {used[r][i].obs : i \in Providers})
    \cup (IF hit[r] = "none" THEN {} ELSE {[kind |-> "cache", observation |-> hit[r]]})
ProviderStates(r) == {used[r][i].state : i \in Providers}
Assessment(r) == Assess(Observed(r), ProviderStates(r), Threshold)

\* The kinds of evidence a document shows for a rule (Reason.SignalKinds).
SignalKinds(rule) ==
    CASE rule = "core.integrity-or-malicious"         -> {"integrity", "malicious"}
      [] rule = "execution.dangerous-install-script"  -> {"install_script"}
      [] rule = "execution.install-time"              -> {"install_script"}
      [] rule = "core.vulnerability-threshold"        -> {"vulnerability"}
      [] rule = "identity.confusable-new"             -> {"name_confusion", "package_age"}
      [] rule = "release.provenance-script-change"    -> {"provenance", "install_script"}
      [] rule = "availability.fresh-cache"            -> {"availability", "cache"}
      [] rule = "availability.no-cache"               -> {"availability"}
      [] rule = "reputation"                          -> {"reputation"}
      [] rule = "registry.package-not-found"          -> {"publish_history"}
      [] OTHER                                        -> {}

\* Does the document show an evidence record as stale (classifyFreshness)?
ShowsStale(r, rule) ==
    \E i \in Providers : /\ now[r] > FreshUntil(used[r][i])
                         /\ \E o \in used[r][i].obs : o.kind \in SignalKinds(rule)

\* Mutant: an approval is looked up for a block as well.
ApprovableAll(verdict) == verdict \in {"approval_required", "block"}

Approvable(verdict) == verdict = "approval_required"

\* Mutant: a revoked approval is found.
FindUnexpired == {a \in Approvals : approvals[a] # None /\ approvals[a].expires > clock}

FindActiveApproval == {a \in Approvals : Active(a, clock)}

\* Mutant: the document only repeats what the policy says.
DegradedByPolicy(r, decision) == decision.degraded

\* NewDecisionDocument.
Degraded(r, decision) ==
    decision.degraded \/ HasUnavailableEvidence(Observed(r), ProviderStates(r))

\* Policy, approval and document.  The latest approval is taken; which one
\* makes no difference to the verdict.
Decide(r) ==
    LET decision == Evaluate(profile, Assessment(r))
        found    == IF Approvable(decision.verdict) THEN FindActiveApproval ELSE {}
        Issue(verdict, via) ==
            doc' = [doc EXCEPT ![r] = [verdict |-> verdict, rule |-> decision.rule,
                                       degraded |-> Degraded(r, decision), via |-> via,
                                       stale |-> ShowsStale(r, decision.rule)]]
    IN  /\ At(r, "decide")
        /\ IF found = {} THEN Issue(decision.verdict, None)
                         ELSE \E a \in found : Issue("allow", a)
        /\ Go(r, "record")
        /\ UNCHANGED <<env, caches, store, next, now, hit, held, asked, live, used, void>>

\* SaveDecision and AppendAudit.  No evaluation reads what they write and
\* their errors are dropped, so the decision is returned whether they succeed
\* or not, and the locals of the evaluation are gone.
Record(r) ==
    /\ At(r, "record")
    /\ Go(r, "idle")
    /\ next' = [next EXCEPT ![r] = 1]
    /\ now' = [now EXCEPT ![r] = 0]
    /\ hit' = [hit EXCEPT ![r] = "none"]
    /\ used' = [used EXCEPT ![r] = [i \in Providers |-> None]]
    /\ void' = [void EXCEPT ![r] = {}]
    /\ UNCHANGED <<env, caches, store, held, asked, live, doc>>

\* PutCachedAllow, which takes every allow.  No command calls it yet; a
\* caller has a finished decision to store.
PutCachedAllow(r) ==
    /\ At(r, "idle") /\ doc[r] # None
    /\ doc[r].verdict = "allow"
    /\ allows' = clock
    /\ UNCHANGED <<env, cache, store, locals>>

-----------------------------------------------------------------------------
(* Approvals.                                                              *)

\* runApprove: CreateApproval for this version, a range or every version.
Approve(a, pattern) ==
    /\ approvals[a] = None
    /\ approvals' = [approvals EXCEPT ![a] = [pattern |-> pattern, revoked |-> FALSE,
                                              expires |-> clock + ApprovalTTL]]
    /\ UNCHANGED <<env, caches, deny, locals>>

\* runRevoke: RevokeApproval.
Revoke(a) ==
    /\ approvals[a] # None /\ ~approvals[a].revoked
    /\ approvals' = [approvals EXCEPT ![a].revoked = TRUE]
    /\ UNCHANGED <<env, caches, deny, locals>>

\* runDeny for this version: the active approvals are listed, ...
DenyList ==
    /\ Denies
    /\ deny = None
    /\ deny' = {a \in FindActiveApproval : approvals[a].pattern \in {"exact", "any"}}
    /\ UNCHANGED <<env, caches, approvals, locals>>

\* ... and those that name this or every version are revoked one by one.
DenyRevoke(a) ==
    /\ deny # None /\ a \in deny
    /\ deny' = deny \ {a}
    /\ approvals' = [approvals EXCEPT ![a].revoked = TRUE]
    /\ UNCHANGED <<env, caches, locals>>

DenyDone ==
    /\ deny = {}
    /\ deny' = None
    /\ UNCHANGED <<env, caches, approvals, locals>>

-----------------------------------------------------------------------------
(* The environment.                                                        *)

Tick ==
    /\ clock < MaxTime
    /\ clock' = clock + 1
    /\ UNCHANGED <<world, since, profile, caches, store, locals>>

\* An upstream changes; a malicious record stays.
Publish(i) ==
    /\ ~Malicious(world[i])
    /\ \E report \in Reports[i] \ {world[i]} : world' = [world EXCEPT ![i] = report]
    /\ since' = [since EXCEPT ![i] = clock]
    /\ UNCHANGED <<clock, profile, caches, store, locals>>

-----------------------------------------------------------------------------
Assemble(r) ==
    \/ CheckAllow(r) \/ Get(r) \/ Ask(r) \/ Answer(r) \/ AnswerReduced(r) \/ AnswerFail(r) \/ Put(r)

EvaluateSnapshot(r) == Decide(r) \/ Record(r)

Deny == DenyList \/ DenyDone \/ \E a \in Approvals : DenyRevoke(a)

Next ==
    \/ \E r \in Requests : Begin(r) \/ Assemble(r) \/ EvaluateSnapshot(r) \/ PutCachedAllow(r)
    \/ \E a \in Approvals : Revoke(a) \/ \E p \in Patterns : Approve(a, p)
    \/ Deny
    \/ Tick
    \/ \E i \in Providers : Publish(i)

Spec == Init /\ [][Next]_vars

-----------------------------------------------------------------------------
(* Properties, of a decision just made.                                    *)

Decided(r) == At(r, "record")

\* A malicious record takes effect: a decision begun more than FreshTTL after
\* an advisory was published blocks, and one that had to fall back on stale
\* evidence does after StaleTTL more, although answers overtake each other
\* in the cache and whatever has been approved.  It may do without the
\* record only if it says that it is degraded or the upstream was stale.
AdvisoryTakesEffect ==
    \A r \in Requests, i \in Providers :
        LET u == used[r][i] IN
        (/\ Decided(r)
         /\ Malicious(world[i])
         /\ u.from # "upstream"
         /\ now[r] > since[i] + FreshTTL + (IF u.state = "stale" THEN StaleTTL ELSE 0))
        => doc[r].verdict = "block" \/ doc[r].degraded

\* "provider outages always degrade decisions and cannot be ignored"
\* (BoundsStatement), for an outage without a usable entry: the document is
\* degraded, and the package passes only with an approval or, in the
\* balanced profile, with a cached allow that was fresh.
OutageVisible ==
    \A r \in Requests :
        (Decided(r) /\ "unavailable" \in ProviderStates(r))
        => /\ doc[r].degraded
           /\ doc[r].verdict \in {"allow", "warn"}
              => doc[r].via # None \/ (profile = "balanced" /\ hit[r] = "fresh_allow")

\* "integrity mismatches and known malicious packages always block"
\* (BoundsStatement), whatever has been approved or cached.
MaliciousBlocks ==
    \A r \in Requests :
        (Decided(r) /\ \E i \in Providers : Malicious(used[r][i].obs))
        => doc[r].verdict = "block" /\ doc[r].via = None

\* An evaluation that begins after an approval was revoked or has expired is
\* not let through by it ("expiring, attributable human approvals").
RevocationHolds ==
    \A r \in Requests : Decided(r) => doc[r].via \notin void[r]
=============================================================================
