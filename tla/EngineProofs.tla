---------------------------- MODULE EngineProofs ----------------------------
(***************************************************************************)
(* Proofs about the decision engine, for every number of requests, every   *)
(* list of providers and what their upstreams may hold, every set of       *)
(* approvals and all lifetimes.                                            *)
(*                                                                         *)
(* The argument is about the age of evidence.  Whatever is cached, kept in *)
(* reserve or used was asked for at a time that has passed, and if that    *)
(* time is after the upstream changed to a malicious report, the evidence  *)
(* is that report (Dated).  What an evaluation uses is young enough for    *)
(* the time it began (Young).  Put together, evidence an evaluation may    *)
(* use a lifetime after an advisory has the advisory in it.                *)
(***************************************************************************)
EXTENDS Engine, TLAPS

\* An outcome was asked for by time t, and knows of a malicious report w
\* that the upstream has held since s.
Dated(o, t, w, s) ==
    o # None =>
        /\ o.retrieved <= t
        /\ (/\ o.state # "unavailable"
            /\ o.from # "upstream"
            /\ Malicious(w)
            /\ o.retrieved > s) => Malicious(o.obs)

\* An evaluation that began at time t may use the outcome.
Young(o, t) ==
    (o # None /\ o.from # "upstream" /\ o.state # "unavailable")
    => t <= o.retrieved + FreshTTL + (IF o.state = "stale" THEN StaleTTL ELSE 0)

\* No change of an upstream and no cache entry is from the future.
Shared ==
    \A i \in Providers :
        /\ since[i] <= clock
        /\ Dated(cache[i], clock, world[i], since[i])
        /\ cache[i] # None => cache[i].state = "available" /\ cache[i].from = "live"

\* What an evaluation holds where it is in Assemble.
Holding(r) ==
    /\ held[r] # None => /\ pc[r] \in {"ask", "wait", "put"}
                         /\ held[r].state = "stale" /\ held[r].from = "cache"
    /\ live[r] # None => /\ pc[r] = "put"
                         /\ live[r].state = "available" /\ live[r].from = "live"
    /\ pc[r] = "put" => live[r] # None
    /\ pc[r] = "wait" => now[r] <= asked[r]
    /\ now[r] <= clock /\ asked[r] <= clock

\* How far it has come.
Progress(r) ==
    /\ pc[r] \in {"idle", "allow"} => next[r] = 1
    /\ pc[r] \in {"idle", "allow"} => \A i \in Providers : used[r][i] = None
    /\ pc[r] \in {"get", "ask", "wait", "put"} =>
          \A i \in Providers : i < next[r] => used[r][i] # None
    /\ pc[r] \in {"decide", "record"} => \A i \in Providers : used[r][i] # None

\* Its evidence.
Evidence(r) ==
    /\ Dated(held[r], clock, world[next[r]], since[next[r]]) /\ Young(held[r], now[r])
    /\ Dated(live[r], clock, world[next[r]], since[next[r]]) /\ Young(live[r], now[r])
    /\ \A i \in Providers : /\ Dated(used[r][i], clock, world[i], since[i])
                            /\ Young(used[r][i], now[r])

\* What was void when it began still is.
Voided(r) == \A a \in void[r] : approvals[a] # None /\ ~Active(a, clock)

Local(r) == Holding(r) /\ Progress(r) /\ Evidence(r) /\ Voided(r)

\* A deny command revokes approvals that exist.
Listed == deny # None => \A a \in deny : approvals[a] # None

IInv == TypeOK /\ Shared /\ Listed /\ \A r \in Requests : Local(r)

-----------------------------------------------------------------------------
(* Types.                                                                  *)

\* There is a first provider, and times are natural numbers.
LEMMA Constants ==
    /\ Len(Kinds) \in Nat \ {0}
    /\ 1 \in Providers
    /\ Time \subseteq Nat
    /\ FreshTTL \in Nat /\ StaleTTL \in Nat /\ MaxTime \in Nat /\ ApprovalTTL \in Nat
    /\ None \notin Nat /\ None \notin Approvals /\ None \notin Approval
    /\ None \notin Outcome /\ None \notin Document
<1>1. Kinds \in Seq(STRING) /\ Kinds # <<>>
  BY EvidenceAssumption
<1>2. Len(Kinds) \in Nat \ {0}
  BY <1>1
<1>3. FreshTTL \in Nat /\ StaleTTL \in Nat /\ MaxTime \in Nat /\ ApprovalTTL \in Nat
  BY TimesAssumption
<1> QED
  BY <1>2, <1>3, NoneAssumption DEF Providers, Time

\* What an upstream may hold is a set of observations.
LEMMA ReportType ==
    ASSUME NEW i \in Providers, NEW report \in Reports[i]
    PROVE  /\ report \in SUBSET Observations
           /\ \A o \in report : /\ o = [kind |-> o.kind, observation |-> o.observation]
                                /\ o.kind # "cache"
                                /\ o.observation = "malicious"
                                      => o.kind \in {"malicious", "vulnerability"}
<1>1. \A o \in report : /\ o \in [kind : STRING \ {"cache"}, observation : STRING]
                        /\ o.observation = "malicious" => o.kind \in {"malicious", "vulnerability"}
  BY EvidenceAssumption
<1>2. \A o \in report : o = [kind |-> o.kind, observation |-> o.observation] /\ o.kind # "cache"
  BY <1>1
<1>3. report \in SUBSET Observations
  BY DEF Observations
<1> QED
  BY <1>1, <1>2, <1>3

\* Putting an outcome into the snapshot keeps the types.
LEMMA UseType ==
    ASSUME TypeOK, NEW r \in Requests, NEW o \in Outcome \cup {None}, Use(r, o)
    PROVE  /\ used' \in [Requests -> [Providers -> Outcome \cup {None}]]
           /\ held' \in [Requests -> Outcome \cup {None}]
           /\ live' \in [Requests -> Outcome \cup {None}]
           /\ asked' \in [Requests -> Time]
           /\ pc' \in [Requests -> Points]
           /\ next' \in [Requests -> Providers]
<1>1. next[r] \in Providers
  BY DEF TypeOK
<1>2. next[r] # Len(Kinds) => next[r] + 1 \in Providers
  BY <1>1, Constants DEF Providers
<1>3. 0 \in Time
  BY Constants DEF Time
<1>4. used' \in [Requests -> [Providers -> Outcome \cup {None}]]
  BY <1>1 DEF TypeOK, Use
<1>5. next' \in [Requests -> Providers]
  BY <1>1, <1>2 DEF TypeOK, Use
<1>6. pc' \in [Requests -> Points]
  BY DEF TypeOK, Use, Go, Points
<1> QED
  BY <1>3, <1>4, <1>5, <1>6 DEF TypeOK, Use

\* Every document is one of the four verdicts, with a rule.
LEMMA DecisionType ==
    ASSUME NEW p \in Profiles, NEW a
    PROVE  /\ Evaluate(p, a).verdict \in Verdicts
           /\ Evaluate(p, a).rule \in Rules
           /\ Evaluate(p, a).degraded \in BOOLEAN
<1>1. Rule(a) \in Rules
  BY DEF Rule, Rules
<1>2. VerdictOf(Rule(a), p) \in Verdicts
  BY DEF VerdictOf, Verdicts
<1> QED
  BY <1>1, <1>2 DEF Evaluate

\* A step of Assemble keeps the types.
LEMMA AssembleType ==
    ASSUME TypeOK, NEW r \in Requests, Assemble(r)
    PROVE  TypeOK'
<1> USE Constants
<1>0. next[r] \in Providers /\ clock \in Time /\ asked[r] \in Time
  BY DEF TypeOK
<1>1. CASE CheckAllow(r)
  BY <1>1 DEF TypeOK, CheckAllow, env, caches, store, Go, Points
<1>2. CASE Get(r)
  <2> DEFINE entry == cache[next[r]]
  <2>1. entry \in Outcome \cup {None}
    BY <1>0 DEF TypeOK
  <2>2. entry # None => /\ [entry EXCEPT !.from = "cache"] \in Outcome
                        /\ [entry EXCEPT !.state = "stale", !.from = "cache"] \in Outcome
    BY <2>1 DEF Outcome
  <2>3. CASE Use(r, [entry EXCEPT !.from = "cache"]) /\ entry # None
    <3> DEFINE o == [entry EXCEPT !.from = "cache"]
    <3>1. o \in Outcome /\ Use(r, o)
      BY <2>2, <2>3
    <3> HIDE DEF o, entry
    <3> QED
      BY <3>1, <1>2, UseType DEF TypeOK, Get, env, caches, store
  <2>4. CASE ~Use(r, [entry EXCEPT !.from = "cache"]) \/ entry = None
    <3>1. /\ \E h \in Outcome \cup {None} : held' = [held EXCEPT ![r] = h]
          /\ Go(r, "ask")
          /\ UNCHANGED <<next, asked, live, used>>
          /\ UNCHANGED <<env, caches, store, now, hit, doc, void>>
      BY <1>2, <2>2, <2>4 DEF Get
    <3>2. held' \in [Requests -> Outcome \cup {None}]
      BY <3>1 DEF TypeOK
    <3> QED
      BY <3>1, <3>2 DEF TypeOK, env, caches, store, Go, Points
  <2> QED
    BY <2>3, <2>4
<1>3. CASE Ask(r)
  BY <1>3 DEF TypeOK, Ask, env, caches, store, Go, Points
<1>4. CASE Answer(r)
  <2> DEFINE o == [state |-> "available", obs |-> world[next[r]],
                   retrieved |-> asked[r], from |-> "live"]
  <2>0. world[next[r]] \in Reports[next[r]]
    BY <1>0 DEF TypeOK
  <2>1. world[next[r]] \in SUBSET Observations
    BY <1>0, <2>0, ReportType
  <2>2. o \in Outcome
    BY <1>0, <2>1 DEF Outcome
  <2>3. live' = [live EXCEPT ![r] = o]
    BY <1>4 DEF Answer
  <2> HIDE DEF o
  <2>4. live' \in [Requests -> Outcome \cup {None}]
    BY <2>2, <2>3 DEF TypeOK
  <2> QED
    BY <1>4, <2>4 DEF TypeOK, Answer, env, caches, store, Go, Points
<1>5. CASE AnswerReduced(r)
  <2>1. PICK report \in Reports[next[r]], state \in {"stale", "degraded"} :
           Use(r, [state |-> state, obs |-> report, retrieved |-> asked[r], from |-> "upstream"])
    BY <1>5 DEF AnswerReduced
  <2>2. [state |-> state, obs |-> report, retrieved |-> asked[r], from |-> "upstream"] \in Outcome
    BY <1>0, ReportType DEF Outcome
  <2> QED
    BY <1>5, <2>1, <2>2, UseType DEF TypeOK, AnswerReduced, env, caches, store
<1>6. CASE AnswerFail(r)
  <2>1. Unavailable(next[r]) \in SUBSET Observations
    BY <1>0 DEF Observations
  <2>2. [state |-> "unavailable", obs |-> Unavailable(next[r]),
         retrieved |-> asked[r], from |-> "live"] \in Outcome
    BY <1>0, <2>1 DEF Outcome
  <2>3. PICK o \in Outcome : Use(r, o)
    BY <1>6, <2>2 DEF AnswerFail, TypeOK
  <2> QED
    BY <1>6, <2>3, UseType DEF TypeOK, AnswerFail, env, caches, store
<1>7. CASE Put(r)
  <2> QED
    BY <1>0, <1>7, UseType DEF TypeOK, Put, env, store
<1> QED
  BY <1>1, <1>2, <1>3, <1>4, <1>5, <1>6, <1>7 DEF Assemble
\* So do the other steps of an evaluation.
LEMMA EvaluateType ==
    ASSUME TypeOK, NEW r \in Requests, Begin(r) \/ EvaluateSnapshot(r) \/ PutCachedAllow(r)
    PROVE  TypeOK'
<1> USE Constants
<1>1. CASE Begin(r)
  BY <1>1 DEF TypeOK, Begin, env, caches, store, Go, Points
<1>2. CASE Decide(r)
  <2> DEFINE decision == Evaluate(profile, Assessment(r))
  <2>1. /\ decision.verdict \in Verdicts /\ decision.rule \in Rules
        /\ decision.degraded \in BOOLEAN
    BY DecisionType DEF TypeOK
  <2>2. "allow" \in Verdicts /\ FindActiveApproval \subseteq Approvals
    BY DEF Verdicts, FindActiveApproval
  <2>3. Degraded(r, decision) \in BOOLEAN /\ ShowsStale(r, decision.rule) \in BOOLEAN
    BY <2>1 DEF Degraded, ShowsStale, HasUnavailableEvidence
  <2>4. PICK verdict \in Verdicts, via \in Approvals \cup {None} :
           doc' = [doc EXCEPT ![r] = [verdict |-> verdict, rule |-> decision.rule,
                                      degraded |-> Degraded(r, decision), via |-> via,
                                      stale |-> ShowsStale(r, decision.rule)]]
    BY <1>2, <2>1, <2>2 DEF Decide
  <2> DEFINE d == [verdict |-> verdict, rule |-> decision.rule,
                   degraded |-> Degraded(r, decision), via |-> via,
                   stale |-> ShowsStale(r, decision.rule)]
  <2>5. d \in Document
    BY <2>1, <2>3 DEF Document
  <2>6. doc' = [doc EXCEPT ![r] = d]
    BY <2>4
  <2> HIDE DEF d, decision
  <2>7. doc' \in [Requests -> Document \cup {None}]
    BY <2>5, <2>6 DEF TypeOK
  <2>8. Go(r, "record") /\ UNCHANGED <<env, caches, store, next, now, hit, held, asked, live, used, void>>
    BY <1>2 DEF Decide
  <2> QED
    BY <2>7, <2>8 DEF TypeOK, env, caches, store, Go, Points
<1>3. CASE Record(r)
  <2>1. 0 \in Time
    BY DEF Time
  <2> QED
    BY <1>3, <2>1 DEF TypeOK, Record, env, caches, store, Go, Points
<1>4. CASE PutCachedAllow(r)
  BY <1>4 DEF TypeOK, PutCachedAllow, env, store, locals
<1> QED
  BY <1>1, <1>2, <1>3, <1>4 DEF EvaluateSnapshot

\* A step of a command on approvals.
Command ==
    \/ \E a \in Approvals : Revoke(a) \/ \E p \in Patterns : Approve(a, p)
    \/ Deny

\* The commands on approvals keep the types.
LEMMA ApprovalType ==
    ASSUME TypeOK, Listed, Command
    PROVE  TypeOK' /\ Listed'
<1> USE Constants
<1>0. /\ clock \in Nat
      /\ \A a \in Approvals : approvals[a] # None => approvals[a] \in Approval
  BY DEF TypeOK
<1>1. \A a \in Approvals :
         approvals[a] # None => [approvals[a] EXCEPT !.revoked = TRUE] \in Approval
  BY <1>0 DEF Approval
<1>2. ASSUME NEW a \in Approvals, Revoke(a) PROVE TypeOK' /\ Listed'
  <2>1. approvals' \in [Approvals -> Approval \cup {None}]
    BY <1>1, <1>2 DEF TypeOK, Revoke
  <2>2. \A b \in Approvals : approvals[b] # None => approvals'[b] # None
    BY <1>1, <1>2 DEF TypeOK, Revoke
  <2> QED
    BY <1>2, <2>1, <2>2 DEF TypeOK, Revoke, env, caches, locals, Listed
<1>3. CASE DenyList
  BY <1>3 DEF TypeOK, DenyList, FindActiveApproval, Active, env, caches, locals, Listed
<1>4. CASE DenyDone
  BY <1>4 DEF TypeOK, DenyDone, env, caches, locals, Listed
<1>5. ASSUME NEW a \in Approvals, DenyRevoke(a) PROVE TypeOK' /\ Listed'
  <2>1. approvals' \in [Approvals -> Approval \cup {None}]
    BY <1>1, <1>5 DEF TypeOK, Listed, DenyRevoke
  <2>2. \A b \in Approvals : approvals[b] # None => approvals'[b] # None
    BY <1>1, <1>5 DEF TypeOK, Listed, DenyRevoke
  <2> QED
    BY <1>5, <2>1, <2>2 DEF TypeOK, DenyRevoke, env, caches, locals, Listed
<1>6. ASSUME NEW a \in Approvals, NEW p \in Patterns, Approve(a, p) PROVE TypeOK' /\ Listed'
  <2>1. [pattern |-> p, revoked |-> FALSE, expires |-> clock + ApprovalTTL] \in Approval
    BY <1>0 DEF Approval
  <2>2. approvals' \in [Approvals -> Approval \cup {None}]
    BY <1>6, <2>1 DEF TypeOK, Approve
  <2> QED
    BY <1>6, <2>2 DEF TypeOK, Approve, env, caches, locals, Listed
<1> QED
  BY <1>2, <1>3, <1>4, <1>5, <1>6 DEF Command, Deny
-----------------------------------------------------------------------------
(* Time passes.                                                            *)

\* What the rest of the system may do to an evaluation: time goes on,
\* upstreams change now, approvals that are void stay void.
Ageing ==
    /\ clock <= clock'
    /\ \A i \in Providers : (world'[i] = world[i] /\ since'[i] = since[i]) \/ since'[i] = clock'
    /\ \A a \in Approvals : (approvals[a] # None /\ ~Active(a, clock))
                            => (approvals[a] # None /\ ~Active(a, clock))'

\* Evidence stays dated when time passes: a report published later is later
\* than the evidence.
LEMMA DatedAges ==
    ASSUME NEW o \in Outcome \cup {None}, NEW t \in Time, NEW u \in Time, t <= u,
           NEW w, NEW s \in Time, NEW x, NEW y \in Time,
           Dated(o, t, w, s), (x = w /\ y = s) \/ y = u
    PROVE  Dated(o, u, x, y)
<1>1. t \in Nat /\ u \in Nat /\ s \in Nat /\ y \in Nat
  BY Constants
<1>2. o # None => o.retrieved \in Nat
  BY Constants DEF Outcome
<1> QED
  BY <1>1, <1>2 DEF Dated

\* The clock, the upstreams and other evaluations do not disturb what is
\* known of an evaluation.
LEMMA Undisturbed ==
    ASSUME TypeOK, TypeOK', Ageing, NEW q \in Requests, Local(q),
           pc'[q] = pc[q], next'[q] = next[q], now'[q] = now[q], held'[q] = held[q],
           asked'[q] = asked[q], live'[q] = live[q], used'[q] = used[q], void'[q] = void[q]
    PROVE  Local(q)'
<1>1. clock \in Time /\ clock' \in Time /\ clock <= clock' /\ Time \subseteq Nat
  BY Constants DEF TypeOK, Ageing
<1>2. \A i \in Providers : since[i] \in Time /\ since'[i] \in Time
  BY DEF TypeOK
<1>3. ASSUME NEW o \in Outcome \cup {None}, NEW i \in Providers,
             Dated(o, clock, world[i], since[i])
      PROVE  Dated(o, clock', world'[i], since'[i])
  BY <1>1, <1>2, <1>3, DatedAges DEF Ageing
<1>4. next[q] \in Providers /\ now[q] \in Time /\ asked[q] \in Time
  BY DEF TypeOK
<1>5. /\ held[q] \in Outcome \cup {None} /\ live[q] \in Outcome \cup {None}
      /\ \A i \in Providers : used[q][i] \in Outcome \cup {None}
  BY DEF TypeOK
<1>6. Holding(q)'
  <2>1. clock \in Nat /\ clock' \in Nat /\ now[q] \in Nat /\ asked[q] \in Nat
    BY <1>1, <1>4
  <2>2. Holding(q)
    BY DEF Local
  <2>3. now[q] <= clock' /\ asked[q] <= clock'
    BY <1>1, <2>1, <2>2 DEF Holding
  <2> QED
    BY <2>2, <2>3 DEF Holding
<1>7. Progress(q)'
  BY DEF Local, Progress
<1>8. Evidence(q)'
  <2>1. Evidence(q)
    BY DEF Local
  <2>2. /\ Dated(held[q], clock', world'[next[q]], since'[next[q]])
        /\ Dated(live[q], clock', world'[next[q]], since'[next[q]])
    BY <1>3, <1>4, <1>5, <2>1 DEF Evidence
  <2>3. \A i \in Providers : Dated(used[q][i], clock', world'[i], since'[i])
    BY <1>3, <1>5, <2>1 DEF Evidence
  <2> QED
    BY <2>1, <2>2, <2>3 DEF Evidence
<1>9. Voided(q)'
  BY DEF Local, Voided, Ageing, TypeOK
<1> QED
  BY <1>6, <1>7, <1>8, <1>9 DEF Local

\* The cache is as true later, if it is not written.
LEMMA CacheAges ==
    ASSUME TypeOK, TypeOK', Ageing, Shared, cache' = cache
    PROVE  Shared'
<1>1. clock \in Time /\ clock' \in Time /\ clock <= clock' /\ Time \subseteq Nat
  BY Constants DEF TypeOK, Ageing
<1>2. \A i \in Providers : since[i] \in Time /\ since'[i] \in Time /\ cache[i] \in Outcome \cup {None}
  BY DEF TypeOK
<1>3. ASSUME NEW i \in Providers
      PROVE  since'[i] <= clock'
  BY <1>1, <1>2 DEF Shared, Ageing
<1>4. ASSUME NEW i \in Providers
      PROVE  Dated(cache[i], clock', world'[i], since'[i])
  BY <1>1, <1>2, DatedAges DEF Ageing, Shared
<1> QED
  BY <1>3, <1>4 DEF Shared

\* Nothing ages where the clock, the upstreams and the approvals stay.
LEMMA StillAgeing ==
    ASSUME TypeOK, UNCHANGED <<env, approvals>>
    PROVE  Ageing
<1>1. clock \in Nat
  BY Constants DEF TypeOK
<1>2. \A a \in Approvals : Active(a, clock)' <=> Active(a, clock)
  BY DEF Active, env
<1> QED
  BY <1>1, <1>2 DEF Ageing, env
-----------------------------------------------------------------------------
(* The steps of an evaluation.                                             *)

\* Nothing is dated wrongly, or too old.
LEMMA NoneIsSound ==
    \A t, w, s : Dated(None, t, w, s) /\ Young(None, t)
BY DEF Dated, Young

\* What is void stays void where neither the clock nor the approvals move.
LEMMA VoidedStays ==
    ASSUME NEW r \in Requests, Voided(r), void' = void, UNCHANGED <<env, approvals>>
    PROVE  Voided(r)'
BY DEF Voided, Active, env

\* An outcome that is dated and young may be used.
LEMMA UseLocal ==
    ASSUME TypeOK, TypeOK', NEW r \in Requests, Local(r), pc[r] \in {"get", "wait", "put"},
           NEW o \in Outcome, Dated(o, clock, world[next[r]], since[next[r]]), Young(o, now[r]),
           Use(r, o), UNCHANGED <<env, approvals, now, void>>
    PROVE  Local(r)'
<1> USE Constants
<1>1. next[r] \in Providers /\ next[r] \in Nat
  BY DEF TypeOK, Providers
<1>2. /\ held'[r] = None /\ live'[r] = None /\ asked'[r] = 0
      /\ used'[r][next[r]] = o
      /\ \A i \in Providers : i # next[r] => used'[r][i] = used[r][i]
  BY <1>1 DEF Use, TypeOK
<1>3. \/ next[r] = Len(Kinds) /\ pc'[r] = "decide"
      \/ next[r] # Len(Kinds) /\ pc'[r] = "get" /\ next'[r] = next[r] + 1
  BY <1>1 DEF Use, TypeOK, Go
<1>4. Holding(r)'
  <2>1. clock \in Nat /\ clock' = clock /\ now'[r] = now[r] /\ now[r] <= clock
    BY DEF TypeOK, env, Local, Holding
  <2> QED
    BY <1>2, <1>3, <2>1 DEF Holding
<1>5. Progress(r)'
  <2>1. \A i \in Providers : i < next[r] => used[r][i] # None
    BY DEF Local, Progress
  <2>2. o # None
    OBVIOUS
  <2>3. CASE next[r] = Len(Kinds) /\ pc'[r] = "decide"
    <3>1. \A i \in Providers : i = next[r] \/ i < next[r]
      BY <2>3 DEF Providers
    <3> QED
      BY <1>2, <2>1, <2>2, <2>3, <3>1 DEF Progress
  <2>4. CASE next[r] # Len(Kinds) /\ pc'[r] = "get" /\ next'[r] = next[r] + 1
    <3>1. \A i \in Providers : i < next'[r] => i = next[r] \/ i < next[r]
      BY <1>1, <2>4 DEF Providers
    <3> QED
      BY <1>2, <2>1, <2>2, <2>4, <3>1 DEF Progress
  <2> QED
    BY <1>3, <2>3, <2>4
<1>6. Evidence(r)'
  <2>1. Evidence(r)
    BY DEF Local
  <2>2. ASSUME NEW i \in Providers
        PROVE  Dated(used'[r][i], clock, world[i], since[i]) /\ Young(used'[r][i], now[r])
    BY <1>2, <2>1 DEF Evidence
  <2>3. clock' = clock /\ world' = world /\ since' = since /\ now'[r] = now[r]
    BY DEF env
  <2>4. /\ Dated(held'[r], clock', world'[next'[r]], since'[next'[r]]) /\ Young(held'[r], now'[r])
        /\ Dated(live'[r], clock', world'[next'[r]], since'[next'[r]]) /\ Young(live'[r], now'[r])
    BY <1>2 DEF Dated, Young
  <2>5. \A i \in Providers : /\ Dated(used'[r][i], clock', world'[i], since'[i])
                             /\ Young(used'[r][i], now'[r])
    BY <2>2, <2>3
  <2> QED
    BY <2>4, <2>5 DEF Evidence
<1>7. Voided(r)'
  BY VoidedStays DEF Local
<1> QED
  BY <1>4, <1>5, <1>6, <1>7 DEF Local

\* Begin: nothing is held from an earlier evaluation.
LEMMA BeginLocal ==
    ASSUME IInv, TypeOK', NEW r \in Requests, Begin(r)
    PROVE  Local(r)'
<1> USE Constants
<1>0. TypeOK /\ Local(r)
  BY DEF IInv
<1>1. /\ pc[r] = "idle" /\ pc'[r] = "allow" /\ now'[r] = clock
      /\ void'[r] = {a \in Approvals : approvals[a] # None /\ ~Active(a, clock)}
      /\ UNCHANGED <<env, store, next, held, asked, live, used>>
  BY <1>0 DEF Begin, At, Go, TypeOK
<1>2. held[r] = None /\ live[r] = None /\ \A i \in Providers : used[r][i] = None
  BY <1>0, <1>1 DEF Local, Holding, Progress
<1>3. Holding(r)'
  <2>1. clock \in Nat /\ clock' = clock /\ asked'[r] <= clock
    BY <1>0, <1>1 DEF TypeOK, env, Local, Holding
  <2> QED
    BY <1>1, <1>2, <2>1 DEF Holding
<1>4. Progress(r)'
  BY <1>0, <1>1, <1>2 DEF Local, Progress
<1>5. Evidence(r)'
  BY <1>1, <1>2, NoneIsSound DEF Evidence
<1>6. Voided(r)'
  BY <1>1 DEF Voided, Active, env, store
<1> QED
  BY <1>3, <1>4, <1>5, <1>6 DEF Local

\* CheckAllow and Ask move on without evidence.
LEMMA CheckAskLocal ==
    ASSUME IInv, TypeOK', NEW r \in Requests, CheckAllow(r) \/ Ask(r)
    PROVE  Local(r)'
<1> USE Constants
<1>0. TypeOK /\ Local(r)
  BY DEF IInv
<1>1. /\ \/ pc[r] = "allow" /\ pc'[r] = "get" /\ asked'[r] = asked[r]
         \/ pc[r] = "ask" /\ pc'[r] = "wait" /\ asked'[r] = clock
      /\ UNCHANGED <<env, store, next, now, held, live, used, void>>
  BY <1>0 DEF CheckAllow, Ask, At, Go, TypeOK
<1>2. Holding(r)'
  <2>1. clock \in Nat /\ clock' = clock /\ asked[r] <= clock /\ now[r] <= clock
    BY <1>0, <1>1 DEF TypeOK, env, Local, Holding
  <2> QED
    BY <1>0, <1>1, <2>1 DEF Local, Holding
<1>3. Progress(r)'
  <2>1. \A i \in Providers : ~(i < 1)
    BY DEF Providers
  <2>2. CASE pc[r] = "allow" /\ pc'[r] = "get"
    BY <1>0, <1>1, <2>1, <2>2 DEF Local, Progress
  <2>3. CASE pc[r] = "ask" /\ pc'[r] = "wait"
    BY <1>0, <1>1, <2>3 DEF Local, Progress
  <2> QED
    BY <1>1, <2>2, <2>3
<1>4. Evidence(r)'
  BY <1>0, <1>1 DEF Local, Evidence, env
<1>5. Voided(r)'
  BY <1>0, <1>1, VoidedStays DEF Local, store
<1> QED
  BY <1>2, <1>3, <1>4, <1>5 DEF Local
\* Cache.Get: an entry is used or kept only while it may be.
LEMMA GetLocal ==
    ASSUME IInv, TypeOK', NEW r \in Requests, Get(r)
    PROVE  Local(r)'
<1> USE Constants
<1> DEFINE entry == cache[next[r]]
           fresh == [entry EXCEPT !.from = "cache"]
           stale == [entry EXCEPT !.state = "stale", !.from = "cache"]
<1>0. TypeOK /\ Shared /\ Local(r) /\ pc[r] = "get" /\ next[r] \in Providers /\ now[r] \in Nat
  BY DEF IInv, Get, At, TypeOK
<1>1. /\ entry \in Outcome \cup {None}
      /\ Dated(entry, clock, world[next[r]], since[next[r]])
      /\ entry # None => entry.state = "available" /\ entry.from = "live"
  BY <1>0 DEF TypeOK, Shared
<1>2. UNCHANGED <<env, store, now, void>>
  BY DEF Get
<1>3. CASE entry # None /\ now[r] <= FreshUntil(entry)
  <2>1. fresh \in Outcome /\ entry.retrieved \in Nat
    BY <1>1, <1>3 DEF Outcome
  <2>2. /\ fresh.state = "available" /\ fresh.from = "cache" /\ fresh.obs = entry.obs
        /\ fresh.retrieved = entry.retrieved
    BY <1>1, <1>3 DEF Outcome
  <2>3. Dated(fresh, clock, world[next[r]], since[next[r]])
    BY <1>1, <1>3, <2>1, <2>2 DEF Dated
  <2>4. now[r] <= entry.retrieved + FreshTTL
    BY <1>1, <1>3 DEF FreshUntil
  <2>5. Young(fresh, now[r])
    BY <1>0, <2>1, <2>2, <2>4 DEF Young
  <2>6. Use(r, fresh)
    BY <1>3 DEF Get
  <2> HIDE DEF fresh, entry
  <2> QED
    BY <1>0, <1>2, <2>1, <2>3, <2>5, <2>6, UseLocal DEF store
<1>4. CASE ~(entry # None /\ now[r] <= FreshUntil(entry))
  <2>1. /\ pc'[r] = "ask" /\ UNCHANGED <<next, asked, live, used>>
        /\ held'[r] = IF entry # None /\ now[r] <= StaleUntil(entry) THEN stale ELSE None
    BY <1>0, <1>4 DEF Get, Go, TypeOK
  <2>2. CASE held'[r] = None
    <3>1. Holding(r)'
      BY <1>0, <1>2, <2>1, <2>2 DEF Local, Holding, env
    <3>2. Progress(r)'
      BY <1>0, <2>1 DEF Local, Progress
    <3>3. Evidence(r)'
      BY <1>0, <1>2, <2>1, <2>2, NoneIsSound DEF Local, Evidence, env
    <3> QED
      BY <1>0, <1>2, <3>1, <3>2, <3>3, VoidedStays DEF Local, store
  <2>3. CASE entry # None /\ now[r] <= StaleUntil(entry) /\ held'[r] = stale
    <3>1. stale \in Outcome /\ entry.retrieved \in Nat
      BY <1>1, <2>3 DEF Outcome
    <3>2. /\ stale.state = "stale" /\ stale.from = "cache" /\ stale.obs = entry.obs
          /\ stale.retrieved = entry.retrieved
      BY <1>1, <2>3 DEF Outcome
    <3>3. Dated(stale, clock, world[next[r]], since[next[r]])
      BY <1>1, <2>3, <3>1, <3>2 DEF Dated
    <3>4. Young(stale, now[r])
      BY <1>0, <2>3, <3>1, <3>2 DEF Young, StaleUntil
    <3>5. held'[r] = stale
      BY <2>3
    <3> HIDE DEF stale, entry
    <3>6. Holding(r)'
      BY <1>0, <1>2, <2>1, <3>2, <3>5 DEF Local, Holding, env
    <3>7. Progress(r)'
      BY <1>0, <2>1 DEF Local, Progress
    <3>8. Evidence(r)'
      BY <1>0, <1>2, <2>1, <3>3, <3>4, <3>5 DEF Local, Evidence, env
    <3> QED
      BY <1>0, <1>2, <3>6, <3>7, <3>8, VoidedStays DEF Local, store
  <2> QED
    BY <2>1, <2>2, <2>3
<1> QED
  BY <1>3, <1>4

\* The answer of an upstream is what it holds, asked for after the evaluation
\* began.
LEMMA AnswerLocal ==
    ASSUME IInv, TypeOK', NEW r \in Requests, Answer(r)
    PROVE  Local(r)'
<1> USE Constants
<1> DEFINE o == [state |-> "available", obs |-> world[next[r]],
                 retrieved |-> asked[r], from |-> "live"]
<1>0. /\ TypeOK /\ Local(r) /\ pc[r] = "wait"
      /\ now[r] \in Nat /\ asked[r] \in Nat /\ clock \in Nat
      /\ now[r] <= asked[r] /\ asked[r] <= clock
  BY DEF IInv, Answer, At, TypeOK, Local, Holding
<1>1. /\ pc'[r] = "put" /\ live'[r] = o
      /\ UNCHANGED <<env, store, next, now, held, asked, used, void>>
  BY <1>0 DEF Answer, Go, TypeOK
<1>2. Dated(o, clock, world[next[r]], since[next[r]])
  BY <1>0 DEF Dated
<1>3. Young(o, now[r])
  BY <1>0 DEF Young
<1>4. o.state = "available" /\ o.from = "live" /\ o # None
  <2>1. world[next[r]] \in Reports[next[r]] /\ next[r] \in Providers /\ asked[r] \in Time
    BY <1>0 DEF TypeOK
  <2>2. world[next[r]] \in SUBSET Observations
    BY <2>1, ReportType
  <2>3. o \in Outcome
    BY <2>1, <2>2 DEF Outcome
  <2> QED
    BY <2>3
<1> HIDE DEF o
<1>5. Holding(r)'
  BY <1>0, <1>1, <1>4 DEF Local, Holding, env
<1>6. Progress(r)'
  BY <1>0, <1>1 DEF Local, Progress
<1>7. Evidence(r)'
  BY <1>0, <1>1, <1>2, <1>3 DEF Local, Evidence, env
<1> QED
  BY <1>0, <1>1, <1>5, <1>6, <1>7, VoidedStays DEF Local, store
\* An answer that is not cached says so, and a failure is what it is.
LEMMA NotCachedLocal ==
    ASSUME IInv, TypeOK', NEW r \in Requests, AnswerReduced(r) \/ AnswerFail(r)
    PROVE  Local(r)'
<1> USE Constants
<1>0. /\ TypeOK /\ Local(r) /\ pc[r] = "wait" /\ next[r] \in Providers
      /\ asked[r] \in Time /\ asked[r] <= clock
  BY DEF IInv, AnswerReduced, AnswerFail, At, TypeOK, Local, Holding
<1>1. UNCHANGED <<env, store, now, void>>
  BY DEF AnswerReduced, AnswerFail
<1>2. CASE AnswerReduced(r)
  <2>1. PICK report \in Reports[next[r]], state \in {"stale", "degraded"} :
           Use(r, [state |-> state, obs |-> report, retrieved |-> asked[r], from |-> "upstream"])
    BY <1>2 DEF AnswerReduced
  <2> DEFINE o == [state |-> state, obs |-> report, retrieved |-> asked[r], from |-> "upstream"]
  <2>2. report \in SUBSET Observations
    BY <1>0, ReportType
  <2>3. o \in Outcome
    BY <1>0, <2>2 DEF Outcome
  <2>4. Dated(o, clock, world[next[r]], since[next[r]]) /\ Young(o, now[r])
    BY <1>0 DEF Dated, Young
  <2>5. Use(r, o)
    BY <2>1
  <2> HIDE DEF o
  <2> QED
    BY <1>0, <1>1, <2>3, <2>4, <2>5, UseLocal DEF store
<1>3. CASE AnswerFail(r) /\ held[r] # None
  <2>1. held[r] \in Outcome /\ Use(r, held[r])
    BY <1>0, <1>3 DEF TypeOK, AnswerFail
  <2>2. Dated(held[r], clock, world[next[r]], since[next[r]]) /\ Young(held[r], now[r])
    BY <1>0 DEF Local, Evidence
  <2> QED
    BY <1>0, <1>1, <2>1, <2>2, UseLocal DEF store
<1>4. CASE AnswerFail(r) /\ held[r] = None
  <2> DEFINE o == [state |-> "unavailable", obs |-> Unavailable(next[r]),
                   retrieved |-> asked[r], from |-> "live"]
  <2>1. Unavailable(next[r]) \in SUBSET Observations
    BY <1>0 DEF Observations
  <2>2. o \in Outcome
    BY <1>0, <2>1 DEF Outcome
  <2>3. Dated(o, clock, world[next[r]], since[next[r]]) /\ Young(o, now[r])
    BY <1>0 DEF Dated, Young
  <2>4. Use(r, o)
    BY <1>4 DEF AnswerFail
  <2> HIDE DEF o
  <2> QED
    BY <1>0, <1>1, <2>2, <2>3, <2>4, UseLocal DEF store
<1> QED
  BY <1>2, <1>3, <1>4

\* Cache.Put: what is stored, over whatever is there, is dated as well.
LEMMA PutLocal ==
    ASSUME IInv, TypeOK', NEW r \in Requests, Put(r)
    PROVE  Local(r)' /\ Shared'
<1> USE Constants
<1>0. TypeOK /\ Shared /\ Local(r) /\ pc[r] = "put" /\ next[r] \in Providers
  BY DEF IInv, Put, At, TypeOK
<1>1. /\ UNCHANGED <<env, store, now, void>>
      /\ cache' = [cache EXCEPT ![next[r]] = live[r]]
      /\ Use(r, live[r])
  BY DEF Put
<1>2. live[r] \in Outcome /\ live[r].state = "available" /\ live[r].from = "live"
  BY <1>0 DEF TypeOK, Local, Holding
<1>3. Dated(live[r], clock, world[next[r]], since[next[r]]) /\ Young(live[r], now[r])
  BY <1>0 DEF Local, Evidence
<1>4. Local(r)'
  BY <1>0, <1>1, <1>2, <1>3, UseLocal DEF store
<1>5. Shared'
  <2>1. \A i \in Providers : cache'[i] = IF i = next[r] THEN live[r] ELSE cache[i]
    BY <1>0, <1>1 DEF TypeOK
  <2> QED
    BY <1>0, <1>1, <1>2, <1>3, <2>1 DEF Shared, env
<1> QED
  BY <1>4, <1>5

\* Decide and Record: the evidence is complete, and then gone.
LEMMA DecideRecordLocal ==
    ASSUME IInv, TypeOK', NEW r \in Requests, Decide(r) \/ Record(r)
    PROVE  Local(r)'
<1> USE Constants
<1>0. TypeOK /\ Local(r) /\ clock \in Nat
  BY DEF IInv, TypeOK
<1>1. CASE Decide(r)
  <2>1. /\ pc[r] = "decide" /\ pc'[r] = "record"
        /\ UNCHANGED <<env, store, next, now, held, asked, live, used, void>>
    BY <1>0, <1>1 DEF Decide, At, Go, TypeOK
  <2>2. Holding(r)' /\ Progress(r)'
    BY <1>0, <2>1 DEF Local, Holding, Progress, env
  <2>3. Evidence(r)'
    BY <1>0, <2>1 DEF Local, Evidence, env
  <2> QED
    BY <1>0, <2>1, <2>2, <2>3, VoidedStays DEF Local, store
<1>2. CASE Record(r)
  <2>1. /\ pc[r] = "record" /\ pc'[r] = "idle" /\ next'[r] = 1 /\ now'[r] = 0
        /\ \A i \in Providers : used'[r][i] = None
        /\ void'[r] = {} /\ UNCHANGED <<env, held, asked, live>>
    BY <1>0, <1>2 DEF Record, At, Go, TypeOK
  <2>2. held[r] = None /\ live[r] = None
    BY <1>0, <2>1 DEF Local, Holding
  <2>3. Holding(r)'
    BY <1>0, <2>1, <2>2 DEF Local, Holding, env
  <2>4. Progress(r)'
    BY <2>1 DEF Progress
  <2>5. Evidence(r)'
    BY <2>1, <2>2, NoneIsSound DEF Evidence
  <2>6. Voided(r)'
    BY <2>1 DEF Voided
  <2> QED
    BY <2>3, <2>4, <2>5, <2>6 DEF Local
<1> QED
  BY <1>1, <1>2
-----------------------------------------------------------------------------
(* The invariant.                                                          *)

\* A step of one evaluation leaves the locals of the others alone, and the
\* clock, the upstreams and the approvals.
LEMMA Frame ==
    ASSUME TypeOK, NEW r \in Requests, NEW q \in Requests, q # r,
           Begin(r) \/ Assemble(r) \/ EvaluateSnapshot(r) \/ PutCachedAllow(r)
    PROVE  /\ UNCHANGED <<env, store>>
           /\ pc'[q] = pc[q] /\ next'[q] = next[q] /\ now'[q] = now[q] /\ held'[q] = held[q]
           /\ asked'[q] = asked[q] /\ live'[q] = live[q] /\ used'[q] = used[q]
           /\ void'[q] = void[q] /\ hit'[q] = hit[q] /\ doc'[q] = doc[q]
<1>1. CASE Begin(r)
  BY <1>1 DEF Begin, Go, TypeOK
<1>2. ASSUME NEW o, Use(r, o)
      PROVE  /\ pc'[q] = pc[q] /\ next'[q] = next[q] /\ held'[q] = held[q]
             /\ asked'[q] = asked[q] /\ live'[q] = live[q] /\ used'[q] = used[q]
  BY <1>2 DEF Use, Go, TypeOK
<1>3. CASE CheckAllow(r)
  BY <1>3 DEF CheckAllow, Go, TypeOK
<1>4. CASE Get(r)
  <2>1. UNCHANGED <<env, caches, store, now, hit, doc, void>>
    BY <1>4 DEF Get
  <2>2. CASE \E o : Use(r, o)
    BY <1>2, <2>1, <2>2
  <2>3. CASE ~\E o : Use(r, o)
    <3>1. (\E h : held' = [held EXCEPT ![r] = h]) /\ Go(r, "ask") /\ UNCHANGED <<next, asked, live, used>>
      BY <1>4, <2>3 DEF Get
    <3> QED
      BY <2>1, <3>1 DEF Go, TypeOK
  <2> QED
    BY <2>2, <2>3
<1>5. CASE Ask(r)
  BY <1>5 DEF Ask, Go, TypeOK
<1>6. CASE Answer(r)
  BY <1>6 DEF Answer, Go, TypeOK
<1>7. CASE AnswerReduced(r)
  <2>1. (\E o : Use(r, o)) /\ UNCHANGED <<env, store, now, hit, doc, void>>
    BY <1>7 DEF AnswerReduced
  <2> QED
    BY <1>2, <2>1
<1>8. CASE AnswerFail(r)
  <2>1. (\E o : Use(r, o)) /\ UNCHANGED <<env, store, now, hit, doc, void>>
    BY <1>8 DEF AnswerFail
  <2> QED
    BY <1>2, <2>1
<1>9. CASE Put(r)
  <2>1. (\E o : Use(r, o)) /\ UNCHANGED <<env, store, now, hit, doc, void>>
    BY <1>9 DEF Put
  <2> QED
    BY <1>2, <2>1
<1>10. CASE Decide(r)
  <2>1. /\ \E d : doc' = [doc EXCEPT ![r] = d]
        /\ Go(r, "record")
        /\ UNCHANGED <<env, store, next, now, hit, held, asked, live, used, void>>
    BY <1>10 DEF Decide
  <2> QED
    BY <2>1 DEF Go, TypeOK
<1>11. CASE Record(r)
  BY <1>11 DEF Record, Go, TypeOK
<1>12. CASE PutCachedAllow(r)
  BY <1>12 DEF PutCachedAllow, locals, TypeOK
<1> QED
  BY <1>1, <1>3, <1>4, <1>5, <1>6, <1>7, <1>8, <1>9, <1>10, <1>11, <1>12
     DEF Assemble, EvaluateSnapshot

\* A step of an evaluation.
LEMMA EvaluationStep ==
    ASSUME IInv, NEW r \in Requests,
           Begin(r) \/ Assemble(r) \/ EvaluateSnapshot(r) \/ PutCachedAllow(r)
    PROVE  IInv'
<1>0. TypeOK /\ Shared /\ Listed /\ \A q \in Requests : Local(q)
  BY DEF IInv
<1>1. TypeOK'
  BY <1>0, AssembleType, EvaluateType
<1>2. UNCHANGED <<env, store>>
  BY DEF Begin, Assemble, EvaluateSnapshot, PutCachedAllow, CheckAllow, Get, Ask, Answer,
         AnswerReduced, AnswerFail, Put, Decide, Record
<1>3. Ageing
  BY <1>0, <1>2, StillAgeing DEF store
<1>4. Local(r)'
  <2>1. CASE Begin(r) \/ EvaluateSnapshot(r)
    BY <1>1, <2>1, BeginLocal, DecideRecordLocal DEF EvaluateSnapshot
  <2>2. CASE Assemble(r)
    BY <1>1, <2>2, CheckAskLocal, GetLocal, AnswerLocal, NotCachedLocal, PutLocal DEF Assemble
  <2>3. CASE PutCachedAllow(r)
    <3>1. UNCHANGED locals
      BY <2>3 DEF PutCachedAllow
    <3> QED
      BY <1>0, <1>1, <1>3, <3>1, Undisturbed DEF locals
  <2> QED
    BY <2>1, <2>2, <2>3
<1>5. ASSUME NEW q \in Requests, q # r
      PROVE  Local(q)'
  BY <1>0, <1>1, <1>3, <1>5, Frame, Undisturbed
<1>6. Shared'
  <2>1. CASE Put(r)
    BY <1>1, <2>1, PutLocal
  <2>2. CASE ~Put(r)
    <3>1. cache' = cache
      BY <2>2 DEF Begin, Assemble, EvaluateSnapshot, PutCachedAllow, CheckAllow, Get, Ask, Answer,
                  AnswerReduced, AnswerFail, Decide, Record, caches
    <3> QED
      BY <1>0, <1>1, <1>3, <3>1, CacheAges
  <2> QED
    BY <2>1, <2>2
<1>7. Listed'
  BY <1>0, <1>2 DEF Listed, store
<1> QED
  BY <1>1, <1>4, <1>5, <1>6, <1>7 DEF IInv
\* The commands keep the invariant.
LEMMA ApprovalStep ==
    ASSUME IInv, Command
    PROVE  IInv'
<1>0. TypeOK /\ Shared /\ Listed /\ \A q \in Requests : Local(q)
  BY DEF IInv
<1>1. TypeOK' /\ Listed'
  BY <1>0, ApprovalType
<1>2. UNCHANGED <<env, caches, locals>>
  BY DEF Command, Deny, Revoke, DenyList, DenyDone, DenyRevoke, Approve
<1>3. ASSUME NEW b \in Approvals, approvals[b] # None, ~Active(b, clock)
      PROVE  (approvals[b] # None /\ ~Active(b, clock))'
  <2>1. approvals[b] \in Approval
    BY <1>0, <1>3 DEF TypeOK
  <2>2. \/ approvals'[b] = approvals[b]
        \/ approvals'[b] = [approvals[b] EXCEPT !.revoked = TRUE]
    BY <1>0, <1>3 DEF TypeOK, Command, Deny, Revoke, DenyList, DenyDone, DenyRevoke, Approve
  <2>3. CASE approvals'[b] = approvals[b]
    BY <1>2, <1>3, <2>3 DEF Active, env
  <2>4. CASE approvals'[b] = [approvals[b] EXCEPT !.revoked = TRUE]
    <3>1. approvals'[b] \in Approval /\ approvals'[b].revoked
      BY <2>1, <2>4 DEF Approval
    <3> QED
      BY <3>1, Constants DEF Active
  <2> QED
    BY <2>2, <2>3, <2>4
<1>4. Ageing
  <2>1. clock \in Nat
    BY <1>0, Constants DEF TypeOK
  <2> QED
    BY <1>2, <1>3, <2>1 DEF Ageing, env
<1>5. Shared'
  BY <1>0, <1>1, <1>2, <1>4, CacheAges DEF caches
<1>6. \A q \in Requests : Local(q)'
  BY <1>0, <1>1, <1>2, <1>4, Undisturbed DEF locals
<1> QED
  BY <1>1, <1>5, <1>6 DEF IInv

\* The clock goes on, or an upstream changes.
LEMMA EnvironmentStep ==
    ASSUME IInv, Tick \/ \E i \in Providers : Publish(i)
    PROVE  IInv'
<1> USE Constants
<1>0. TypeOK /\ Shared /\ Listed /\ \A q \in Requests : Local(q)
  BY DEF IInv
<1>1. UNCHANGED <<profile, caches, store, locals>>
  BY DEF Tick, Publish
<1>2. CASE Tick
  <2>1. clock \in Nat /\ clock' = clock + 1 /\ clock' \in Time /\ UNCHANGED <<world, since>>
    BY <1>0, <1>2 DEF TypeOK, Tick, Time
  <2>2. TypeOK'
    BY <1>0, <1>1, <2>1 DEF TypeOK, caches, store, locals
  <2>3. ASSUME NEW b \in Approvals, approvals[b] # None, ~Active(b, clock)
        PROVE  (approvals[b] # None /\ ~Active(b, clock))'
    <3>1. approvals[b].expires \in Nat /\ approvals' = approvals
      BY <1>0, <1>1, <2>3 DEF TypeOK, Approval, store
    <3> QED
      BY <2>1, <2>3, <3>1 DEF Active
  <2>4. Ageing
    BY <2>1, <2>3 DEF Ageing
  <2> QED
    BY <1>0, <1>1, <2>2, <2>4, CacheAges, Undisturbed DEF IInv, Listed, caches, store, locals
<1>3. ASSUME NEW i \in Providers, Publish(i)
      PROVE  IInv'
  <2>1. PICK report \in Reports[i] : world' = [world EXCEPT ![i] = report]
    BY <1>3 DEF Publish
  <2>2. since' = [since EXCEPT ![i] = clock] /\ clock' = clock
    BY <1>3 DEF Publish
  <2>3. clock \in Time /\ clock \in Nat
    BY <1>0 DEF TypeOK
  <2>4. world' \in [Providers -> UNION {Reports[j] : j \in Providers}]
    BY <1>0, <2>1 DEF TypeOK
  <2>5. \A j \in Providers : world'[j] \in Reports[j]
    BY <1>0, <2>1 DEF TypeOK
  <2>6. since' \in [Providers -> Time]
    BY <1>0, <2>2, <2>3 DEF TypeOK
  <2>7. TypeOK'
    BY <1>0, <1>1, <2>2, <2>4, <2>5, <2>6 DEF TypeOK, caches, store, locals
  <2>8. \A j \in Providers : (world'[j] = world[j] /\ since'[j] = since[j]) \/ since'[j] = clock'
    BY <1>0, <2>1, <2>2 DEF TypeOK
  <2>9. \A b \in Approvals : Active(b, clock)' <=> Active(b, clock)
    BY <1>1, <2>2 DEF Active, store
  <2>10. Ageing
    BY <1>1, <2>2, <2>3, <2>8, <2>9 DEF Ageing, store
  <2> QED
    BY <1>0, <1>1, <2>7, <2>10, CacheAges, Undisturbed DEF IInv, Listed, caches, store, locals
<1> QED
  BY <1>2, <1>3

\* Initially nothing is cached, held or used.
LEMMA InitInvariant == Init => IInv
<1> SUFFICES ASSUME Init PROVE IInv
  OBVIOUS
<1> USE Constants
<1>1. TypeOK
  <2>1. 0 \in Time
    BY DEF Time
  <2> QED
    BY <2>1 DEF Init, TypeOK, Points, Verdicts
<1>2. Shared
  BY NoneIsSound DEF Init, Shared
<1>3. Listed
  BY DEF Init, Listed
<1>4. ASSUME NEW r \in Requests PROVE Local(r)
  BY NoneIsSound DEF Init, Local, Holding, Progress, Evidence, Voided
<1> QED
  BY <1>1, <1>2, <1>3, <1>4 DEF IInv

\* Every step keeps the invariant.
LEMMA StepInvariant == IInv /\ [Next]_vars => IInv'
<1> SUFFICES ASSUME IInv, [Next]_vars PROVE IInv'
  OBVIOUS
<1>1. CASE Next
  <2>1. CASE \E r \in Requests : Begin(r) \/ Assemble(r) \/ EvaluateSnapshot(r) \/ PutCachedAllow(r)
    BY <2>1, EvaluationStep
  <2>2. CASE Command
    BY <2>2, ApprovalStep
  <2>3. CASE Tick \/ \E i \in Providers : Publish(i)
    BY <2>3, EnvironmentStep
  <2> QED
    BY <1>1, <2>1, <2>2, <2>3 DEF Next, Command
<1>2. CASE UNCHANGED vars
  BY <1>2 DEF vars, env, caches, store, locals, IInv, TypeOK, Shared, Listed, Local, Holding, Progress,
              Evidence, Voided, Active
<1> QED
  BY <1>1, <1>2

\* The evidence an evaluation works with is well typed, dated and young
\* enough, in every reachable state.
THEOREM Invariant == Spec => []IInv
BY InitInvariant, StepInvariant, PTL DEF Spec
-----------------------------------------------------------------------------
(* What a decision rests on.                                               *)

\* A malicious observation means something to the policy, and no provider
\* says that a cached allow is fresh.
LEMMA ObservationMeaning ==
    ASSUME NEW o \in Observations
    PROVE  /\ o.observation = "malicious" =>
                 \/ o = [kind |-> "malicious", observation |-> "malicious"]
                 \/ o = [kind |-> "vulnerability", observation |-> "malicious"]
           /\ o # [kind |-> "cache", observation |-> "fresh_allow"]
<1>1. PICK i \in Providers : o \in Unavailable(i) \/ \E report \in Reports[i] : o \in report
  BY DEF Observations
<1>2. CASE o \in Unavailable(i)
  <2>1. o.observation = "unavailable"
    BY <1>2 DEF Unavailable
  <2> QED
    BY <2>1
<1>3. ASSUME NEW report \in Reports[i], o \in report
      PROVE  /\ o = [kind |-> o.kind, observation |-> o.observation]
             /\ o.kind # "cache"
             /\ o.observation = "malicious" => o.kind \in {"malicious", "vulnerability"}
  BY <1>3, ReportType
<1>4. CASE \E report \in Reports[i] : o \in report
  <2>1. /\ o = [kind |-> o.kind, observation |-> o.observation]
        /\ o.kind # "cache"
        /\ o.observation = "malicious" => o.kind \in {"malicious", "vulnerability"}
    BY <1>3, <1>4
  <2> QED
    BY <2>1
<1> QED
  BY <1>1, <1>2, <1>4

\* A malicious observation is a known malicious package.
LEMMA MaliciousAssessed ==
    ASSUME NEW obs, NEW states, NEW t,
           \/ [kind |-> "malicious", observation |-> "malicious"] \in obs
           \/ [kind |-> "vulnerability", observation |-> "malicious"] \in obs
    PROVE  "KnownMalicious" \in Assess(obs, states, t)
<1> DEFINE m == <<"malicious", "malicious", "KnownMalicious">>
           v == <<"vulnerability", "malicious", "KnownMalicious">>
<1>1. m \in Meanings /\ v \in Meanings
  BY DEF Meanings
<1>2. m[1] = "malicious" /\ m[2] = "malicious" /\ m[3] = "KnownMalicious"
  OBVIOUS
<1>3. v[1] = "vulnerability" /\ v[2] = "malicious" /\ v[3] = "KnownMalicious"
  OBVIOUS
<1> HIDE DEF m, v
<1>4. \E n \in Meanings : [kind |-> n[1], observation |-> n[2]] \in obs /\ n[3] = "KnownMalicious"
  BY <1>1, <1>2, <1>3
<1> QED
  BY <1>4 DEF Assess

\* A cached allow counts only if the assembler saw one.
LEMMA CachedAllowAssessed ==
    ASSUME NEW obs, NEW states, NEW t, "FreshCachedAllow" \in Assess(obs, states, t)
    PROVE  [kind |-> "cache", observation |-> "fresh_allow"] \in obs
<1>1. PICK n \in Meanings : n[3] = "FreshCachedAllow" /\ [kind |-> n[1], observation |-> n[2]] \in obs
  BY DEF Assess
<1>2. n = <<"cache", "fresh_allow", "FreshCachedAllow">>
  BY <1>1 DEF Meanings
<1> QED
  BY <1>1, <1>2

\* A known malicious package is blocked.
LEMMA MaliciousVerdict ==
    ASSUME NEW p \in Profiles, NEW a, "KnownMalicious" \in a
    PROVE  Evaluate(p, a).verdict = "block"
<1>1. Rule(a) \in {"registry.package-not-found", "core.integrity-or-malicious"}
  BY DEF Rule, Refuted
<1> QED
  BY <1>1 DEF Evaluate, VerdictOf

\* During an outage the policy lets a package through only in the balanced
\* profile and with a fresh cached allow.
LEMMA OutageVerdict ==
    ASSUME NEW p \in Profiles, NEW a, "EvidenceUnavailable" \in a,
           Evaluate(p, a).verdict \in {"allow", "warn"}
    PROVE  p = "balanced" /\ "FreshCachedAllow" \in a
<1>1. Rule(a) \in {"registry.package-not-found", "core.integrity-or-malicious",
                   "execution.dangerous-install-script", "core.vulnerability-threshold",
                   "identity.confusable-new", "release.provenance-script-change",
                   "availability.fresh-cache", "availability.no-cache"}
  BY DEF Rule, InstallTime, Outage
<1>2. Rule(a) = "availability.fresh-cache" /\ p # "strict"
  BY <1>1 DEF Evaluate, VerdictOf
<1> QED
  BY <1>2 DEF Rule, CachedAllow, Profiles

\* What Decide writes.
LEMMA DecideEffect ==
    ASSUME IInv, NEW r \in Requests, Decide(r)
    PROVE  LET decision == Evaluate(profile, Assessment(r)) IN
           /\ doc'[r].degraded = Degraded(r, decision)
           /\ \/ doc'[r].verdict = decision.verdict /\ doc'[r].via = None
              \/ /\ decision.verdict = "approval_required"
                 /\ doc'[r].via \in FindActiveApproval
<1> DEFINE decision == Evaluate(profile, Assessment(r))
           document(verdict, via) == [verdict |-> verdict, rule |-> decision.rule,
                                      degraded |-> Degraded(r, decision), via |-> via,
                                      stale |-> ShowsStale(r, decision.rule)]
<1>1. \/ doc' = [doc EXCEPT ![r] = document(decision.verdict, None)]
      \/ /\ decision.verdict = "approval_required"
         /\ \E a \in FindActiveApproval : doc' = [doc EXCEPT ![r] = document("allow", a)]
  BY DEF Decide, Approvable
<1>2. doc \in [Requests -> Document \cup {None}]
  BY DEF IInv, TypeOK
<1>3. \A verdict, via : /\ document(verdict, via).verdict = verdict
                        /\ document(verdict, via).via = via
                        /\ document(verdict, via).degraded = Degraded(r, decision)
  OBVIOUS
<1> HIDE DEF document, decision
<1>4. \/ doc'[r] = document(decision.verdict, None)
      \/ /\ decision.verdict = "approval_required"
         /\ \E a \in FindActiveApproval : doc'[r] = document("allow", a)
  BY <1>1, <1>2
<1> QED
  BY <1>3, <1>4 DEF decision

\* A decision that is there was just made, or is as it was.
LEMMA RecordStep ==
    ASSUME IInv, [Next]_vars, NEW r \in Requests, Decided(r)'
    PROVE  \/ Decide(r) /\ UNCHANGED <<env, store, hit, now, used, void>>
           \/ /\ Decided(r) /\ profile' = profile
              /\ doc'[r] = doc[r] /\ used'[r] = used[r] /\ hit'[r] = hit[r] /\ now'[r] = now[r]
              /\ void'[r] = void[r]
<1>0. TypeOK /\ pc'[r] = "record"
  BY DEF IInv, Decided, At
<1>1. CASE UNCHANGED vars
  BY <1>0, <1>1 DEF vars, env, locals, Decided, At
<1>2. CASE Command \/ Tick \/ \E i \in Providers : Publish(i)
  <2>1. UNCHANGED <<profile, locals>>
    BY <1>2 DEF Command, Deny, DenyList, DenyDone, DenyRevoke, Revoke, Approve, Tick, Publish, env
  <2> QED
    BY <1>0, <2>1 DEF locals, Decided, At
<1>3. ASSUME NEW q \in Requests, q # r,
             Begin(q) \/ Assemble(q) \/ EvaluateSnapshot(q) \/ PutCachedAllow(q)
      PROVE  /\ Decided(r) /\ profile' = profile
             /\ doc'[r] = doc[r] /\ used'[r] = used[r] /\ hit'[r] = hit[r] /\ now'[r] = now[r]
             /\ void'[r] = void[r]
  BY <1>0, <1>3, Frame DEF env, Decided, At
<1>4. CASE Begin(r) \/ Assemble(r) \/ EvaluateSnapshot(r) \/ PutCachedAllow(r)
  <2>1. ~Begin(r) /\ ~Record(r)
    BY <1>0 DEF Begin, Record, Go, TypeOK
  <2>2. ~\E o : Use(r, o)
    BY <1>0 DEF Use, Go, TypeOK
  <2>3. ~Get(r)
    <3>1. Get(r) => (\E o : Use(r, o)) \/ Go(r, "ask")
      BY DEF Get
    <3> QED
      BY <1>0, <2>2, <3>1 DEF Go, TypeOK
  <2>4. ~CheckAllow(r) /\ ~Ask(r) /\ ~Answer(r)
    BY <1>0 DEF CheckAllow, Ask, Answer, Go, TypeOK
  <2>5. ~AnswerReduced(r) /\ ~AnswerFail(r) /\ ~Put(r)
    BY <2>2 DEF AnswerReduced, AnswerFail, Put
  <2>6. CASE Decide(r)
    BY <2>6 DEF Decide
  <2>7. CASE PutCachedAllow(r)
    BY <1>0, <2>7 DEF PutCachedAllow, locals, At
  <2> QED
    BY <1>4, <2>1, <2>3, <2>4, <2>5, <2>6, <2>7 DEF Assemble, EvaluateSnapshot
<1> QED
  BY <1>1, <1>2, <1>3, <1>4 DEF Next, Command
\* A decision on malicious evidence blocks, and no approval was looked up.
LEMMA MaliciousDecision ==
    ASSUME IInv, NEW r \in Requests, Decide(r), NEW i \in Providers, Malicious(used[r][i].obs)
    PROVE  doc'[r].verdict = "block" /\ doc'[r].via = None
<1>1. TypeOK /\ Local(r) /\ pc[r] = "decide" /\ profile \in Profiles
  BY DEF IInv, Decide, At, TypeOK
<1>2. used[r][i] \in Outcome
  BY <1>1 DEF TypeOK, Local, Progress
<1>3. PICK o \in used[r][i].obs : o.observation = "malicious"
  BY DEF Malicious
<1>4. o \in Observations
  BY <1>2, <1>3 DEF Outcome
<1>5. o \in Observed(r)
  BY <1>3 DEF Observed
<1>6. "KnownMalicious" \in Assessment(r)
  BY <1>3, <1>4, <1>5, ObservationMeaning, MaliciousAssessed DEF Assessment
<1>7. Evaluate(profile, Assessment(r)).verdict = "block"
  BY <1>1, <1>6, MaliciousVerdict
<1> QED
  BY <1>7, DecideEffect

\* Known malicious packages are blocked whatever has been approved or cached.
THEOREM KnownMaliciousIsBlocked == Spec => []MaliciousBlocks
<1>1. Init => MaliciousBlocks
  BY DEF Init, MaliciousBlocks, Decided, At
<1>2. IInv /\ MaliciousBlocks /\ [Next]_vars => MaliciousBlocks'
  <2> SUFFICES ASSUME IInv, MaliciousBlocks, [Next]_vars, NEW r \in Requests, Decided(r)',
                      NEW i \in Providers, Malicious(used'[r][i].obs)
               PROVE  doc'[r].verdict = "block" /\ doc'[r].via = None
    BY DEF MaliciousBlocks, Malicious
  <2>1. CASE Decide(r) /\ used' = used
    BY <2>1, MaliciousDecision
  <2>2. CASE Decided(r) /\ doc'[r] = doc[r] /\ used'[r] = used[r]
    BY <2>2 DEF MaliciousBlocks
  <2> QED
    BY <2>1, <2>2, RecordStep
<1> QED
  BY <1>1, <1>2, Invariant, PTL DEF Spec

\* What was observed comes from a provider or is the cached allow.
LEMMA ObservedSplit ==
    ASSUME NEW r, NEW o \in Observed(r)
    PROVE  \/ \E i \in Providers : o \in used[r][i].obs
           \/ o = [kind |-> "cache", observation |-> hit[r]]
<1> DEFINE evidence == UNION {used[r][i].obs : i \in Providers}
           saw == IF hit[r] = "none" THEN {} ELSE {[kind |-> "cache", observation |-> hit[r]]}
<1>1. Observed(r) = evidence \cup saw
  BY DEF Observed
<1>2. o \in evidence => \E i \in Providers : o \in used[r][i].obs
  OBVIOUS
<1>3. o \in saw => o = [kind |-> "cache", observation |-> hit[r]]
  <2>1. CASE hit[r] = "none"
    BY <2>1
  <2>2. CASE hit[r] # "none"
    <3>1. saw = {[kind |-> "cache", observation |-> hit[r]]}
      BY <2>2
    <3> HIDE DEF saw
    <3> QED
      BY <3>1
  <2> QED
    BY <2>1, <2>2
<1> HIDE DEF evidence, saw
<1> QED
  BY <1>1, <1>2, <1>3

\* A decision made without a provider is degraded, and passes only as the
\* policy allows.
LEMMA OutageDecision ==
    ASSUME IInv, NEW r \in Requests, Decide(r), "unavailable" \in ProviderStates(r)
    PROVE  /\ doc'[r].degraded
           /\ doc'[r].verdict \in {"allow", "warn"} =>
                 doc'[r].via # None \/ (profile = "balanced" /\ hit[r] = "fresh_allow")
<1> DEFINE decision == Evaluate(profile, Assessment(r))
<1>1. TypeOK /\ Local(r) /\ pc[r] = "decide" /\ profile \in Profiles
  BY DEF IInv, Decide, At, TypeOK
<1>2. HasUnavailableEvidence(Observed(r), ProviderStates(r))
  BY DEF HasUnavailableEvidence
<1>3. doc'[r].degraded
  <2>1. doc'[r].degraded = Degraded(r, decision)
    BY DecideEffect
  <2> QED
    BY <1>2, <2>1 DEF Degraded
<1>4. "EvidenceUnavailable" \in Assessment(r)
  BY <1>2 DEF Assessment, Assess
<1>5. ASSUME doc'[r].verdict \in {"allow", "warn"}, doc'[r].via = None
      PROVE  profile = "balanced" /\ hit[r] = "fresh_allow"
  <2>1. decision.verdict \in {"allow", "warn"}
    <3>1. None \notin FindActiveApproval
      BY Constants DEF FindActiveApproval
    <3> QED
      BY <1>5, <3>1, DecideEffect
  <2>2. profile = "balanced" /\ "FreshCachedAllow" \in Assessment(r)
    BY <1>1, <1>4, <2>1, OutageVerdict
  <2>3. [kind |-> "cache", observation |-> "fresh_allow"] \in Observed(r)
    BY <2>2, CachedAllowAssessed DEF Assessment
  <2>4. ASSUME NEW i \in Providers
        PROVE  [kind |-> "cache", observation |-> "fresh_allow"] \notin used[r][i].obs
    <3>1. used[r][i] \in Outcome
      BY <1>1 DEF TypeOK, Local, Progress
    <3>2. used[r][i].obs \subseteq Observations
      BY <3>1 DEF Outcome
    <3> QED
      BY <3>2, ObservationMeaning
  <2> DEFINE fresh == [kind |-> "cache", observation |-> "fresh_allow"]
             saw == [kind |-> "cache", observation |-> hit[r]]
  <2>5. \/ \E i \in Providers : fresh \in used[r][i].obs
        \/ fresh = saw
    BY <2>3, ObservedSplit
  <2>6. fresh = saw
    BY <2>4, <2>5
  <2>7. fresh.observation = "fresh_allow" /\ saw.observation = hit[r]
    OBVIOUS
  <2> QED
    BY <2>2, <2>6, <2>7
<1> QED
  BY <1>3, <1>5

\* An outage is never silent, whatever is cached or approved.
THEOREM OutageIsVisible == Spec => []OutageVisible
<1>1. Init => OutageVisible
  BY DEF Init, OutageVisible, Decided, At
<1>2. IInv /\ OutageVisible /\ [Next]_vars => OutageVisible'
  <2> SUFFICES ASSUME IInv, OutageVisible, [Next]_vars, NEW r \in Requests, Decided(r)',
                      "unavailable" \in ProviderStates(r)'
               PROVE  (/\ doc[r].degraded
                       /\ doc[r].verdict \in {"allow", "warn"} =>
                             doc[r].via # None \/ (profile = "balanced" /\ hit[r] = "fresh_allow"))'
    BY DEF OutageVisible
  <2>1. CASE Decide(r) /\ used' = used /\ hit' = hit /\ profile' = profile
    <3>1. "unavailable" \in ProviderStates(r)
      BY <2>1 DEF ProviderStates
    <3> QED
      BY <2>1, <3>1, OutageDecision
  <2>2. CASE /\ Decided(r) /\ profile' = profile
             /\ doc'[r] = doc[r] /\ used'[r] = used[r] /\ hit'[r] = hit[r]
    <3>1. "unavailable" \in ProviderStates(r)
      BY <2>2 DEF ProviderStates
    <3> QED
      BY <2>2, <3>1 DEF OutageVisible
  <2> QED
    BY <2>1, <2>2, RecordStep DEF env
<1> QED
  BY <1>1, <1>2, Invariant, PTL DEF Spec

\* An approval that was revoked or has expired before an evaluation began
\* does not let it through.
THEOREM RevocationIsFinal == Spec => []RevocationHolds
<1>1. Init => RevocationHolds
  BY DEF Init, RevocationHolds, Decided, At
<1>2. IInv /\ RevocationHolds /\ [Next]_vars => RevocationHolds'
  <2> SUFFICES ASSUME IInv, RevocationHolds, [Next]_vars, NEW r \in Requests, Decided(r)'
               PROVE  doc'[r].via \notin void'[r]
    BY DEF RevocationHolds
  <2>1. CASE Decide(r) /\ void' = void
    <3>1. Voided(r) /\ void[r] \subseteq Approvals
      BY DEF IInv, Local, TypeOK
    <3>2. doc'[r].via = None \/ doc'[r].via \in FindActiveApproval
      BY <2>1, DecideEffect
    <3> QED
      BY <2>1, <3>1, <3>2, Constants DEF Voided, FindActiveApproval
  <2>2. CASE Decided(r) /\ doc'[r] = doc[r] /\ void'[r] = void[r]
    BY <2>2 DEF RevocationHolds
  <2> QED
    BY <2>1, <2>2, RecordStep
<1> QED
  BY <1>1, <1>2, Invariant, PTL DEF Spec

\* A malicious record takes effect within the lifetimes, although the answers
\* of concurrent evaluations overtake each other in the cache.
THEOREM AdvisoriesTakeEffect == Spec => []AdvisoryTakesEffect
<1>1. Init => AdvisoryTakesEffect
  BY DEF Init, AdvisoryTakesEffect, Decided, At
<1>2. IInv /\ AdvisoryTakesEffect /\ [Next]_vars => AdvisoryTakesEffect'
  <2> SUFFICES ASSUME IInv, AdvisoryTakesEffect, [Next]_vars,
                      NEW r \in Requests, NEW i \in Providers, Decided(r)', Malicious(world[i])',
                      (used[r][i].from # "upstream")',
                      (now[r] > since[i] + FreshTTL +
                          (IF used[r][i].state = "stale" THEN StaleTTL ELSE 0))'
               PROVE  (doc[r].verdict = "block" \/ doc[r].degraded)'
    BY DEF AdvisoryTakesEffect
  <2> USE Constants
  <2>0. TypeOK /\ Local(r) /\ since[i] \in Nat /\ now[r] \in Nat /\ clock \in Nat
    BY DEF IInv, TypeOK
  <2>1. CASE Decide(r) /\ UNCHANGED <<env, now, used>>
    <3> DEFINE u == used[r][i]
    <3>1. u \in Outcome /\ u.retrieved \in Nat
      <4>1. pc[r] = "decide"
        BY <2>1 DEF Decide, At
      <4>2. u \in Outcome
        BY <2>0, <4>1 DEF TypeOK, Local, Progress
      <4> QED
        BY <4>2 DEF Outcome
    <3>2. Dated(u, clock, world[i], since[i]) /\ Young(u, now[r])
      BY <2>0 DEF Local, Evidence
    <3>3. /\ u.from # "upstream" /\ Malicious(world[i])
          /\ now[r] > since[i] + FreshTTL + (IF u.state = "stale" THEN StaleTTL ELSE 0)
      BY <2>1 DEF env, Malicious
    <3> HIDE DEF u
    <3>4. CASE u.state = "unavailable"
      <4>1. "unavailable" \in ProviderStates(r)
        BY <3>4 DEF u, ProviderStates
      <4> QED
        BY <2>1, <4>1, OutageDecision
    <3>5. CASE u.state # "unavailable"
      <4>1. u # None
        BY <3>1
      <4>2. u.retrieved > since[i]
        BY <2>0, <3>1, <3>2, <3>3, <3>5, <4>1 DEF Young
      <4>3. Malicious(u.obs)
        BY <3>2, <3>3, <3>5, <4>1, <4>2 DEF Dated
      <4> QED
        BY <2>1, <4>3, MaliciousDecision DEF u
    <3> QED
      BY <3>4, <3>5
  <2>2. CASE Decided(r) /\ doc'[r] = doc[r] /\ used'[r] = used[r] /\ now'[r] = now[r]
    <3>1. CASE world'[i] = world[i] /\ since'[i] = since[i]
      <4>1. Malicious(world[i])
        BY <3>1 DEF Malicious
      <4> QED
        BY <2>2, <3>1, <4>1 DEF AdvisoryTakesEffect
    <3>2. CASE since'[i] = clock
      <4>1. now[r] <= clock
        BY <2>0 DEF Local, Holding
      <4> QED
        BY <2>0, <2>2, <3>2, <4>1
    <3>3. (world'[i] = world[i] /\ since'[i] = since[i]) \/ since'[i] = clock
      <4>1. CASE UNCHANGED <<world, since>>
        BY <4>1
      <4>2. ASSUME NEW j \in Providers, Publish(j)
            PROVE  (world'[i] = world[i] /\ since'[i] = since[i]) \/ since'[i] = clock
        BY <2>0, <4>2 DEF Publish, TypeOK
      <4>3. UNCHANGED <<world, since>> \/ \E j \in Providers : Publish(j)
        BY DEF Next, Begin, Assemble, EvaluateSnapshot, PutCachedAllow, CheckAllow, Get, Ask, Answer,
               AnswerReduced, AnswerFail, Put, Decide, Record, Revoke, Approve, Deny, DenyList,
               DenyDone, DenyRevoke, Tick, vars, env
      <4> QED
        BY <4>1, <4>2, <4>3
    <3> QED
      BY <3>1, <3>2, <3>3
  <2> QED
    BY <2>1, <2>2, RecordStep
<1> QED
  BY <1>1, <1>2, Invariant, PTL DEF Spec
=============================================================================
