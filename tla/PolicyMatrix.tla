---------------------------- MODULE PolicyMatrix ----------------------------
(***************************************************************************)
(* The policy applied to a snapshot while evidence comes in, one           *)
(* observation after the other and in any order.  What it decides must not *)
(* get worse for reasons that have nothing to do with the evidence: the    *)
(* order of the rows, the profile, the threshold, what is already known.   *)
(***************************************************************************)
EXTENDS Policy

CONSTANT Observations    \* the observations that may come in

VARIABLE obs             \* the observations of the snapshot

MatrixInit == obs = {}

Observe(o) ==
    /\ o \notin obs
    /\ obs' = obs \cup {o}

MatrixNext == \E o \in Observations : Observe(o)

MatrixSpec == MatrixInit /\ [][MatrixNext]_obs

\* What is known of the package under a threshold, and the verdict on it.
Known(threshold) == Assess(obs, {}, threshold)
Decide(profile, a) == Evaluate(profile, a).verdict

-----------------------------------------------------------------------------
(* Properties.                                                             *)

\* "Strict profile is never more permissive than balanced profile for any
\* input state" (Evaluate).
StrictNeverWeaker ==
    \A t \in Severities :
        LET a == Known(t) IN AsStrong(Decide("strict", a), Decide("balanced", a))

\* A lower vulnerability_threshold only tightens ("What repository policy
\* may tighten", BoundsStatement), whatever else was observed.
ThresholdTightens ==
    \A s, t \in Severities : \A p \in Profiles :
        SeverityRank(s) < SeverityRank(t) => AsStrong(Decide(p, Known(s)), Decide(p, Known(t)))

\* Stopping at the first row that applies never hides a row that asks for
\* more: the verdict is as strong as that of every other row that applies.
\* The outage row is the one for "no usable cache" (row 7).
FirstRowIsStrongest ==
    \A p \in Profiles, t \in Severities :
        LET a == Known(t)
            Asks(condition, rule) ==
                condition => AsStrong(Decide(p, a), VerdictOf(rule, p))
        IN  /\ Asks(Refuted(a), "core.integrity-or-malicious")
            /\ Asks(Dangerous(a), "execution.dangerous-install-script")
            /\ Asks(Vulnerable(a), "core.vulnerability-threshold")
            /\ Asks(Confusable(a), "identity.confusable-new")
            /\ Asks(ScriptChange(a), "release.provenance-script-change")
            /\ Asks(Outage(a) /\ ~CachedAllow(a), "availability.no-cache")
            /\ Asks(CachedAllow(a), "availability.fresh-cache")
            /\ Asks(WeakReputation(a), "reputation")

Reputation == {"LowPopularity", "MissingRepository"}

\* "low popularity or missing repository alone can never produce
\* approval_required or block" (BoundsStatement): whatever is held with weak
\* reputation is held, by the same rule, without it.
ReputationNeverHolds ==
    \A p \in Profiles, t \in Severities :
        LET a == Known(t) IN
        Holds(Decide(p, a))
            => Evaluate(p, a \ Reputation) = Evaluate(p, a)

\* More evidence never buys a weaker verdict, but for two observations: a
\* cached allow, which is there to do that, and an outage while one is
\* fresh, which takes the install script row out (rows 5 and 6).
EvidenceNeverWeakens ==
    [][\A t \in Severities :
          LET before == Known(t)
              after  == Known(t)'
          IN  \/ \A p \in Profiles : AsStrong(Decide(p, after), Decide(p, before))
              \/ "FreshCachedAllow" \in after \ before
              \/ /\ "EvidenceUnavailable" \in after \ before
                 /\ "FreshCachedAllow" \in before]_obs
=============================================================================
