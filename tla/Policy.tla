------------------------------- MODULE Policy -------------------------------
(***************************************************************************)
(* The decision matrix of internal/policy: AssessWithThreshold turns the   *)
(* observations of an evidence snapshot into facts, Evaluate turns facts   *)
(* into a verdict.  Both are pure.                                         *)
(*                                                                         *)
(* An Assessment, a struct of flags in the code, is the set of its true    *)
(* flags.  An observation is a kind and what was observed.  Where the code *)
(* matches a prefix ("confusion_detected:lodash"), the prefix stands for   *)
(* the observation: what follows it only goes into the summary.            *)
(***************************************************************************)
EXTENDS Naturals

Profiles == {"balanced", "strict"}
Severities == {"low", "medium", "high", "critical"}

-----------------------------------------------------------------------------
(* AssessWithThreshold.                                                    *)

\* The words an advisory may use for a severity, and their ranks.  Letters
\* are folded to lower case first; any other word is no severity.
ReportedSeverities == Severities \cup {"moderate"}
SeverityRank(s) ==
    CASE s = "critical" -> 4 [] s = "high" -> 3 [] s \in {"medium", "moderate"} -> 2
      [] s = "low" -> 1

\* What the observations of each kind mean, the severities aside.
Meanings ==
    {<<"integrity", "mismatch", "IntegrityMismatch">>,
     <<"integrity", "failed", "IntegrityMismatch">>,
     <<"malicious", "true", "KnownMalicious">>,
     <<"malicious", "malicious", "KnownMalicious">>,
     <<"vulnerability", "malicious", "KnownMalicious">>,
     <<"vulnerability", "above_threshold", "VulnerabilityAboveThreshold">>,
     <<"name_confusion", "confusion_detected", "StrongNameConfusion">>,
     <<"name_confusion", "true", "StrongNameConfusion">>,
     <<"publish_history", "not_found", "PackageNotFound">>,
     <<"publish_history", "package_not_found", "PackageNotFound">>,
     <<"publish_history", "version_not_found", "PackageNotFound">>,
     <<"package_age", "not_found", "PackageNotFound">>,
     <<"package_age", "fresh", "NewbornOrFresh">>,
     <<"package_age", "newborn", "NewbornOrFresh">>,
     <<"provenance", "changed", "PublisherOrProvenanceChanged">>,
     <<"provenance", "unexpected", "PublisherOrProvenanceChanged">>,
     <<"install_script", "script_added", "InstallScriptAdded">>,
     <<"install_script", "script_added", "HasInstallScriptOrNativeBuild">>,
     <<"install_script", "present", "HasInstallScriptOrNativeBuild">>,
     <<"install_script", "native_build", "HasInstallScriptOrNativeBuild">>,
     <<"install_script", "inspect_truncated", "InspectionTruncated">>,
     <<"install_script", "indicator", "DangerousInstallScript">>,
     <<"install_script", "indicator", "HasInstallScriptOrNativeBuild">>,
     <<"install_script", "dangerous_script", "DangerousInstallScript">>,
     <<"install_script", "dangerous_script", "HasInstallScriptOrNativeBuild">>,
     <<"reputation", "low_popularity", "LowPopularity">>,
     <<"reputation", "missing_repository", "MissingRepository">>,
     <<"cache", "fresh_allow", "FreshCachedAllow">>}

\* Mutant: the comparison the wrong way round.
MildEnough(o, threshold) ==
    /\ o.kind = "vulnerability"
    /\ o.observation \in ReportedSeverities
    /\ SeverityRank(o.observation) <= SeverityRank(threshold)

\* isVulnerabilityAboveThreshold for an observation that is a severity.
SevereEnough(o, threshold) ==
    /\ o.kind = "vulnerability"
    /\ o.observation \in ReportedSeverities
    /\ SeverityRank(o.observation) >= SeverityRank(threshold)

\* Snapshot.HasUnavailableEvidence.
HasUnavailableEvidence(obs, states) ==
    "unavailable" \in states \/ \E o \in obs : o.observation = "unavailable"

Assess(obs, states, threshold) ==
    {m[3] : m \in {n \in Meanings : [kind |-> n[1], observation |-> n[2]] \in obs}}
    \cup {f \in {"VulnerabilityAboveThreshold"} : \E o \in obs : SevereEnough(o, threshold)}
    \cup {f \in {"EvidenceUnavailable"} : HasUnavailableEvidence(obs, states)}

-----------------------------------------------------------------------------
(* Evaluate.  Each row of the matrix has a condition, and a verdict in the *)
(* balanced and in the strict profile.                                     *)

Verdicts == {"allow", "warn", "approval_required", "block"}

NotFound(a)  == "PackageNotFound" \in a
Refuted(a)   == "IntegrityMismatch" \in a \/ "KnownMalicious" \in a
Dangerous(a) == "DangerousInstallScript" \in a
Vulnerable(a) == "VulnerabilityAboveThreshold" \in a
Confusable(a) == "StrongNameConfusion" \in a /\ "NewbornOrFresh" \in a
ScriptChange(a) == "PublisherOrProvenanceChanged" \in a /\ "InstallScriptAdded" \in a

\* Mutant: an install script decides during an outage as well.
InstallTimeAlways(a) == "HasInstallScriptOrNativeBuild" \in a

InstallTime(a) == "HasInstallScriptOrNativeBuild" \in a /\ "EvidenceUnavailable" \notin a
CachedAllow(a) == "EvidenceUnavailable" \in a /\ "FreshCachedAllow" \in a
Outage(a) == "EvidenceUnavailable" \in a
WeakReputation(a) == "LowPopularity" \in a \/ "MissingRepository" \in a

Rules == {"registry.package-not-found", "core.integrity-or-malicious",
          "execution.dangerous-install-script", "core.vulnerability-threshold",
          "identity.confusable-new", "release.provenance-script-change",
          "execution.install-time", "availability.fresh-cache",
          "availability.no-cache", "reputation", "core.policy-satisfied"}

\* The first row that applies decides.  The code has two identifiers for the
\* outage row and two for the reputation row, by profile.
Rule(a) ==
    IF NotFound(a) THEN "registry.package-not-found"
    ELSE IF Refuted(a) THEN "core.integrity-or-malicious"
    ELSE IF Dangerous(a) THEN "execution.dangerous-install-script"
    ELSE IF Vulnerable(a) THEN "core.vulnerability-threshold"
    ELSE IF Confusable(a) THEN "identity.confusable-new"
    ELSE IF ScriptChange(a) THEN "release.provenance-script-change"
    ELSE IF InstallTime(a) THEN "execution.install-time"
    ELSE IF CachedAllow(a) THEN "availability.fresh-cache"
    ELSE IF Outage(a) THEN "availability.no-cache"
    ELSE IF WeakReputation(a) THEN "reputation"
    ELSE "core.policy-satisfied"

\* Mutant: the branches of the cached allow are swapped.
VerdictSwapped(rule, profile) ==
    CASE rule = "availability.fresh-cache" ->
            IF profile = "strict" THEN "allow" ELSE "approval_required"
      [] rule = "core.policy-satisfied" -> "allow"
      [] OTHER -> "block"

VerdictOf(rule, profile) ==
    LET strict == profile = "strict" IN
    CASE rule \in {"identity.confusable-new", "release.provenance-script-change",
                   "availability.no-cache"} -> IF strict THEN "block" ELSE "approval_required"
      [] rule = "execution.install-time"    -> IF strict THEN "approval_required" ELSE "warn"
      [] rule = "availability.fresh-cache"  -> IF strict THEN "approval_required" ELSE "allow"
      [] rule = "reputation"                -> IF strict THEN "warn" ELSE "allow"
      [] rule = "core.policy-satisfied"     -> "allow"
      [] OTHER                              -> "block"

Evaluate(profile, a) ==
    LET rule == Rule(a) IN
    [verdict  |-> VerdictOf(rule, profile),
     rule     |-> rule,
     degraded |-> \/ rule \in {"availability.fresh-cache", "availability.no-cache"}
                  \/ "InspectionTruncated" \in a]

-----------------------------------------------------------------------------
(* What the verdicts promise.                                              *)

Strength(v) ==
    CASE v = "allow" -> 0 [] v = "warn" -> 1 [] v = "approval_required" -> 2 [] v = "block" -> 3

AsStrong(v, w) == Strength(w) <= Strength(v)
Holds(v) == v \in {"approval_required", "block"}
=============================================================================
