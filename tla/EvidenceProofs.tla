--------------------------- MODULE EvidenceProofs ---------------------------
(***************************************************************************)
(* Proofs about the way from documents to a verdict: the matrix, for every *)
(* set of observations, and the providers, for every corpus of names,      *)
(* every history of publications and every threshold.                      *)
(*                                                                         *)
(* The lemmas about the matrix are about assessments; its theorems carry   *)
(* them over to every snapshot that can come together.  Those about        *)
(* levenshteinDistance are about the whole table of which the code keeps   *)
(* two rows at a time.  An invariant of the world, that a name is no       *)
(* farther from its origin than the edits made to it and that the log is   *)
(* ordered in time, then gives the properties of the providers.            *)
(***************************************************************************)
EXTENDS PolicyMatrix, Providers, FiniteSetTheorems, SequenceTheorems, WellFoundedInduction, TLAPS

\* The verdict of each rule (the rows of Evaluate).
LEMMA RuleVerdicts ==
    ASSUME NEW p \in Profiles
    PROVE  /\ VerdictOf("registry.package-not-found", p) = "block"
           /\ VerdictOf("core.integrity-or-malicious", p) = "block"
           /\ VerdictOf("execution.dangerous-install-script", p) = "block"
           /\ VerdictOf("core.vulnerability-threshold", p) = "block"
           /\ VerdictOf("identity.confusable-new", p)
                 = IF p = "strict" THEN "block" ELSE "approval_required"
           /\ VerdictOf("release.provenance-script-change", p)
                 = IF p = "strict" THEN "block" ELSE "approval_required"
           /\ VerdictOf("availability.no-cache", p)
                 = IF p = "strict" THEN "block" ELSE "approval_required"
           /\ VerdictOf("execution.install-time", p)
                 = IF p = "strict" THEN "approval_required" ELSE "warn"
           /\ VerdictOf("availability.fresh-cache", p)
                 = IF p = "strict" THEN "approval_required" ELSE "allow"
           /\ VerdictOf("reputation", p) = IF p = "strict" THEN "warn" ELSE "allow"
           /\ VerdictOf("core.policy-satisfied", p) = "allow"
BY DEF VerdictOf

\* The strengths of the four verdicts.
LEMMA Strengths ==
    /\ Strength("allow") = 0 /\ Strength("warn") = 1
    /\ Strength("approval_required") = 2 /\ Strength("block") = 3
BY DEF Strength

\* Every assessment is decided by one of the rules.
LEMMA RuleType ==
    ASSUME NEW a
    PROVE  Rule(a) \in Rules
BY DEF Rule, Rules

-----------------------------------------------------------------------------
(* Profiles.                                                               *)

\* No rule is weaker in the strict profile.
LEMMA StrictRule ==
    ASSUME NEW r \in Rules
    PROVE  AsStrong(VerdictOf(r, "strict"), VerdictOf(r, "balanced"))
BY RuleVerdicts, Strengths DEF Rules, AsStrong, Profiles

\* The strict profile is never more permissive, whatever was observed.
THEOREM StrictIsNeverWeaker == MatrixSpec => []StrictNeverWeaker
<1>1. StrictNeverWeaker
  BY RuleType, StrictRule DEF StrictNeverWeaker, Decide, Evaluate
<1> QED
  BY <1>1, PTL

-----------------------------------------------------------------------------
(* The order of the rows.                                                  *)

\* The row that decides asks for as much as every row that applies.
THEOREM FirstRowSuffices == MatrixSpec => []FirstRowIsStrongest
<1>1. ASSUME NEW p \in Profiles, NEW a
      PROVE  /\ Refuted(a) => AsStrong(Decide(p, a), VerdictOf("core.integrity-or-malicious", p))
             /\ Dangerous(a) => AsStrong(Decide(p, a), VerdictOf("execution.dangerous-install-script", p))
             /\ Vulnerable(a) => AsStrong(Decide(p, a), VerdictOf("core.vulnerability-threshold", p))
             /\ Confusable(a) => AsStrong(Decide(p, a), VerdictOf("identity.confusable-new", p))
             /\ ScriptChange(a) => AsStrong(Decide(p, a), VerdictOf("release.provenance-script-change", p))
             /\ Outage(a) /\ ~CachedAllow(a) => AsStrong(Decide(p, a), VerdictOf("availability.no-cache", p))
             /\ CachedAllow(a) => AsStrong(Decide(p, a), VerdictOf("availability.fresh-cache", p))
             /\ WeakReputation(a) => AsStrong(Decide(p, a), VerdictOf("reputation", p))
  BY RuleVerdicts, Strengths DEF Decide, Evaluate, Rule, AsStrong, CachedAllow, Outage, InstallTime
<1>2. FirstRowIsStrongest
  BY <1>1 DEF FirstRowIsStrongest
<1> QED
  BY <1>2, PTL

-----------------------------------------------------------------------------
(* Reputation.                                                             *)

\* Weak reputation never holds a package back.
THEOREM ReputationIsInformational == MatrixSpec => []ReputationNeverHolds
<1>1. ASSUME NEW p \in Profiles, NEW a, Holds(Decide(p, a))
      PROVE  Evaluate(p, a \ Reputation) = Evaluate(p, a)
  <2>1. Rule(a) # "reputation" /\ Rule(a) # "core.policy-satisfied"
    BY <1>1, RuleVerdicts DEF Decide, Evaluate, Holds
  <2>2. Rule(a \ Reputation) = Rule(a)
    BY <2>1 DEF Rule, Reputation, NotFound, Refuted, Dangerous, Vulnerable, Confusable, ScriptChange,
                InstallTime, CachedAllow, Outage, WeakReputation
  <2> QED
    BY <2>2 DEF Evaluate, Reputation
<1>2. ReputationNeverHolds
  BY <1>1 DEF ReputationNeverHolds
<1> QED
  BY <1>2, PTL

-----------------------------------------------------------------------------
(* Thresholds and further evidence.                                        *)

\* A fact that is added does not weaken the verdict, with the two exceptions
\* of EvidenceNeverWeakens.
LEMMA MoreFacts ==
    ASSUME NEW p \in Profiles, NEW a, NEW b, a \subseteq b,
           "FreshCachedAllow" \in b => "FreshCachedAllow" \in a,
           "EvidenceUnavailable" \in b /\ "FreshCachedAllow" \in a => "EvidenceUnavailable" \in a
    PROVE  AsStrong(Decide(p, b), Decide(p, a))
BY RuleVerdicts, Strengths
   DEF Decide, Evaluate, Rule, AsStrong, Profiles, NotFound, Refuted, Dangerous, Vulnerable, Confusable,
       ScriptChange, InstallTime, CachedAllow, Outage, WeakReputation

\* Severities are ordered by their rank.
LEMMA Ranks ==
    /\ SeverityRank("low") = 1 /\ SeverityRank("medium") = 2 /\ SeverityRank("moderate") = 2
    /\ SeverityRank("high") = 3 /\ SeverityRank("critical") = 4
BY DEF SeverityRank

\* A repository that lowers vulnerability_threshold never loosens its policy.
THEOREM LowerThresholdTightens == MatrixSpec => []ThresholdTightens
<1>1. ASSUME NEW s \in Severities, NEW t \in Severities, SeverityRank(s) < SeverityRank(t),
             NEW p \in Profiles
      PROVE  AsStrong(Decide(p, Known(s)), Decide(p, Known(t)))
  <2>1. ASSUME NEW o \in obs, SevereEnough(o, t) PROVE SevereEnough(o, s)
    BY <1>1, <2>1, Ranks DEF SevereEnough, ReportedSeverities, Severities
  <2>2. Known(t) \subseteq Known(s)
    BY <2>1 DEF Known, Assess
  <2>3. /\ "FreshCachedAllow" \in Known(s) => "FreshCachedAllow" \in Known(t)
        /\ "EvidenceUnavailable" \in Known(s) => "EvidenceUnavailable" \in Known(t)
    BY DEF Known, Assess
  <2> QED
    BY <2>2, <2>3, MoreFacts
<1>2. ThresholdTightens
  BY <1>1 DEF ThresholdTightens
<1> QED
  BY <1>2, PTL

\* Further observations never buy a weaker verdict.
THEOREM MoreEvidenceNeverWeakens == MatrixSpec => EvidenceNeverWeakens
<1> DEFINE Tightens ==
        \A t \in Severities :
          LET before == Known(t)
              after  == Known(t)'
          IN  \/ \A p \in Profiles : AsStrong(Decide(p, after), Decide(p, before))
              \/ "FreshCachedAllow" \in after \ before
              \/ /\ "EvidenceUnavailable" \in after \ before
                 /\ "FreshCachedAllow" \in before
<1>1. ASSUME MatrixNext PROVE Tightens
  <2> SUFFICES ASSUME NEW t \in Severities, NEW p \in Profiles,
                      "FreshCachedAllow" \notin Known(t)' \ Known(t),
                      "EvidenceUnavailable" \in Known(t)' \ Known(t) => "FreshCachedAllow" \notin Known(t)
               PROVE  AsStrong(Decide(p, Known(t)'), Decide(p, Known(t)))
    OBVIOUS
  <2>1. obs \subseteq obs'
    BY <1>1 DEF MatrixNext, Observe
  <2>2. Known(t) \subseteq Known(t)'
    BY <2>1 DEF Known, Assess, HasUnavailableEvidence
  <2> QED
    BY <2>2, MoreFacts
<1>2. [MatrixNext]_obs => [Tightens]_obs
  BY <1>1
<1> QED
  BY <1>2, PTL DEF MatrixSpec, EvidenceNeverWeakens

-----------------------------------------------------------------------------
(* The table of levenshteinDistance.                                       *)

\* A nonempty set of natural numbers has a least one.
LEMMA LeastNumber ==
    ASSUME NEW T, T \subseteq Nat, T # {}
    PROVE  \E n \in T : \A m \in T : n <= m
<1>1. PICK n \in T : \A m \in T : ~ (<<m, n>> \in OpToRel(<, Nat))
  BY NatLessThanWellFounded, WFMin
<1>2. \A m \in T : ~(m < n)
  BY <1>1 DEF OpToRel
<1> QED
  BY <1>2

\* What NextRow appends to a row that is filled up to entry j.
Cell(prev, c, t, j, filled) ==
    ShorterOf(ShorterOf(prev[j + 1] + 1, filled[j] + 1), prev[j] + IF t[j] = c THEN 0 ELSE 1)

\* f holds the row as it is after each of the first n entries.
Fills(f, n, prev, c, i, t) ==
    f = [j \in 0 .. n |-> IF j = 0 THEN <<i>>
                          ELSE Append(f[j - 1], Cell(prev, c, t, j, f[j - 1]))]

\* The loop over j of levenshteinDistance can be run to any entry.
LEMMA FillsExists ==
    ASSUME NEW prev, NEW c, NEW i, NEW t, NEW n \in Nat
    PROVE  \E f : Fills(f, n, prev, c, i, t)
<1> DEFINE Bad == {k \in Nat : ~ \E f : Fills(f, k, prev, c, i, t)}
<1>1. Bad = {}
  <2> SUFFICES ASSUME Bad # {} PROVE FALSE
    OBVIOUS
  <2>1. PICK k \in Bad : \A m \in Bad : k <= m
    BY LeastNumber
  <2>2. k # 0
    <3>1. Fills([j \in 0 .. 0 |-> <<i>>], 0, prev, c, i, t)
      BY DEF Fills
    <3> QED
      BY <3>1
  <2>3. k \in Nat /\ k - 1 \in Nat /\ k - 1 \notin Bad
    BY <2>1, <2>2
  <2>4. PICK f : Fills(f, k - 1, prev, c, i, t)
    BY <2>3
  <2> DEFINE g == [j \in 0 .. k |-> IF j < k THEN f[j]
                                    ELSE Append(f[k - 1], Cell(prev, c, t, k, f[k - 1]))]
  <2>5. \A j \in 0 .. k - 1 : g[j] = f[j]
    BY <2>3
  <2>6. \A j \in 0 .. k : g[j] = IF j = 0 THEN <<i>>
                                 ELSE Append(g[j - 1], Cell(prev, c, t, j, g[j - 1]))
    <3> SUFFICES ASSUME NEW j \in 0 .. k
                 PROVE  g[j] = IF j = 0 THEN <<i>>
                               ELSE Append(g[j - 1], Cell(prev, c, t, j, g[j - 1]))
      OBVIOUS
    <3>1. CASE j = k
      <4>1. g[j - 1] = f[k - 1]
        BY <2>3, <2>5, <3>1
      <4> QED
        BY <2>2, <3>1, <4>1
    <3>2. CASE j < k
      <4>1. f[j] = IF j = 0 THEN <<i>>
                   ELSE Append(f[j - 1], Cell(prev, c, t, j, f[j - 1]))
        <5>1. f = [l \in 0 .. k - 1 |-> IF l = 0 THEN <<i>>
                                       ELSE Append(f[l - 1], Cell(prev, c, t, l, f[l - 1]))]
          BY <2>4 DEF Fills
        <5>2. j \in 0 .. k - 1
          BY <2>3, <3>2
        <5> QED
          BY <5>1, <5>2, Zenon
      <4>2. g[j] = f[j] /\ (j # 0 => g[j - 1] = f[j - 1])
        BY <2>3, <2>5, <3>2
      <4> QED
        BY <4>1, <4>2
    <3> QED
      BY <2>3, <3>1, <3>2
  <2>7. Fills(g, k, prev, c, i, t)
    <3> HIDE DEF g
    <3>1. g = [j \in 0 .. k |-> g[j]]
      BY DEF g
    <3> QED
      BY <2>6, <3>1 DEF Fills
  <2> QED
    BY <2>1, <2>7
<1> QED
  BY <1>1

\* The shorter of two natural numbers is one of them and no longer than either.
LEMMA Shorter ==
    ASSUME NEW m \in Nat, NEW n \in Nat
    PROVE  /\ ShorterOf(m, n) \in Nat
           /\ ShorterOf(m, n) <= m /\ ShorterOf(m, n) <= n
           /\ ShorterOf(m, n) \in {m, n}
BY DEF ShorterOf

\* r is the row after prev for the letter c, as far as entry n.
IsRow(r, n, prev, c, i, t) ==
    /\ r \in Seq(Nat) /\ Len(r) = n + 1 /\ r[1] = i
    /\ \A j \in 1 .. n : r[j + 1] = Cell(prev, c, t, j, r)

\* One turn of the loop keeps what is filled and adds the next entry.
LEMMA RowGrows ==
    ASSUME NEW S, NEW t \in Seq(S), NEW c, NEW i \in Nat, NEW prev \in Seq(Nat),
           Len(prev) = Len(t) + 1, NEW n \in Nat, n < Len(t), NEW r, IsRow(r, n, prev, c, i, t)
    PROVE  IsRow(Append(r, Cell(prev, c, t, n + 1, r)), n + 1, prev, c, i, t)
<1> DEFINE x == Cell(prev, c, t, n + 1, r)
           q == Append(r, x)
<1>1. r \in Seq(Nat) /\ Len(r) = n + 1 /\ r[1] = i
  BY DEF IsRow
<1>2. prev[n + 1] \in Nat /\ prev[n + 2] \in Nat /\ r[n + 1] \in Nat
  BY <1>1
<1>3. x \in Nat
  <2> DEFINE cost == IF t[n + 1] = c THEN 0 ELSE 1
  <2>1. cost \in Nat /\ prev[n + 1] + cost \in Nat
    <3>1. cost = 0 \/ cost = 1
      OBVIOUS
    <3> HIDE DEF cost
    <3> QED
      BY <1>2, <3>1
  <2>2. prev[n + 2] + 1 \in Nat /\ r[n + 1] + 1 \in Nat
    <3>1. \A m \in Nat : m + 1 \in Nat
      OBVIOUS
    <3> QED
      BY <1>2, <3>1, Zenon
  <2>3. x = ShorterOf(ShorterOf(prev[n + 2] + 1, r[n + 1] + 1), prev[n + 1] + cost)
    <3>1. (n + 1) + 1 = n + 2
      OBVIOUS
    <3> QED
      BY <3>1 DEF Cell
  <2> HIDE DEF x, cost
  <2> QED
    BY <2>1, <2>2, <2>3, Shorter
<1> HIDE DEF x
<1>4. q \in Seq(Nat) /\ Len(q) = n + 2 /\ q[n + 2] = x /\ \A j \in 1 .. n + 1 : q[j] = r[j]
  BY <1>1, <1>3
<1> HIDE DEF q
<1>5. ASSUME NEW j \in 1 .. n + 1 PROVE q[j + 1] = Cell(prev, c, t, j, q)
  <2>1. Cell(prev, c, t, j, q) = Cell(prev, c, t, j, r)
    BY <1>4 DEF Cell
  <2>2. CASE j = n + 1
    <3>1. q[j + 1] = x
      BY <1>4, <2>2
    <3> QED
      BY <2>1, <2>2, <3>1 DEF x
  <2>3. CASE j \in 1 .. n
    <3>1. r[j + 1] = Cell(prev, c, t, j, r)
      BY <2>3 DEF IsRow
    <3>2. q[j + 1] = r[j + 1]
      BY <1>4, <2>3
    <3> QED
      BY <2>1, <3>1, <3>2
  <2> QED
    BY <2>2, <2>3
<1>6. q[1] = i /\ n + 1 \in Nat /\ Len(q) = (n + 1) + 1
  BY <1>1, <1>4
<1>7. IsRow(q, n + 1, prev, c, i, t)
  BY <1>4, <1>5, <1>6 DEF IsRow
<1> QED
  BY <1>7 DEF q, x

\* NextRow fills a whole row.
LEMMA RowFilled ==
    ASSUME NEW S, NEW t \in Seq(S), NEW c, NEW i \in Nat, NEW prev \in Seq(Nat),
           Len(prev) = Len(t) + 1
    PROVE  IsRow(NextRow(prev, c, i, t), Len(t), prev, c, i, t)
<1> DEFINE f == CHOOSE f : Fills(f, Len(t), prev, c, i, t)
<1>0. Len(t) \in Nat
  OBVIOUS
<1>1. NextRow(prev, c, i, t) = f[Len(t)]
  BY DEF NextRow, Fills, Cell
<1>2. Fills(f, Len(t), prev, c, i, t)
  BY <1>0, FillsExists
<1> HIDE DEF f
<1>3. \A j \in 0 .. Len(t) : f[j] = IF j = 0 THEN <<i>>
                                    ELSE Append(f[j - 1], Cell(prev, c, t, j, f[j - 1]))
  <2>1. f = [j \in 0 .. Len(t) |-> IF j = 0 THEN <<i>>
                                   ELSE Append(f[j - 1], Cell(prev, c, t, j, f[j - 1]))]
    BY <1>2 DEF Fills
  <2> QED
    BY <2>1, Zenon
<1> DEFINE Bad == {k \in Nat : k <= Len(t) /\ ~IsRow(f[k], k, prev, c, i, t)}
<1>4. Bad = {}
  <2> SUFFICES ASSUME Bad # {} PROVE FALSE
    OBVIOUS
  <2>1. PICK k \in Bad : \A m \in Bad : k <= m
    BY LeastNumber
  <2>2. k # 0
    <3>1. f[0] = <<i>>
      BY <1>0, <1>3
    <3>2. <<i>> \in Seq(Nat) /\ Len(<<i>>) = 0 + 1 /\ <<i>>[1] = i
      OBVIOUS
    <3>3. IsRow(<<i>>, 0, prev, c, i, t)
      BY <3>2 DEF IsRow
    <3> QED
      BY <2>1, <3>1, <3>3
  <2>3. k - 1 \in Nat /\ k - 1 < Len(t) /\ k - 1 \notin Bad /\ k - 1 <= Len(t) /\ (k - 1) + 1 = k
    BY <1>0, <2>1, <2>2
  <2>4. IsRow(f[k - 1], k - 1, prev, c, i, t)
    BY <2>3
  <2>5. f[k] = Append(f[k - 1], Cell(prev, c, t, k, f[k - 1]))
    <3>1. k \in 0 .. Len(t)
      BY <1>0, <2>1
    <3> QED
      BY <1>3, <2>2, <3>1, Zenon
  <2>6. IsRow(Append(f[k - 1], Cell(prev, c, t, (k - 1) + 1, f[k - 1])), (k - 1) + 1, prev, c, i, t)
    <3> DEFINE n == k - 1
               r == f[k - 1]
    <3>1. n \in Nat /\ n < Len(t) /\ IsRow(r, n, prev, c, i, t)
      BY <2>3, <2>4
    <3> HIDE DEF n, r
    <3>2. IsRow(Append(r, Cell(prev, c, t, n + 1, r)), n + 1, prev, c, i, t)
      BY <3>1, RowGrows
    <3> QED
      BY <3>2 DEF n, r
  <2> QED
    BY <2>1, <2>3, <2>5, <2>6
<1> QED
  BY <1>0, <1>1, <1>4

FirstRow(t) == [j \in 1 .. Len(t) + 1 |-> j - 1]

\* f holds the first n rows of the table after the row for no letter.
Rows(f, n, s, t) ==
    f = [i \in 0 .. n |-> IF i = 0 THEN FirstRow(t) ELSE NextRow(f[i - 1], s[i], i, t)]

\* The loop over i of levenshteinDistance can be run to any row.
LEMMA RowsExist ==
    ASSUME NEW s, NEW t, NEW n \in Nat
    PROVE  \E f : Rows(f, n, s, t)
<1> DEFINE Bad == {k \in Nat : ~ \E f : Rows(f, k, s, t)}
<1>1. Bad = {}
  <2> SUFFICES ASSUME Bad # {} PROVE FALSE
    OBVIOUS
  <2>1. PICK k \in Bad : \A m \in Bad : k <= m
    BY LeastNumber
  <2>2. k # 0
    <3>1. Rows([i \in 0 .. 0 |-> FirstRow(t)], 0, s, t)
      BY DEF Rows
    <3> QED
      BY <3>1
  <2>3. k \in Nat /\ k - 1 \in Nat /\ k - 1 \notin Bad
    BY <2>1, <2>2
  <2>4. PICK f : Rows(f, k - 1, s, t)
    BY <2>3
  <2> DEFINE g == [i \in 0 .. k |-> IF i < k THEN f[i] ELSE NextRow(f[k - 1], s[k], k, t)]
  <2>5. \A i \in 0 .. k - 1 : g[i] = f[i]
    BY <2>3
  <2>6. \A i \in 0 .. k : g[i] = IF i = 0 THEN FirstRow(t) ELSE NextRow(g[i - 1], s[i], i, t)
    <3> SUFFICES ASSUME NEW i \in 0 .. k
                 PROVE  g[i] = IF i = 0 THEN FirstRow(t) ELSE NextRow(g[i - 1], s[i], i, t)
      OBVIOUS
    <3>1. CASE i = k
      <4>1. g[i - 1] = f[k - 1]
        BY <2>3, <2>5, <3>1
      <4> QED
        BY <2>2, <3>1, <4>1
    <3>2. CASE i < k
      <4>1. f[i] = IF i = 0 THEN FirstRow(t) ELSE NextRow(f[i - 1], s[i], i, t)
        <5>1. f = [l \in 0 .. k - 1 |-> IF l = 0 THEN FirstRow(t)
                                       ELSE NextRow(f[l - 1], s[l], l, t)]
          BY <2>4 DEF Rows
        <5>2. i \in 0 .. k - 1
          BY <2>3, <3>2
        <5> QED
          BY <5>1, <5>2, Zenon
      <4>2. g[i] = f[i] /\ (i # 0 => g[i - 1] = f[i - 1])
        BY <2>3, <2>5, <3>2
      <4> QED
        BY <4>1, <4>2
    <3> QED
      BY <2>3, <3>1, <3>2
  <2>7. Rows(g, k, s, t)
    <3> HIDE DEF g
    <3>1. g = [i \in 0 .. k |-> g[i]]
      BY DEF g
    <3> QED
      BY <2>6, <3>1 DEF Rows
  <2> QED
    BY <2>1, <2>7
<1> QED
  BY <1>1

Cost(a, b) == IF b = a THEN 0 ELSE 1

\* d[i][j] is what the algorithm knows of the first i letters of s and the
\* first j of t: an edge of the table, or the best of three neighbours.
IsTable(d, s, t) ==
    /\ d \in [0 .. Len(s) -> [0 .. Len(t) -> Nat]]
    /\ \A j \in 0 .. Len(t) : d[0][j] = j
    /\ \A i \in 0 .. Len(s) : d[i][0] = i
    /\ \A i \in 1 .. Len(s), j \in 1 .. Len(t) :
          LET best == {d[i - 1][j] + 1, d[i][j - 1] + 1, d[i - 1][j - 1] + Cost(s[i], t[j])}
          IN  d[i][j] \in best /\ \A b \in best : d[i][j] <= b

\* levenshteinDistance computes the last entry of such a table.
LEMMA TableExists ==
    ASSUME NEW S, NEW s \in Seq(S), NEW t \in Seq(S)
    PROVE  \E d : IsTable(d, s, t) /\ levenshteinDistance(s, t) = d[Len(s)][Len(t)]
<1> DEFINE f == CHOOSE f : Rows(f, Len(s), s, t)
           m == Len(s)
           n == Len(t)
<1>0. m \in Nat /\ n \in Nat
  OBVIOUS
<1>1. levenshteinDistance(s, t) = f[Len(s)][Len(t) + 1]
  BY DEF levenshteinDistance, Rows, FirstRow
<1>2. Rows(f, Len(s), s, t)
  BY <1>0, RowsExist
<1> HIDE DEF f
<1>3. \A i \in 0 .. Len(s) : f[i] = IF i = 0 THEN FirstRow(t) ELSE NextRow(f[i - 1], s[i], i, t)
  <2>1. f = [i \in 0 .. Len(s) |-> IF i = 0 THEN FirstRow(t) ELSE NextRow(f[i - 1], s[i], i, t)]
    BY <1>2 DEF Rows
  <2> QED
    BY <2>1, Zenon
<1>4. FirstRow(t) \in Seq(Nat) /\ Len(FirstRow(t)) = n + 1 /\ \A j \in 0 .. n : FirstRow(t)[j + 1] = j
  BY <1>0 DEF FirstRow
<1> DEFINE Good(k) == /\ f[k] \in Seq(Nat) /\ Len(f[k]) = Len(t) + 1
                      /\ k # 0 => IsRow(f[k], Len(t), f[k - 1], s[k], k, t)
           Bad == {k \in Nat : k <= Len(s) /\ ~Good(k)}
<1>5. Bad = {}
  <2> SUFFICES ASSUME Bad # {} PROVE FALSE
    OBVIOUS
  <2>1. PICK k \in Bad : \A l \in Bad : k <= l
    BY LeastNumber
  <2>2. k # 0
    <3>1. f[0] = FirstRow(t)
      BY <1>0, <1>3
    <3> QED
      BY <1>4, <2>1, <3>1
  <2>3. k - 1 \in Nat /\ k - 1 <= Len(s) /\ k - 1 \notin Bad /\ k \in 0 .. Len(s) /\ k \in Nat
    BY <1>0, <2>1, <2>2
  <2>4. f[k - 1] \in Seq(Nat) /\ Len(f[k - 1]) = Len(t) + 1
    BY <2>3
  <2>5. f[k] = NextRow(f[k - 1], s[k], k, t)
    BY <1>3, <2>2, <2>3, Zenon
  <2>6. IsRow(NextRow(f[k - 1], s[k], k, t), Len(t), f[k - 1], s[k], k, t)
    BY <2>3, <2>4, RowFilled
  <2>7. Good(k)
    BY <2>5, <2>6 DEF IsRow
  <2> QED
    BY <2>1, <2>7
<1>6. \A k \in 0 .. Len(s) : Good(k)
  <2>1. \A k \in 0 .. Len(s) : k \in Nat /\ k <= Len(s)
    BY <1>0
  <2> HIDE DEF Good
  <2> QED
    BY <1>5, <2>1, Zenon
<1> HIDE DEF Bad
<1> DEFINE d == [i \in 0 .. Len(s) |-> [j \in 0 .. Len(t) |-> f[i][j + 1]]]
<1>7. \A i \in 0 .. Len(s), j \in 0 .. Len(t) : d[i][j] = f[i][j + 1] /\ f[i][j + 1] \in Nat
  BY <1>0, <1>6
<1>8. d \in [0 .. Len(s) -> [0 .. Len(t) -> Nat]]
  BY <1>7
<1>9. \A j \in 0 .. Len(t) : d[0][j] = j
  <2>1. f[0] = FirstRow(t)
    BY <1>0, <1>3
  <2> QED
    BY <1>0, <1>4, <1>7, <2>1
<1> HIDE DEF d
<1>10. \A i \in 0 .. Len(s) : d[i][0] = i
  <2> SUFFICES ASSUME NEW i \in 0 .. Len(s) PROVE d[i][0] = i
    OBVIOUS
  <2>1. CASE i = 0
    BY <1>0, <1>9, <2>1
  <2>2. CASE i # 0
    <3>1. f[i][1] = i
      BY <1>6, <2>2 DEF IsRow
    <3> QED
      BY <1>0, <1>7, <3>1
  <2> QED
    BY <2>1, <2>2
<1>11. ASSUME NEW i \in 1 .. Len(s), NEW j \in 1 .. Len(t)
       PROVE  LET best == {d[i - 1][j] + 1, d[i][j - 1] + 1, d[i - 1][j - 1] + Cost(s[i], t[j])}
              IN  d[i][j] \in best /\ \A b \in best : d[i][j] <= b
  <2>1. i \in 0 .. Len(s) /\ i - 1 \in 0 .. Len(s) /\ j \in 0 .. Len(t) /\ j - 1 \in 0 .. Len(t) /\ i # 0
        /\ (j - 1) + 1 = j
    BY <1>0
  <2>2. IsRow(f[i], Len(t), f[i - 1], s[i], i, t)
    BY <1>6, <2>1
  <2>3. f[i][j + 1] = Cell(f[i - 1], s[i], t, j, f[i])
    BY <2>2 DEF IsRow
  <2>4. /\ d[i][j] = f[i][j + 1] /\ d[i - 1][j] = f[i - 1][j + 1]
        /\ d[i][j - 1] = f[i][j] /\ d[i - 1][j - 1] = f[i - 1][j]
        /\ d[i - 1][j] \in Nat /\ d[i][j - 1] \in Nat /\ d[i - 1][j - 1] \in Nat
    BY <1>7, <2>1
  <2> DEFINE u == d[i - 1][j] + 1
             l == d[i][j - 1] + 1
             g == d[i - 1][j - 1] + Cost(s[i], t[j])
  <2>5. d[i][j] = ShorterOf(ShorterOf(u, l), g)
    BY <2>3, <2>4 DEF Cell, Cost
  <2>6. u \in Nat /\ l \in Nat /\ g \in Nat
    <3>1. Cost(s[i], t[j]) \in {0, 1}
      BY DEF Cost
    <3>2. \A x \in Nat, y \in {0, 1} : x + 1 \in Nat /\ x + y \in Nat
      OBVIOUS
    <3> QED
      BY <2>4, <3>1, <3>2, Zenon
  <2> HIDE DEF u, l, g
  <2>7. d[i][j] \in {u, l, g} /\ d[i][j] <= u /\ d[i][j] <= l /\ d[i][j] <= g
    BY <2>5, <2>6 DEF ShorterOf
  <2> QED
    BY <2>7 DEF u, l, g
<1>12. IsTable(d, s, t)
  BY <1>8, <1>9, <1>10, <1>11 DEF IsTable
<1>13. levenshteinDistance(s, t) = d[Len(s)][Len(t)]
  BY <1>0, <1>1, <1>7
<1> QED
  BY <1>12, <1>13

\* What holds of zero and goes from each number to the next holds up to n.
LEMMA Upward ==
    ASSUME NEW n \in Nat, NEW G, 0 \in G, \A k \in 0 .. n : k # 0 /\ k - 1 \in G => k \in G
    PROVE  \A k \in 0 .. n : k \in G
<1> DEFINE Bad == {k \in Nat : k <= n /\ k \notin G}
<1>1. Bad = {}
  <2> SUFFICES ASSUME Bad # {} PROVE FALSE
    OBVIOUS
  <2>1. PICK k \in Bad : \A m \in Bad : k <= m
    BY LeastNumber
  <2>2. k # 0 /\ k - 1 \in Nat /\ k - 1 <= n /\ k - 1 \notin Bad /\ k \in 0 .. n
    BY <2>1
  <2> QED
    BY <2>1, <2>2
<1> QED
  BY <1>1

\* The edges and the type of the table.
LEMMA TableEdge ==
    ASSUME NEW S, NEW s \in Seq(S), NEW t \in Seq(S), NEW d, IsTable(d, s, t)
    PROVE  /\ Len(s) \in Nat /\ Len(t) \in Nat
           /\ \A i \in 0 .. Len(s), j \in 0 .. Len(t) : d[i][j] \in Nat
           /\ \A j \in 0 .. Len(t) : d[0][j] = j
           /\ \A i \in 0 .. Len(s) : d[i][0] = i
<1>1. d \in [0 .. Len(s) -> [0 .. Len(t) -> Nat]]
  BY DEF IsTable
<1>2. ASSUME NEW i \in 0 .. Len(s), NEW j \in 0 .. Len(t) PROVE d[i][j] \in Nat
  <2>1. d[i] \in [0 .. Len(t) -> Nat]
    BY <1>1
  <2> QED
    BY <2>1
<1>3. (\A j \in 0 .. Len(t) : d[0][j] = j) /\ (\A i \in 0 .. Len(s) : d[i][0] = i)
  BY Zenon DEF IsTable
<1> QED
  BY <1>2, <1>3

\* What one inner entry of the table has to do with its neighbours.
LEMMA TableStep ==
    ASSUME NEW S, NEW s \in Seq(S), NEW t \in Seq(S), NEW d, IsTable(d, s, t),
           NEW i \in 1 .. Len(s), NEW j \in 1 .. Len(t)
    PROVE  /\ d[i - 1][j] \in Nat /\ d[i][j - 1] \in Nat /\ d[i - 1][j - 1] \in Nat /\ d[i][j] \in Nat
           /\ d[i][j] <= d[i - 1][j] + 1 /\ d[i][j] <= d[i][j - 1] + 1
           /\ d[i][j] <= d[i - 1][j - 1] + 1
           /\ s[i] = t[j] => d[i][j] <= d[i - 1][j - 1]
           /\ \/ d[i][j] = d[i - 1][j] + 1
              \/ d[i][j] = d[i][j - 1] + 1
              \/ d[i][j] = d[i - 1][j - 1] + 1
              \/ s[i] = t[j] /\ d[i][j] = d[i - 1][j - 1]
<1>1. i \in 0 .. Len(s) /\ i - 1 \in 0 .. Len(s) /\ j \in 0 .. Len(t) /\ j - 1 \in 0 .. Len(t)
  OBVIOUS
<1>2. d[i - 1][j] \in Nat /\ d[i][j - 1] \in Nat /\ d[i - 1][j - 1] \in Nat /\ d[i][j] \in Nat
  BY <1>1, TableEdge
<1> DEFINE x == d[i][j]
           u == d[i - 1][j]
           l == d[i][j - 1]
           g == d[i - 1][j - 1]
           c == Cost(s[i], t[j])
<1>3. x \in {u + 1, l + 1, g + c} /\ x <= u + 1 /\ x <= l + 1 /\ x <= g + c
  BY DEF IsTable
<1>4. c \in {0, 1} /\ (s[i] = t[j] <=> c = 0)
  BY DEF Cost
<1>5. x \in Nat /\ u \in Nat /\ l \in Nat /\ g \in Nat
  BY <1>2
<1> HIDE DEF x, u, l, g, c
<1>6. /\ x <= u + 1 /\ x <= l + 1 /\ x <= g + 1 /\ (c = 0 => x <= g)
      /\ x = u + 1 \/ x = l + 1 \/ x = g + 1 \/ (c = 0 /\ x = g)
  BY <1>3, <1>4, <1>5
<1>7. s[i] = t[j] <=> c = 0
  BY <1>4
<1> QED
  BY <1>5, <1>6, <1>7 DEF x, u, l, g

\* An entry is at most one more than the one on its left.
LEMMA TableRight ==
    ASSUME NEW S, NEW s \in Seq(S), NEW t \in Seq(S), NEW d, IsTable(d, s, t),
           NEW i \in 0 .. Len(s), NEW j \in 1 .. Len(t)
    PROVE  d[i][j] <= d[i][j - 1] + 1
<1>1. CASE i = 0
  <2>1. d[0][j] = j /\ d[0][j - 1] = j - 1
    BY TableEdge
  <2> QED
    BY <1>1, <2>1
<1>2. CASE i # 0
  <2>1. i \in 1 .. Len(s)
    BY <1>2
  <2> QED
    BY <2>1, TableStep
<1> QED
  BY <1>1, <1>2

\* Nor is it more than one above the entry of the row before.
LEMMA TableDown ==
    ASSUME NEW S, NEW s \in Seq(S), NEW t \in Seq(S), NEW d, IsTable(d, s, t),
           NEW i \in 1 .. Len(s), NEW j \in 0 .. Len(t)
    PROVE  d[i][j] <= d[i - 1][j] + 1
<1>1. CASE j = 0
  <2>1. d[i][0] = i /\ d[i - 1][0] = i - 1
    BY TableEdge
  <2> QED
    BY <1>1, <2>1
<1>2. CASE j # 0
  <2>1. j \in 1 .. Len(t)
    BY <1>2
  <2> QED
    BY <2>1, TableStep
<1> QED
  BY <1>1, <1>2

\* And the entry of the row before is at most one more than it.
LEMMA TableUp ==
    ASSUME NEW S, NEW s \in Seq(S), NEW t \in Seq(S), NEW d, IsTable(d, s, t),
           NEW i \in 1 .. Len(s)
    PROVE  \A j \in 0 .. Len(t) : d[i - 1][j] <= d[i][j] + 1
<1> DEFINE G == {j \in 0 .. Len(t) : d[i - 1][j] <= d[i][j] + 1}
<1>1. Len(t) \in Nat /\ i \in 0 .. Len(s) /\ i - 1 \in 0 .. Len(s)
  OBVIOUS
<1>2. 0 \in G
  <2>1. d[i][0] = i /\ d[i - 1][0] = i - 1
    BY <1>1, TableEdge
  <2> QED
    BY <1>1, <2>1
<1>3. ASSUME NEW j \in 0 .. Len(t), j # 0, j - 1 \in G PROVE j \in G
  <2>1. j \in 1 .. Len(t)
    BY <1>3
  <2> DEFINE x == d[i][j]
             u == d[i - 1][j]
             l == d[i][j - 1]
             g == d[i - 1][j - 1]
  <2>2. u <= g + 1
    BY <1>1, <2>1, TableRight
  <2>3. g <= l + 1
    BY <1>3
  <2>4. /\ x \in Nat /\ u \in Nat /\ l \in Nat /\ g \in Nat
        /\ x = u + 1 \/ x = l + 1 \/ x = g + 1 \/ x = g
    BY <2>1, TableStep
  <2> HIDE DEF x, u, l, g
  <2>5. u <= x + 1
    BY <2>2, <2>3, <2>4
  <2> QED
    BY <2>5 DEF x, u
<1>4. \A j \in 0 .. Len(t) : j \in G
  <2> HIDE DEF G
  <2> QED
    BY <1>1, <1>2, <1>3, Upward
<1> QED
  BY <1>4

\* An entry of zero means that the two beginnings are the same.
LEMMA ZeroMeansEqual ==
    ASSUME NEW S, NEW s \in Seq(S), NEW t \in Seq(S), NEW d, IsTable(d, s, t)
    PROVE  \A i \in 0 .. Len(s) : \A j \in 0 .. Len(t) :
              d[i][j] = 0 => i = j /\ \A k \in 1 .. i : s[k] = t[k]
<1> DEFINE P(i) == \A j \in 0 .. Len(t) : d[i][j] = 0 => i = j /\ \A k \in 1 .. i : s[k] = t[k]
           G == {i \in 0 .. Len(s) : P(i)}
<1>1. Len(s) \in Nat /\ Len(t) \in Nat
  OBVIOUS
<1>2. 0 \in G
  <2>1. \A j \in 0 .. Len(t) : d[0][j] = j
    BY TableEdge
  <2> QED
    BY <1>1, <2>1
<1>3. ASSUME NEW i \in 0 .. Len(s), i # 0, i - 1 \in G PROVE i \in G
  <2>1. i \in 1 .. Len(s) /\ i - 1 \in 0 .. Len(s)
    BY <1>3
  <2>2. P(i - 1)
    BY <1>3
  <2>3. ASSUME NEW j \in 0 .. Len(t), d[i][j] = 0 PROVE i = j /\ \A k \in 1 .. i : s[k] = t[k]
    <3>1. j # 0
      <4>1. d[i][0] = i
        BY TableEdge
      <4> QED
        BY <1>3, <2>3, <4>1
    <3>2. j \in 1 .. Len(t) /\ j - 1 \in 0 .. Len(t)
      BY <3>1
    <3>3. s[i] = t[j] /\ d[i - 1][j - 1] = 0
      <4>1. /\ d[i - 1][j] \in Nat /\ d[i][j - 1] \in Nat /\ d[i - 1][j - 1] \in Nat
            /\ \/ d[i][j] = d[i - 1][j] + 1
               \/ d[i][j] = d[i][j - 1] + 1
               \/ d[i][j] = d[i - 1][j - 1] + 1
               \/ s[i] = t[j] /\ d[i][j] = d[i - 1][j - 1]
        BY <2>1, <3>2, TableStep
      <4>2. \A m \in Nat : m + 1 # 0
        OBVIOUS
      <4> QED
        BY <2>3, <4>1, <4>2, Zenon
    <3>4. i - 1 = j - 1 /\ \A k \in 1 .. i - 1 : s[k] = t[k]
      BY <2>2, <3>2, <3>3
    <3>5. i = j
      BY <3>4
    <3> QED
      BY <3>3, <3>4, <3>5
  <2> QED
    BY <2>3
<1>4. \A i \in 0 .. Len(s) : i \in G
  <2> HIDE DEF G
  <2> QED
    BY <1>1, <1>2, <1>3, Upward
<1> QED
  BY <1>4

\* Different names have a positive distance.
LEMMA ZeroDistance ==
    ASSUME NEW S, NEW s \in Seq(S), NEW t \in Seq(S), levenshteinDistance(s, t) = 0
    PROVE  s = t
<1>1. PICK d : IsTable(d, s, t) /\ levenshteinDistance(s, t) = d[Len(s)][Len(t)]
  BY TableExists
<1>2. Len(s) \in 0 .. Len(s) /\ Len(t) \in 0 .. Len(t)
  OBVIOUS
<1>3. Len(s) = Len(t) /\ \A k \in 1 .. Len(s) : s[k] = t[k]
  BY <1>1, <1>2, ZeroMeansEqual
<1> QED
  BY <1>3

\* A name has no distance from itself.
LEMMA SelfDistance ==
    ASSUME NEW S, NEW t \in Seq(S)
    PROVE  levenshteinDistance(t, t) = 0
<1>1. PICK d : IsTable(d, t, t) /\ levenshteinDistance(t, t) = d[Len(t)][Len(t)]
  BY TableExists
<1> DEFINE G == {i \in 0 .. Len(t) : d[i][i] = 0}
<1>2. Len(t) \in Nat /\ Len(t) \in 0 .. Len(t)
  OBVIOUS
<1>3. 0 \in G
  BY <1>1, <1>2, TableEdge
<1>4. ASSUME NEW i \in 0 .. Len(t), i # 0, i - 1 \in G PROVE i \in G
  <2>1. i \in 1 .. Len(t)
    BY <1>4
  <2>2. d[i][i] \in Nat /\ d[i][i] <= d[i - 1][i - 1]
    BY <1>1, <2>1, TableStep
  <2> QED
    BY <1>4, <2>2
<1>5. \A i \in 0 .. Len(t) : i \in G
  <2> HIDE DEF G
  <2> QED
    BY <1>2, <1>3, <1>4, Upward
<1> QED
  BY <1>1, <1>2, <1>5

\* levenshteinDistance is zero for equal names and for no others, so that an
\* imitation is never taken for the name itself.
THEOREM DistanceZeroIffEqual ==
    \A S : \A s, t \in Seq(S) : levenshteinDistance(s, t) = 0 <=> s = t
BY ZeroDistance, SelfDistance

\* Row b of table e is at most k above row a of table d.
Within(e, b, d, a, k, n) == \A j \in 0 .. n : e[b][j] <= d[a][j] + k

\* Two names that go on with the same letter keep the difference between their
\* rows; with another letter it grows by one at most.
LEMMA OneLetter ==
    ASSUME NEW S, NEW s \in Seq(S), NEW u \in Seq(S), NEW t \in Seq(S),
           NEW d, IsTable(d, s, t), NEW e, IsTable(e, u, t),
           NEW a \in 1 .. Len(s), NEW b \in 1 .. Len(u), NEW h \in Nat, NEW k \in Nat,
           (k = h /\ s[a] = u[b]) \/ k = h + 1,
           b <= a + k,
           Within(e, b - 1, d, a - 1, h, Len(t))
    PROVE  Within(e, b, d, a, k, Len(t))
<1> DEFINE G == {j \in 0 .. Len(t) : e[b][j] <= d[a][j] + k}
<1>1. Len(t) \in Nat /\ a \in 0 .. Len(s) /\ b \in 0 .. Len(u) /\ a \in Nat /\ b \in Nat
  OBVIOUS
<1>2. 0 \in G
  <2>1. d[a][0] = a /\ e[b][0] = b
    BY <1>1, TableEdge
  <2> QED
    BY <1>1, <2>1
<1>3. ASSUME NEW j \in 0 .. Len(t), j # 0, j - 1 \in G PROVE j \in G
  <2>1. j \in 1 .. Len(t) /\ j - 1 \in 0 .. Len(t)
    BY <1>3
  <2> DEFINE x == d[a][j]
             y == d[a - 1][j]
             z == d[a][j - 1]
             w == d[a - 1][j - 1]
             p == e[b][j]
             q == e[b - 1][j]
             r == e[b][j - 1]
             v == e[b - 1][j - 1]
  <2>2. /\ x \in Nat /\ y \in Nat /\ z \in Nat /\ w \in Nat
        /\ x = y + 1 \/ x = z + 1 \/ x = w + 1 \/ (s[a] = t[j] /\ x = w)
    BY <2>1, TableStep
  <2>3. /\ p \in Nat /\ q \in Nat /\ r \in Nat /\ v \in Nat
        /\ p <= q + 1 /\ p <= r + 1 /\ p <= v + 1 /\ (u[b] = t[j] => p <= v)
    BY <2>1, TableStep
  <2>4. q <= y + h /\ v <= w + h /\ r <= z + k
    BY <1>3, <2>1 DEF Within
  <2> HIDE DEF x, y, z, w, p, q, r, v
  <2>5. CASE k = h /\ s[a] = u[b]
    <3>1. s[a] = t[j] => p <= v
      BY <2>3, <2>5
    <3>2. p <= x + k
      BY <2>2, <2>3, <2>4, <2>5, <3>1
    <3> QED
      BY <3>2 DEF p, x
  <2>6. CASE k = h + 1
    <3>1. p <= x + k
      BY <2>2, <2>3, <2>4, <2>6
    <3> QED
      BY <3>1 DEF p, x
  <2> QED
    BY <2>5, <2>6
<1>4. \A j \in 0 .. Len(t) : j \in G
  <2> HIDE DEF G
  <2> QED
    BY <1>1, <1>2, <1>3, Upward
<1> QED
  BY <1>4 DEF Within

\* The same letters keep the difference, however many there are.
LEMMA SameLetters ==
    ASSUME NEW S, NEW s \in Seq(S), NEW u \in Seq(S), NEW t \in Seq(S),
           NEW d, IsTable(d, s, t), NEW e, IsTable(e, u, t),
           NEW a \in Nat, NEW b \in Nat, NEW r \in Nat, NEW k \in Nat,
           a + r <= Len(s), b + r <= Len(u), b <= a + k,
           \A x \in 1 .. r : s[a + x] = u[b + x],
           Within(e, b, d, a, k, Len(t))
    PROVE  Within(e, b + r, d, a + r, k, Len(t))
<1> DEFINE G == {x \in 0 .. r : Within(e, b + x, d, a + x, k, Len(t))}
<1>1. 0 \in G
  <2>1. a + 0 = a /\ b + 0 = b /\ 0 \in 0 .. r
    OBVIOUS
  <2> QED
    BY <2>1
<1>2. ASSUME NEW x \in 0 .. r, x # 0, x - 1 \in G PROVE x \in G
  <2> DEFINE p == a + x
             q == b + x
  <2>1. p \in 1 .. Len(s) /\ q \in 1 .. Len(u) /\ q <= p + k /\ x \in 1 .. r
    BY <1>2
  <2>2. a + (x - 1) = p - 1 /\ b + (x - 1) = q - 1
    OBVIOUS
  <2>3. Within(e, q - 1, d, p - 1, k, Len(t))
    BY <1>2, <2>2
  <2>4. s[p] = u[q]
    BY <2>1
  <2> HIDE DEF p, q
  <2>5. Within(e, q, d, p, k, Len(t))
    BY <2>1, <2>3, <2>4, OneLetter
  <2> QED
    BY <2>5 DEF p, q
<1>3. \A x \in 0 .. r : x \in G
  <2> HIDE DEF G
  <2> QED
    BY <1>1, <1>2, Upward
<1>4. r \in 0 .. r
  OBVIOUS
<1> QED
  BY <1>3, <1>4

\* u is s with something else after the first m letters: one letter more, one
\* letter less, one other letter, or (when m is zero) three letters more.
Edit(u, s, m, p, q, k) ==
    /\ m \in 0 .. Len(s) /\ m \in 0 .. Len(u) /\ p \in 0 .. Len(s) /\ q \in 0 .. Len(u)
    /\ Len(u) - q = Len(s) - p
    /\ \A x \in 1 .. m : s[x] = u[x]
    /\ \A x \in 1 .. Len(s) - p : s[p + x] = u[q + x]
    /\ \/ p = m /\ q = m + 1 /\ k = 1
       \/ p = m + 1 /\ q = m /\ k = 1
       \/ p = m + 1 /\ q = m + 1 /\ k = 1
       \/ m = 0 /\ p = 0 /\ q = 3 /\ k = 3

\* Such an edit moves a name by no more than its cost.
LEMMA EditCost ==
    ASSUME NEW S, NEW s \in Seq(S), NEW u \in Seq(S), NEW t \in Seq(S),
           NEW m, NEW p, NEW q, NEW k, Edit(u, s, m, p, q, k)
    PROVE  /\ levenshteinDistance(s, t) \in Nat /\ levenshteinDistance(u, t) \in Nat
           /\ levenshteinDistance(u, t) <= levenshteinDistance(s, t) + k
<1>1. PICK d : IsTable(d, s, t) /\ levenshteinDistance(s, t) = d[Len(s)][Len(t)]
  BY TableExists
<1>2. PICK e : IsTable(e, u, t) /\ levenshteinDistance(u, t) = e[Len(u)][Len(t)]
  BY TableExists
<1>3. /\ m \in Nat /\ p \in Nat /\ q \in Nat /\ k \in Nat
      /\ Len(s) \in Nat /\ Len(u) \in Nat /\ Len(t) \in Nat
      /\ m <= Len(s) /\ m <= Len(u) /\ p <= Len(s) /\ q <= Len(u)
      /\ q <= p + k
  BY DEF Edit
<1>4. /\ \A i \in 0 .. Len(s), j \in 0 .. Len(t) : d[i][j] \in Nat
      /\ \A i \in 0 .. Len(u), j \in 0 .. Len(t) : e[i][j] \in Nat
      /\ \A j \in 0 .. Len(t) : d[0][j] = j /\ e[0][j] = j
  BY <1>1, <1>2, TableEdge
<1>5. Within(e, m, d, m, 0, Len(t))
  <2>1. Within(e, 0, d, 0, 0, Len(t))
    BY <1>4 DEF Within
  <2>2. \A x \in 1 .. m : s[0 + x] = u[0 + x]
    BY DEF Edit
  <2>3. 0 + m <= Len(s) /\ 0 + m <= Len(u) /\ 0 <= 0 + 0 /\ 0 \in Nat
    BY <1>3
  <2>4. Within(e, 0 + m, d, 0 + m, 0, Len(t))
    <3> DEFINE z == 0
    <3>1. /\ Within(e, z, d, z, z, Len(t)) /\ z \in Nat
          /\ \A x \in 1 .. m : s[z + x] = u[z + x]
          /\ z + m <= Len(s) /\ z + m <= Len(u) /\ z <= z + z
      BY <2>1, <2>2, <2>3
    <3> HIDE DEF z
    <3>2. Within(e, z + m, d, z + m, z, Len(t))
      BY <1>1, <1>2, <1>3, <3>1, SameLetters
    <3> QED
      BY <3>2 DEF z
  <2>5. 0 + m = m
    BY <1>3
  <2> QED
    BY <2>4, <2>5
<1>6. \A j \in 0 .. Len(t) : d[m][j] \in Nat /\ e[m][j] \in Nat /\ e[m][j] <= d[m][j]
  <2> SUFFICES ASSUME NEW j \in 0 .. Len(t)
               PROVE  d[m][j] \in Nat /\ e[m][j] \in Nat /\ e[m][j] <= d[m][j]
    OBVIOUS
  <2>1. m \in 0 .. Len(s) /\ m \in 0 .. Len(u)
    BY DEF Edit
  <2>2. d[m][j] \in Nat /\ e[m][j] \in Nat
    BY <1>4, <2>1
  <2>3. e[m][j] <= d[m][j] + 0
    BY <1>5 DEF Within
  <2> QED
    BY <2>2, <2>3
<1>7. Within(e, q, d, p, k, Len(t))
  <2>1. CASE p = m /\ q = m + 1 /\ k = 1
    <3> SUFFICES ASSUME NEW j \in 0 .. Len(t) PROVE e[m + 1][j] <= d[m][j] + 1
      BY <2>1 DEF Within
    <3>1. m + 1 \in 1 .. Len(u) /\ m + 1 \in 0 .. Len(u) /\ (m + 1) - 1 = m
      BY <1>3, <2>1
    <3>2. e[m + 1][j] <= e[m][j] + 1
      <4> DEFINE i == m + 1
      <4>1. i \in 1 .. Len(u)
        BY <3>1
      <4> HIDE DEF i
      <4>2. e[i][j] <= e[i - 1][j] + 1
        BY <1>2, <4>1, TableDown
      <4> QED
        BY <3>1, <4>2 DEF i
    <3>3. e[m + 1][j] \in Nat
      BY <1>4, <3>1
    <3> QED
      BY <1>6, <3>2, <3>3
  <2>2. CASE p = m + 1 /\ q = m /\ k = 1
    <3> SUFFICES ASSUME NEW j \in 0 .. Len(t) PROVE e[m][j] <= d[m + 1][j] + 1
      BY <2>2 DEF Within
    <3>1. m + 1 \in 1 .. Len(s) /\ m + 1 \in 0 .. Len(s) /\ (m + 1) - 1 = m
      BY <1>3, <2>2
    <3>2. d[m][j] <= d[m + 1][j] + 1
      <4> DEFINE i == m + 1
      <4>1. i \in 1 .. Len(s)
        BY <3>1
      <4> HIDE DEF i
      <4>2. d[i - 1][j] <= d[i][j] + 1
        BY <1>1, <4>1, TableUp
      <4> QED
        BY <3>1, <4>2 DEF i
    <3>3. d[m + 1][j] \in Nat
      BY <1>4, <3>1
    <3> QED
      BY <1>6, <3>2, <3>3
  <2>3. CASE p = m + 1 /\ q = m + 1 /\ k = 1
    <3> DEFINE h == 0
    <3>1. /\ p \in 1 .. Len(s) /\ q \in 1 .. Len(u) /\ p - 1 = m /\ q - 1 = m
          /\ h \in Nat /\ k = h + 1
      BY <1>3, <2>3
    <3>2. Within(e, q - 1, d, p - 1, h, Len(t))
      BY <1>5, <3>1
    <3> HIDE DEF h
    <3> QED
      BY <1>1, <1>2, <1>3, <3>1, <3>2, OneLetter
  <2>4. CASE m = 0 /\ p = 0 /\ q = 3 /\ k = 3
    <3> SUFFICES ASSUME NEW j \in 0 .. Len(t) PROVE e[3][j] <= d[0][j] + 3
      BY <2>4 DEF Within
    <3>1. 1 \in 1 .. Len(u) /\ 2 \in 1 .. Len(u) /\ 3 \in 1 .. Len(u)
      BY <1>3, <2>4
    <3>2. \A i \in 1 .. Len(u) : e[i][j] <= e[i - 1][j] + 1
      BY <1>2, TableDown
    <3>3. e[1][j] <= e[0][j] + 1 /\ e[2][j] <= e[1][j] + 1 /\ e[3][j] <= e[2][j] + 1
      <4>1. 1 - 1 = 0 /\ 2 - 1 = 1 /\ 3 - 1 = 2
        OBVIOUS
      <4> QED
        BY <3>1, <3>2, <4>1
    <3>4. /\ e[1][j] \in Nat /\ e[2][j] \in Nat /\ e[3][j] \in Nat
          /\ e[0][j] = j /\ d[0][j] = j
      BY <1>3, <1>4, <3>1
    <3>5. \A v, w, x, y \in Nat : w <= v + 1 /\ x <= w + 1 /\ y <= x + 1 => y <= v + 3
      OBVIOUS
    <3>6. j \in Nat
      BY <1>3
    <3> QED
      BY <3>3, <3>4, <3>5, <3>6, Zenon
  <2> QED
    BY <2>1, <2>2, <2>3, <2>4 DEF Edit
<1>8. Within(e, Len(u), d, Len(s), k, Len(t))
  <2> DEFINE r == Len(s) - p
  <2>1. /\ r \in Nat /\ p + r = Len(s) /\ q + r = Len(u) /\ p + r <= Len(s) /\ q + r <= Len(u)
        /\ \A x \in 1 .. r : s[p + x] = u[q + x]
    BY <1>3 DEF Edit
  <2> HIDE DEF r
  <2>2. Within(e, q + r, d, p + r, k, Len(t))
    BY <1>1, <1>2, <1>3, <1>7, <2>1, SameLetters
  <2> QED
    BY <2>1, <2>2
<1>9. Len(s) \in 0 .. Len(s) /\ Len(u) \in 0 .. Len(u) /\ Len(t) \in 0 .. Len(t)
  BY <1>3
<1> QED
  BY <1>1, <1>2, <1>4, <1>8, <1>9 DEF Within

\* The beginning of a sequence, letter by letter.
LEMMA Beginning ==
    ASSUME NEW S, NEW s \in Seq(S), NEW n \in 0 .. Len(s)
    PROVE  /\ SubSeq(s, 1, n) \in Seq(S) /\ Len(SubSeq(s, 1, n)) = n
           /\ \A x \in 1 .. n : SubSeq(s, 1, n)[x] = s[x]
<1>1. \A x \in 1 .. n : s[x] \in S
  BY ElementOfSeq
<1>2. 1 \in Int /\ n \in Int
  OBVIOUS
<1> DEFINE q == SubSeq(s, 1, n)
<1>3. /\ q \in Seq(S) /\ Len(q) = IF 1 <= n THEN n - 1 + 1 ELSE 0
      /\ \A x \in 1 .. n - 1 + 1 : q[x] = s[1 + x - 1]
  BY <1>1, <1>2, SubSeqProperties
<1> HIDE DEF q
<1>4. Len(q) = n /\ \A x \in 1 .. n : q[x] = s[x]
  <2>1. (IF 1 <= n THEN n - 1 + 1 ELSE 0) = n /\ n - 1 + 1 = n /\ \A x \in 1 .. n : 1 + x - 1 = x
    OBVIOUS
  <2> QED
    BY <1>3, <2>1
<1> QED
  BY <1>3, <1>4 DEF q

\* The end of a sequence, letter by letter.
LEMMA Ending ==
    ASSUME NEW S, NEW s \in Seq(S), NEW n \in 0 .. Len(s)
    PROVE  /\ SubSeq(s, n + 1, Len(s)) \in Seq(S) /\ Len(SubSeq(s, n + 1, Len(s))) = Len(s) - n
           /\ \A x \in 1 .. Len(s) - n : SubSeq(s, n + 1, Len(s))[x] = s[n + x]
<1> DEFINE m == Len(s)
           q == SubSeq(s, n + 1, Len(s))
           a == n + 1
<1>1. m \in Nat /\ n \in Nat /\ n <= m /\ a \in Int /\ m \in Int
  OBVIOUS
<1>2. \A x \in a .. m : s[x] \in S
  <2>1. \A x \in a .. m : x \in 1 .. Len(s)
    OBVIOUS
  <2> QED
    BY <2>1, ElementOfSeq
<1>3. /\ q \in Seq(S) /\ Len(q) = IF a <= m THEN m - a + 1 ELSE 0
      /\ \A x \in 1 .. m - a + 1 : q[x] = s[a + x - 1]
  <2>1. q = SubSeq(s, a, m)
    OBVIOUS
  <2> HIDE DEF q, a, m
  <2> QED
    BY <1>1, <1>2, <2>1, SubSeqProperties
<1>4. Len(q) = m - n /\ \A x \in 1 .. m - n : q[x] = s[n + x]
  <2>1. /\ (IF a <= m THEN m - a + 1 ELSE 0) = m - n /\ m - a + 1 = m - n
        /\ \A x \in 1 .. m - n : a + x - 1 = n + x
    BY <1>1
  <2> HIDE DEF q, a, m
  <2> QED
    BY <1>3, <2>1
<1> QED
  BY <1>3, <1>4

\* u is s and then r, letter by letter.
Joins(u, s, r, m, S) ==
    /\ u \in Seq(S) /\ Len(u) = m + Len(r)
    /\ \A x \in 1 .. m : u[x] = s[x]
    /\ \A x \in 1 .. Len(r) : u[m + x] = r[x]

\* Two sequences one after the other.
LEMMA Joined ==
    ASSUME NEW S, NEW s \in Seq(S), NEW r \in Seq(S), NEW m \in Nat, Len(s) = m
    PROVE  Joins(s \o r, s, r, m, S)
<1> DEFINE u == s \o r
<1>1. /\ u \in Seq(S) /\ Len(u) = Len(s) + Len(r)
      /\ \A x \in 1 .. Len(s) + Len(r) : u[x] = IF x <= Len(s) THEN s[x] ELSE r[x - Len(s)]
  BY ConcatProperties, Zenon
<1> HIDE DEF u
<1>2. Len(r) \in Nat
  OBVIOUS
<1>3. \A x \in 1 .. m : u[x] = s[x]
  BY <1>1, <1>2
<1>4. ASSUME NEW x \in 1 .. Len(r) PROVE u[m + x] = r[x]
  <2>1. m + x \in 1 .. m + Len(r) /\ ~(m + x <= m) /\ (m + x) - m = x
    BY <1>2
  <2> QED
    BY <1>1, <2>1
<1>5. Joins(u, s, r, m, S)
  BY <1>1, <1>3, <1>4 DEF Joins
<1> QED
  BY <1>5 DEF u

\* One letter too many.
LEMMA InsertIsEdit ==
    ASSUME NEW S, NEW s \in Seq(S), NEW c \in S, NEW i \in 0 .. Len(s)
    PROVE  InsertAt(s, i + 1, c) \in Seq(S) /\ Edit(InsertAt(s, i + 1, c), s, i, i, i + 1, 1)
<1> DEFINE u == InsertAt(s, i + 1, c)
           front == SubSeq(s, 1, i)
           back == SubSeq(s, i + 1, Len(s))
           mid == front \o <<c>>
<1>1. u = mid \o back
  <2>1. (i + 1) - 1 = i
    OBVIOUS
  <2> QED
    BY <2>1 DEF InsertAt
<1>2. /\ front \in Seq(S) /\ Len(front) = i /\ \A x \in 1 .. i : front[x] = s[x]
      /\ back \in Seq(S) /\ Len(back) = Len(s) - i /\ \A x \in 1 .. Len(s) - i : back[x] = s[i + x]
  BY Beginning, Ending
<1> HIDE DEF front, back
<1>3. /\ mid \in Seq(S) /\ Len(mid) = i + 1 /\ \A x \in 1 .. i : mid[x] = s[x]
  BY <1>2
<1> HIDE DEF mid, u
<1>4. /\ u \in Seq(S) /\ Len(u) = (i + 1) + Len(back)
      /\ \A x \in 1 .. i + 1 : u[x] = mid[x]
      /\ \A x \in 1 .. Len(back) : u[(i + 1) + x] = back[x]
  <2> DEFINE m == i + 1
  <2>1. m \in Nat
    OBVIOUS
  <2> HIDE DEF m
  <2>2. Len(mid) = m
    BY <1>3 DEF m
  <2>3. Joins(mid \o back, mid, back, m, S)
    BY <1>2, <1>3, <2>1, <2>2, Joined
  <2> QED
    BY <1>1, <2>3 DEF m, Joins
<1>6. \A x \in 1 .. i : s[x] = u[x]
  BY <1>3, <1>4
<1>7. \A x \in 1 .. Len(s) - i : s[i + x] = u[(i + 1) + x]
  BY <1>2, <1>4
<1>8. Len(u) - (i + 1) = Len(s) - i /\ i \in 0 .. Len(u) /\ i + 1 \in 0 .. Len(u)
  BY <1>2, <1>4
<1>9. Edit(u, s, i, i, i + 1, 1)
  BY <1>6, <1>7, <1>8 DEF Edit
<1> QED
  BY <1>4, <1>9 DEF u

\* One letter left out.
LEMMA RemoveIsEdit ==
    ASSUME NEW S, NEW s \in Seq(S), NEW i \in 1 .. Len(s)
    PROVE  RemoveAt(s, i) \in Seq(S) /\ Edit(RemoveAt(s, i), s, i - 1, i, i - 1, 1)
<1> DEFINE u == RemoveAt(s, i)
           m == i - 1
           front == SubSeq(s, 1, i - 1)
           back == SubSeq(s, i + 1, Len(s))
<1>0. m \in 0 .. Len(s) /\ m + 1 = i /\ i \in 0 .. Len(s) /\ i \in Nat /\ m \in Nat
  OBVIOUS
<1>1. u = front \o back
  BY DEF RemoveAt
<1>2. /\ front \in Seq(S) /\ Len(front) = m /\ \A x \in 1 .. m : front[x] = s[x]
      /\ back \in Seq(S) /\ Len(back) = Len(s) - i /\ \A x \in 1 .. Len(s) - i : back[x] = s[i + x]
  BY <1>0, Beginning, Ending
<1> HIDE DEF front, back, u, m
<1>4. /\ u \in Seq(S) /\ Len(u) = m + Len(back)
      /\ \A x \in 1 .. m : u[x] = front[x]
      /\ \A x \in 1 .. Len(back) : u[m + x] = back[x]
  <2>1. Joins(front \o back, front, back, m, S)
    BY <1>0, <1>2, Joined
  <2> QED
    BY <1>1, <2>1 DEF Joins
<1>6. \A x \in 1 .. m : s[x] = u[x]
  BY <1>2, <1>4
<1>7. \A x \in 1 .. Len(s) - i : s[i + x] = u[m + x]
  BY <1>2, <1>4
<1>8. Len(u) - m = Len(s) - i /\ m \in 0 .. Len(u)
  BY <1>0, <1>2, <1>4
<1>9. Edit(u, s, m, i, m, 1)
  BY <1>0, <1>6, <1>7, <1>8 DEF Edit
<1> QED
  BY <1>4, <1>9 DEF u, m

\* One letter mistaken for another.
LEMMA ReplaceIsEdit ==
    ASSUME NEW S, NEW s \in Seq(S), NEW c \in S, NEW i \in 1 .. Len(s)
    PROVE  /\ [s EXCEPT ![i] = c] \in Seq(S)
           /\ Len([s EXCEPT ![i] = c]) = Len(s)
           /\ Edit([s EXCEPT ![i] = c], s, i - 1, i, i, 1)
<1> DEFINE u == [s EXCEPT ![i] = c]
<1>1. u \in Seq(S) /\ Len(u) = Len(s) /\ \A x \in 1 .. Len(s) : x # i => u[x] = s[x]
  BY ExceptSeq
<1> HIDE DEF u
<1>2. \A x \in 1 .. i - 1 : s[x] = u[x]
  BY <1>1
<1>3. \A x \in 1 .. Len(s) - i : s[i + x] = u[i + x]
  BY <1>1
<1>4. /\ i - 1 \in 0 .. Len(s) /\ i \in 0 .. Len(s) /\ i - 1 \in 0 .. Len(u) /\ i \in 0 .. Len(u)
      /\ Len(u) - i = Len(s) - i /\ i = (i - 1) + 1
  BY <1>1
<1>5. Edit(u, s, i - 1, i, i, 1)
  BY <1>2, <1>3, <1>4 DEF Edit
<1> QED
  BY <1>1, <1>5 DEF u

\* A scope in front.
LEMMA ScopeIsEdit ==
    ASSUME NEW S, NEW s \in Seq(S), "@" \in S, "s" \in S, "/" \in S
    PROVE  /\ <<"@", "s", "/">> \o s \in Seq(S)
           /\ Len(<<"@", "s", "/">> \o s) = Len(s) + 3
           /\ Edit(<<"@", "s", "/">> \o s, s, 0, 0, 3, 3)
<1> DEFINE h == <<"@", "s", "/">>
           u == h \o s
<1>1. h \in Seq(S) /\ Len(h) = 3
  OBVIOUS
<1>2. u = h \o s /\ 3 \in Nat
  OBVIOUS
<1> HIDE DEF h, u
<1>3. u \in Seq(S) /\ Len(u) = 3 + Len(s) /\ \A x \in 1 .. Len(s) : u[3 + x] = s[x]
  <2>1. Joins(h \o s, h, s, 3, S)
    BY <1>1, <1>2, Joined
  <2> QED
    BY <1>2, <2>1 DEF Joins
<1>4. Edit(u, s, 0, 0, 3, 3)
  BY <1>3 DEF Edit
<1> QED
  BY <1>3, <1>4 DEF u, h

-----------------------------------------------------------------------------
(* What the distance is: the least number of single-letter edits.          *)

\* u is s with one letter more, one letter less or one other letter.
OneEdit(u, s) == \E m \in 0 .. Len(s) : \E p, q \in {m, m + 1} : Edit(u, s, m, p, q, 1)

\* n single edits, one after the other, lead from a to b.
Path(f, n, a, b, S) ==
    /\ f \in [0 .. n -> Seq(S)] /\ f[0] = a /\ f[n] = b
    /\ \A k \in 1 .. n : OneEdit(f[k], f[k - 1])

Reaches(n, a, b, S) == \E f : Path(f, n, a, b, S)

\* An edit at the end of a sequence.
LEMMA EditAtEnd ==
    ASSUME NEW S, NEW s \in Seq(S), NEW a \in S, NEW b \in S
    PROVE  /\ OneEdit(Append(s, a), s) /\ OneEdit(s, Append(s, a))
           /\ OneEdit(Append(s, a), Append(s, b))
<1> DEFINE n == Len(s)
           u == Append(s, a)
           w == Append(s, b)
<1>1. n \in Nat /\ Len(u) = n + 1 /\ Len(w) = n + 1
  OBVIOUS
<1>2. \A x \in 1 .. n : u[x] = s[x] /\ w[x] = s[x]
  OBVIOUS
<1>3. n = Len(s)
  OBVIOUS
<1> HIDE DEF u, w, n
<1>4. Edit(u, s, n, n, n + 1, 1)
  BY <1>1, <1>2, <1>3 DEF Edit
<1>5. Edit(s, u, n, n + 1, n, 1)
  BY <1>1, <1>2, <1>3 DEF Edit
<1>6. Edit(u, w, n, n + 1, n + 1, 1)
  BY <1>1, <1>2, <1>3 DEF Edit
<1>7. n \in 0 .. Len(s) /\ n \in 0 .. Len(u) /\ n \in 0 .. Len(w) /\ n \in {n, n + 1} /\ n + 1 \in {n, n + 1}
  BY <1>1, <1>3
<1>8. OneEdit(u, s) /\ OneEdit(s, u) /\ OneEdit(u, w)
  BY <1>4, <1>5, <1>6, <1>7, Zenon DEF OneEdit
<1> QED
  BY <1>8 DEF u, w

\* A letter that follows both does not matter.
LEMMA EditBefore ==
    ASSUME NEW S, NEW s \in Seq(S), NEW u \in Seq(S), NEW c \in S, OneEdit(u, s)
    PROVE  OneEdit(Append(u, c), Append(s, c))
<1>1. PICK m \in 0 .. Len(s) : \E p, q \in {m, m + 1} : Edit(u, s, m, p, q, 1)
  BY DEF OneEdit
<1>2. PICK p \in {m, m + 1}, q \in {m, m + 1} : Edit(u, s, m, p, q, 1)
  BY <1>1
<1> DEFINE v == Append(u, c)
           w == Append(s, c)
<1>3. /\ Len(s) \in Nat /\ Len(u) \in Nat /\ Len(v) = Len(u) + 1 /\ Len(w) = Len(s) + 1
      /\ v[Len(u) + 1] = c /\ w[Len(s) + 1] = c
      /\ \A x \in 1 .. Len(s) : w[x] = s[x]
      /\ \A x \in 1 .. Len(u) : v[x] = u[x]
  OBVIOUS
<1> HIDE DEF v, w
<1>4. /\ m \in Nat /\ p \in Nat /\ q \in Nat
      /\ m <= Len(s) /\ m <= Len(u) /\ p <= Len(s) /\ q <= Len(u)
      /\ Len(u) - q = Len(s) - p
  BY <1>2, <1>3 DEF Edit
<1>5. \A x \in 1 .. m : w[x] = v[x]
  BY <1>2, <1>3, <1>4 DEF Edit
<1>6. ASSUME NEW x \in 1 .. Len(w) - p PROVE w[p + x] = v[q + x]
  <2>1. CASE x \in 1 .. Len(s) - p
    <3>1. p + x \in 1 .. Len(s) /\ q + x \in 1 .. Len(u)
      BY <1>3, <1>4, <2>1
    <3>2. s[p + x] = u[q + x]
      BY <1>2, <2>1 DEF Edit
    <3> QED
      BY <1>3, <3>1, <3>2
  <2>2. CASE x \notin 1 .. Len(s) - p
    <3>1. p + x = Len(s) + 1 /\ q + x = Len(u) + 1
      BY <1>3, <1>4, <2>2
    <3> QED
      BY <1>3, <3>1
  <2> QED
    BY <2>1, <2>2
<1>7. /\ m \in 0 .. Len(w) /\ m \in 0 .. Len(v) /\ p \in 0 .. Len(w) /\ q \in 0 .. Len(v)
      /\ Len(v) - q = Len(w) - p
  BY <1>3, <1>4
<1>8. \/ p = m /\ q = m + 1
      \/ p = m + 1 /\ q = m
      \/ p = m + 1 /\ q = m + 1
  BY <1>2, <1>4 DEF Edit
<1>9. Edit(v, w, m, p, q, 1)
  BY <1>5, <1>6, <1>7, <1>8 DEF Edit
<1>10. OneEdit(v, w)
  BY <1>7, <1>9 DEF OneEdit
<1> QED
  BY <1>10 DEF v, w

\* No edit at all.
LEMMA StayPath ==
    ASSUME NEW S, NEW a \in Seq(S)
    PROVE  Reaches(0, a, a, S)
<1>1. Path([k \in 0 .. 0 |-> a], 0, a, a, S)
  BY DEF Path
<1> QED
  BY <1>1 DEF Reaches

\* One more edit at the end of a path.
LEMMA LongerPath ==
    ASSUME NEW S, NEW n \in Nat, NEW a, NEW b, NEW c \in Seq(S), Reaches(n, a, b, S), OneEdit(c, b)
    PROVE  Reaches(n + 1, a, c, S)
<1>1. PICK f : Path(f, n, a, b, S)
  BY DEF Reaches
<1> DEFINE g == [k \in 0 .. n + 1 |-> IF k = n + 1 THEN c ELSE f[k]]
<1>2. \A k \in 0 .. n : g[k] = f[k] /\ f[k] \in Seq(S)
  BY <1>1 DEF Path
<1>3. g[n + 1] = c
  OBVIOUS
<1>4. g \in [0 .. n + 1 -> Seq(S)]
  <2>1. \A k \in 0 .. n + 1 : k = n + 1 \/ k \in 0 .. n
    OBVIOUS
  <2>2. \A k \in 0 .. n + 1 : g[k] \in Seq(S)
    <3> HIDE DEF g
    <3> QED
      BY <1>2, <1>3, <2>1
  <2>3. g = [k \in 0 .. n + 1 |-> g[k]]
    OBVIOUS
  <2> HIDE DEF g
  <2> QED
    BY <2>2, <2>3
<1> HIDE DEF g
<1>5. g[0] = a
  BY <1>1, <1>2 DEF Path
<1>6. ASSUME NEW k \in 1 .. n + 1 PROVE OneEdit(g[k], g[k - 1])
  <2>1. CASE k = n + 1
    <3>1. g[k - 1] = b
      BY <1>1, <1>2, <2>1 DEF Path
    <3> QED
      BY <1>3, <2>1, <3>1
  <2>2. CASE k \in 1 .. n
    <3>1. k \in 0 .. n /\ k - 1 \in 0 .. n
      BY <2>2
    <3>2. OneEdit(f[k], f[k - 1])
      BY <1>1, <2>2 DEF Path
    <3> QED
      BY <1>2, <3>1, <3>2
  <2> QED
    BY <2>1, <2>2
<1>7. Path(g, n + 1, a, c, S)
  BY <1>3, <1>4, <1>5, <1>6 DEF Path
<1> QED
  BY <1>7 DEF Reaches

\* One more edit at its start.
LEMMA EarlierPath ==
    ASSUME NEW S, NEW n \in Nat, NEW a \in Seq(S), NEW b, NEW c, OneEdit(b, a), Reaches(n, b, c, S)
    PROVE  Reaches(n + 1, a, c, S)
<1>1. PICK f : Path(f, n, b, c, S)
  BY DEF Reaches
<1> DEFINE g == [k \in 0 .. n + 1 |-> IF k = 0 THEN a ELSE f[k - 1]]
<1>2. \A k \in 1 .. n + 1 : g[k] = f[k - 1] /\ f[k - 1] \in Seq(S)
  BY <1>1 DEF Path
<1>3. g[0] = a
  OBVIOUS
<1>4. g \in [0 .. n + 1 -> Seq(S)]
  <2>1. \A k \in 0 .. n + 1 : k = 0 \/ k \in 1 .. n + 1
    OBVIOUS
  <2>2. \A k \in 0 .. n + 1 : g[k] \in Seq(S)
    <3> HIDE DEF g
    <3> QED
      BY <1>2, <1>3, <2>1
  <2>3. g = [k \in 0 .. n + 1 |-> g[k]]
    OBVIOUS
  <2> HIDE DEF g
  <2> QED
    BY <2>2, <2>3
<1> HIDE DEF g
<1>5. g[n + 1] = c
  <2>1. n + 1 \in 1 .. n + 1 /\ (n + 1) - 1 = n
    OBVIOUS
  <2> QED
    BY <1>1, <1>2, <2>1 DEF Path
<1>6. ASSUME NEW k \in 1 .. n + 1 PROVE OneEdit(g[k], g[k - 1])
  <2>1. CASE k = 1
    <3>1. g[k] = b
      BY <1>1, <1>2, <2>1 DEF Path
    <3>2. g[k - 1] = a
      BY <1>3, <2>1
    <3> QED
      BY <3>1, <3>2
  <2>2. CASE k # 1
    <3>1. k - 1 \in 1 .. n /\ k - 1 \in 1 .. n + 1
      BY <2>2
    <3>2. OneEdit(f[k - 1], f[(k - 1) - 1])
      BY <1>1, <3>1 DEF Path
    <3> QED
      BY <1>2, <3>1, <3>2
  <2> QED
    BY <2>1, <2>2
<1>7. Path(g, n + 1, a, c, S)
  BY <1>3, <1>4, <1>5, <1>6 DEF Path
<1> QED
  BY <1>7 DEF Reaches

\* The same edits with a letter more behind them.
LEMMA SidePath ==
    ASSUME NEW S, NEW n \in Nat, NEW a, NEW b, NEW c \in S, Reaches(n, a, b, S)
    PROVE  Reaches(n, Append(a, c), Append(b, c), S)
<1>1. PICK f : Path(f, n, a, b, S)
  BY DEF Reaches
<1> DEFINE g == [k \in 0 .. n |-> Append(f[k], c)]
<1>2. \A k \in 0 .. n : g[k] = Append(f[k], c) /\ f[k] \in Seq(S)
  BY <1>1 DEF Path
<1>3. \A k \in 0 .. n : Append(f[k], c) \in Seq(S)
  BY <1>2
<1>4. g \in [0 .. n -> Seq(S)]
  BY <1>3
<1> HIDE DEF g
<1>5. g[0] = Append(a, c) /\ g[n] = Append(b, c)
  BY <1>1, <1>2 DEF Path
<1>6. ASSUME NEW k \in 1 .. n PROVE OneEdit(g[k], g[k - 1])
  <2>1. k \in 0 .. n /\ k - 1 \in 0 .. n
    OBVIOUS
  <2>2. OneEdit(f[k], f[k - 1])
    BY <1>1 DEF Path
  <2>3. f[k] \in Seq(S) /\ f[k - 1] \in Seq(S)
    BY <1>2, <2>1
  <2>4. OneEdit(Append(f[k], c), Append(f[k - 1], c))
    BY <2>2, <2>3, EditBefore
  <2> QED
    BY <1>2, <2>1, <2>4
<1>7. Path(g, n, Append(a, c), Append(b, c), S)
  BY <1>4, <1>5, <1>6 DEF Path
<1> QED
  BY <1>7 DEF Reaches

Start(s, i) == SubSeq(s, 1, i)

\* A beginning is the one before it and one letter.
LEMMA StartGrows ==
    ASSUME NEW S, NEW s \in Seq(S), NEW i \in 1 .. Len(s)
    PROVE  /\ s[i] \in S /\ Start(s, i - 1) \in Seq(S)
           /\ Start(s, i) = Append(Start(s, i - 1), s[i])
<1> DEFINE u == Start(s, i)
           w == Start(s, i - 1)
           n == i - 1
<1>1. s[i] \in S
  BY ElementOfSeq
<1>2. i \in 0 .. Len(s) /\ n \in 0 .. Len(s) /\ n + 1 = i /\ n \in Nat /\ i \in Nat
  OBVIOUS
<1>3. u \in Seq(S) /\ Len(u) = i /\ \A x \in 1 .. i : u[x] = s[x]
  BY <1>2, Beginning DEF Start
<1>4. w \in Seq(S) /\ Len(w) = n /\ \A x \in 1 .. n : w[x] = s[x]
  BY <1>2, Beginning DEF Start
<1> HIDE DEF u, w, n
<1> DEFINE v == Append(w, s[i])
<1>5. v \in Seq(S) /\ Len(v) = n + 1 /\ v[n + 1] = s[i] /\ \A x \in 1 .. n : v[x] = w[x]
  BY <1>1, <1>4
<1> HIDE DEF v
<1>6. \A x \in 1 .. Len(u) : u[x] = v[x]
  BY <1>2, <1>3, <1>4, <1>5
<1>7. u = v
  BY <1>2, <1>3, <1>5, <1>6, SeqEqual
<1> QED
  BY <1>1, <1>4, <1>7 DEF u, v, w

\* Every entry of the table is the length of a path.
LEMMA TablePaths ==
    ASSUME NEW S, NEW s \in Seq(S), NEW t \in Seq(S), NEW d, IsTable(d, s, t)
    PROVE  \A i \in 0 .. Len(s) : \A j \in 0 .. Len(t) :
              Reaches(d[i][j], Start(t, j), Start(s, i), S)
<1> DEFINE P(i, j) == Reaches(d[i][j], Start(t, j), Start(s, i), S)
<1>1. /\ Len(s) \in Nat /\ Len(t) \in Nat
      /\ \A i \in 0 .. Len(s), j \in 0 .. Len(t) : d[i][j] \in Nat
      /\ \A j \in 0 .. Len(t) : d[0][j] = j
      /\ \A i \in 0 .. Len(s) : d[i][0] = i
  BY TableEdge
<1>2. P(0, 0)
  <2>1. Start(s, 0) = <<>> /\ Start(t, 0) = <<>> /\ <<>> \in Seq(S)
    BY SubSeqEmpty, EmptySeq DEF Start
  <2>2. Reaches(0, <<>>, <<>>, S)
    BY <2>1, StayPath
  <2>3. d[0][0] = 0
    BY <1>1
  <2> QED
    BY <2>1, <2>2, <2>3
\* Going left: the last letter of t is taken away first.
<1>3. ASSUME NEW i \in 0 .. Len(s), NEW j \in 1 .. Len(t), P(i, j - 1), d[i][j] = d[i][j - 1] + 1
      PROVE  P(i, j)
  <2> DEFINE n == d[i][j - 1]
             a == Start(t, j - 1)
  <2>1. n \in Nat
    BY <1>1
  <2>2. t[j] \in S /\ a \in Seq(S) /\ Start(t, j) = Append(a, t[j])
    BY StartGrows
  <2>3. Reaches(n, a, Start(s, i), S)
    BY <1>3
  <2> HIDE DEF n, a
  <2>4. OneEdit(a, Append(a, t[j])) /\ Append(a, t[j]) \in Seq(S)
    BY <2>2, EditAtEnd
  <2>5. Reaches(n + 1, Append(a, t[j]), Start(s, i), S)
    BY <2>1, <2>3, <2>4, EarlierPath
  <2> QED
    BY <1>3, <2>2, <2>5 DEF n
\* Going up: the last letter of s is put on last.
<1>4. ASSUME NEW i \in 1 .. Len(s), NEW j \in 0 .. Len(t), P(i - 1, j), d[i][j] = d[i - 1][j] + 1
      PROVE  P(i, j)
  <2> DEFINE n == d[i - 1][j]
             b == Start(s, i - 1)
  <2>1. n \in Nat
    BY <1>1
  <2>2. s[i] \in S /\ b \in Seq(S) /\ Start(s, i) = Append(b, s[i])
    BY StartGrows
  <2>3. Reaches(n, Start(t, j), b, S)
    BY <1>4
  <2> HIDE DEF n, b
  <2>4. OneEdit(Append(b, s[i]), b) /\ Append(b, s[i]) \in Seq(S)
    BY <2>2, EditAtEnd
  <2>5. Reaches(n + 1, Start(t, j), Append(b, s[i]), S)
    BY <2>1, <2>3, <2>4, LongerPath
  <2> QED
    BY <1>4, <2>2, <2>5 DEF n
\* Going diagonally: the last letter stays, or is replaced.
<1>5. ASSUME NEW i \in 1 .. Len(s), NEW j \in 1 .. Len(t), P(i - 1, j - 1),
             \/ d[i][j] = d[i - 1][j - 1] + 1
             \/ s[i] = t[j] /\ d[i][j] = d[i - 1][j - 1]
      PROVE  P(i, j)
  <2> DEFINE n == d[i - 1][j - 1]
             a == Start(t, j - 1)
             b == Start(s, i - 1)
  <2>1. n \in Nat
    BY <1>1
  <2>2. s[i] \in S /\ b \in Seq(S) /\ Start(s, i) = Append(b, s[i])
    BY StartGrows
  <2>3. t[j] \in S /\ a \in Seq(S) /\ Start(t, j) = Append(a, t[j])
    BY StartGrows
  <2>4. Reaches(n, a, b, S)
    BY <1>5
  <2> HIDE DEF n, a, b
  <2>5. CASE d[i][j] = d[i - 1][j - 1] + 1
    <3>1. Reaches(n, Append(a, t[j]), Append(b, t[j]), S)
      BY <2>1, <2>3, <2>4, SidePath
    <3>2. OneEdit(Append(b, s[i]), Append(b, t[j])) /\ Append(b, s[i]) \in Seq(S)
      BY <2>2, <2>3, EditAtEnd
    <3>3. Reaches(n + 1, Append(a, t[j]), Append(b, s[i]), S)
      BY <2>1, <3>1, <3>2, LongerPath
    <3> QED
      BY <2>2, <2>3, <2>5, <3>3 DEF n
  <2>6. CASE s[i] = t[j] /\ d[i][j] = d[i - 1][j - 1]
    <3>1. Reaches(n, Append(a, t[j]), Append(b, t[j]), S)
      BY <2>1, <2>3, <2>4, SidePath
    <3> QED
      BY <2>2, <2>3, <2>6, <3>1 DEF n
  <2> QED
    BY <1>5, <2>5, <2>6
<1> DEFINE Row(i) == \A j \in 0 .. Len(t) : P(i, j)
           G == {i \in 0 .. Len(s) : Row(i)}
<1> HIDE DEF P
<1>6. 0 \in G
  <2> DEFINE H == {j \in 0 .. Len(t) : P(0, j)}
  <2>1. 0 \in H
    BY <1>1, <1>2
  <2>2. ASSUME NEW j \in 0 .. Len(t), j # 0, j - 1 \in H PROVE j \in H
    <3>1. j \in 1 .. Len(t) /\ j - 1 \in 0 .. Len(t) /\ 0 \in 0 .. Len(s) /\ j = (j - 1) + 1
      BY <1>1, <2>2
    <3>2. d[0][j] = d[0][j - 1] + 1
      BY <1>1, <3>1
    <3>3. P(0, j - 1)
      BY <2>2
    <3> QED
      BY <1>3, <3>1, <3>2, <3>3
  <2>3. \A j \in 0 .. Len(t) : j \in H
    <3> HIDE DEF H
    <3> QED
      BY <1>1, <2>1, <2>2, Upward
  <2> QED
    BY <1>1, <2>3
<1>7. ASSUME NEW i \in 0 .. Len(s), i # 0, i - 1 \in G PROVE i \in G
  <2> DEFINE H == {j \in 0 .. Len(t) : P(i, j)}
  <2>1. i \in 1 .. Len(s) /\ i - 1 \in 0 .. Len(s) /\ i = (i - 1) + 1 /\ 0 \in 0 .. Len(t)
    BY <1>1, <1>7
  <2>2. \A j \in 0 .. Len(t) : P(i - 1, j)
    BY <1>7
  <2>3. 0 \in H
    <3>1. d[i][0] = d[i - 1][0] + 1
      BY <1>1, <2>1
    <3> QED
      BY <1>4, <2>1, <2>2, <3>1
  <2>4. ASSUME NEW j \in 0 .. Len(t), j # 0, j - 1 \in H PROVE j \in H
    <3>1. j \in 1 .. Len(t) /\ j - 1 \in 0 .. Len(t)
      BY <1>1, <2>4
    <3>2. P(i, j - 1) /\ P(i - 1, j) /\ P(i - 1, j - 1)
      BY <2>2, <2>4, <3>1
    <3>3. \/ d[i][j] = d[i - 1][j] + 1
          \/ d[i][j] = d[i][j - 1] + 1
          \/ d[i][j] = d[i - 1][j - 1] + 1
          \/ s[i] = t[j] /\ d[i][j] = d[i - 1][j - 1]
      BY <2>1, <3>1, TableStep
    <3>4. P(i, j)
      BY <1>3, <1>4, <1>5, <2>1, <3>1, <3>2, <3>3
    <3> QED
      BY <3>4
  <2>5. \A j \in 0 .. Len(t) : j \in H
    <3> HIDE DEF H
    <3> QED
      BY <1>1, <2>3, <2>4, Upward
  <2> QED
    BY <2>5
<1>8. \A i \in 0 .. Len(s) : i \in G
  <2> HIDE DEF G
  <2> QED
    BY <1>1, <1>6, <1>7, Upward
<1> QED
  BY <1>8 DEF P

\* No path is shorter than the distance.
LEMMA PathBound ==
    ASSUME NEW S, NEW s \in Seq(S), NEW t \in Seq(S), NEW n \in Nat, Reaches(n, t, s, S)
    PROVE  levenshteinDistance(s, t) <= n
<1>1. PICK f : Path(f, n, t, s, S)
  BY DEF Reaches
<1>2. \A k \in 0 .. n : f[k] \in Seq(S)
  BY <1>1 DEF Path
<1> DEFINE x(k) == levenshteinDistance(f[k], t)
           G == {k \in 0 .. n : x(k) \in Nat /\ x(k) <= k}
<1>3. 0 \in G
  <2>1. f[0] = t
    BY <1>1 DEF Path
  <2>2. levenshteinDistance(t, t) = 0
    BY SelfDistance
  <2> QED
    BY <2>1, <2>2
<1>4. ASSUME NEW k \in 0 .. n, k # 0, k - 1 \in G PROVE k \in G
  <2> DEFINE u == f[k]
             w == f[k - 1]
             y == levenshteinDistance(u, t)
             z == levenshteinDistance(w, t)
  <2>1. k \in 1 .. n /\ k - 1 \in 0 .. n
    BY <1>4
  <2>2. OneEdit(u, w) /\ u \in Seq(S) /\ w \in Seq(S)
    BY <1>1, <1>2, <2>1 DEF Path
  <2>3. z <= k - 1
    BY <1>4
  <2> HIDE DEF u, w
  <2>4. PICK m \in 0 .. Len(w) : \E p, q \in {m, m + 1} : Edit(u, w, m, p, q, 1)
    BY <2>2 DEF OneEdit
  <2>5. PICK p \in {m, m + 1}, q \in {m, m + 1} : Edit(u, w, m, p, q, 1)
    BY <2>4
  <2>6. z \in Nat /\ y \in Nat /\ y <= z + 1
    BY <2>2, <2>5, EditCost
  <2> HIDE DEF y, z
  <2>7. y \in Nat /\ y <= k
    BY <2>1, <2>3, <2>6
  <2> QED
    BY <2>7 DEF y, u
<1>5. \A k \in 0 .. n : k \in G
  <2> HIDE DEF G
  <2> QED
    BY <1>3, <1>4, Upward
<1>6. n \in 0 .. n /\ f[n] = s
  BY <1>1 DEF Path
<1> QED
  BY <1>5, <1>6

\* levenshteinDistance computes what its name promises, for all names: there are
\* as many single-letter edits between them, and no fewer suffice.
THEOREM DistanceIsLeast ==
    \A S : \A s, t \in Seq(S) :
        /\ Reaches(levenshteinDistance(s, t), t, s, S)
        /\ \A n \in Nat : Reaches(n, t, s, S) => levenshteinDistance(s, t) <= n
<1> SUFFICES ASSUME NEW S, NEW s \in Seq(S), NEW t \in Seq(S)
             PROVE  /\ Reaches(levenshteinDistance(s, t), t, s, S)
                    /\ \A n \in Nat : Reaches(n, t, s, S) => levenshteinDistance(s, t) <= n
  OBVIOUS
<1>1. PICK d : IsTable(d, s, t) /\ levenshteinDistance(s, t) = d[Len(s)][Len(t)]
  BY TableExists
<1>2. Len(s) \in 0 .. Len(s) /\ Len(t) \in 0 .. Len(t)
  OBVIOUS
<1>3. Reaches(d[Len(s)][Len(t)], Start(t, Len(t)), Start(s, Len(s)), S)
  BY <1>1, <1>2, TablePaths
<1>4. Start(t, Len(t)) = t /\ Start(s, Len(s)) = s
  BY SubSeqFull DEF Start
<1> QED
  BY <1>1, <1>3, <1>4, PathBound

-----------------------------------------------------------------------------
(* The world of the providers: an inductive invariant.                     *)

Symbols == Letters \cup {"@", "s", "/"} \cup UNION {Range(t) : t \in Popular}

Swapped(s, i) == [s EXCEPT ![i] = s[i + 1], ![i + 1] = s[i]]

\* One mistake is one edit, two letters swapped or a scope.
OneSlip ==
    \/ edits = 1
    \/ \E i \in 1 .. Len(origin) - 1 : name = Swapped(origin, i)
    \/ name = <<"@", "s", "/">> \o origin

\* The name is as many edits from its origin as were counted, or fewer.
NameInv ==
    /\ origin \in Popular /\ name \in Seq(Symbols) /\ typos \in Nat /\ edits \in Nat
    /\ levenshteinDistance(name, origin) \in Nat
    /\ levenshteinDistance(name, origin) <= edits
    /\ typos = 0 => name = origin /\ edits = 0
    /\ typos = 1 => OneSlip

Entry(m, at) ==
    [by |-> m.by, owners |-> m.owners, repo |-> m.repo, signed |-> m.signed, at |-> at]

Entries == {Entry(m, at) : m \in Publications, at \in Nat}

\* Publications follow each other in time and lie in the past.
LogInv ==
    /\ log \in Seq(Entries) /\ Len(log) <= MaxActivity /\ clock \in 0 .. MaxTime
    /\ \A i, j \in 1 .. Len(log) : i < j => log[i].at < log[j].at
    /\ \A i \in 1 .. Len(log) : log[i].at < clock
    /\ withdrawn \subseteq 1 .. Len(log)

WorldInv == NameInv /\ LogInv

\* Popular names are made of symbols.
LEMMA PopularNames ==
    ASSUME NEW t \in Popular
    PROVE  t \in Seq(Symbols)
<1>1. t \in Seq(Range(t))
  BY PopularAssumption
<1>2. Range(t) \subseteq Symbols
  BY DEF Symbols
<1> QED
  BY <1>1, <1>2, SeqMonotonic

\* A swap is two replacements.
LEMMA SwapCost ==
    ASSUME NEW S, NEW s \in Seq(S), NEW t \in Seq(S), NEW i \in 1 .. Len(s) - 1
    PROVE  /\ Swapped(s, i) \in Seq(S) /\ Len(Swapped(s, i)) = Len(s)
           /\ levenshteinDistance(s, t) \in Nat /\ levenshteinDistance(Swapped(s, i), t) \in Nat
           /\ levenshteinDistance(Swapped(s, i), t) <= levenshteinDistance(s, t) + 2
<1> DEFINE a == s[i]
           b == s[i + 1]
           k == i + 1
           w == [s EXCEPT ![i] = b]
           u == [w EXCEPT ![k] = a]
<1>1. i \in 1 .. Len(s) /\ k \in 1 .. Len(s)
  OBVIOUS
<1>2. a \in S /\ b \in S
  BY <1>1, ElementOfSeq
<1>3. Swapped(s, i) = u
  BY DEF Swapped
<1> HIDE DEF a, b, k
<1>4. w \in Seq(S) /\ Len(w) = Len(s) /\ Edit(w, s, i - 1, i, i, 1)
  BY <1>1, <1>2, ReplaceIsEdit
<1> HIDE DEF w
<1>5. u \in Seq(S) /\ Len(u) = Len(w) /\ Edit(u, w, k - 1, k, k, 1)
  BY <1>1, <1>2, <1>4, ReplaceIsEdit
<1> HIDE DEF u
<1>6. /\ levenshteinDistance(s, t) \in Nat /\ levenshteinDistance(w, t) \in Nat
      /\ levenshteinDistance(w, t) <= levenshteinDistance(s, t) + 1
  BY <1>4, EditCost
<1>7. /\ levenshteinDistance(u, t) \in Nat
      /\ levenshteinDistance(u, t) <= levenshteinDistance(w, t) + 1
  BY <1>4, <1>5, EditCost
<1> QED
  BY <1>3, <1>4, <1>5, <1>6, <1>7

\* A mistake of the given cost keeps the invariant.
LEMMA TypoKeeps ==
    ASSUME WorldInv, NEW s \in Seq(Symbols), NEW cost \in Nat, Typo(s, cost),
           levenshteinDistance(s, origin) \in Nat,
           levenshteinDistance(s, origin) <= levenshteinDistance(name, origin) + cost,
           name = origin => \/ cost = 1
                            \/ \E i \in 1 .. Len(origin) - 1 : s = Swapped(origin, i)
                            \/ s = <<"@", "s", "/">> \o origin
    PROVE  WorldInv'
<1>1. /\ name' = s /\ typos' = typos + 1 /\ edits' = edits + cost /\ origin' = origin
      /\ log' = log /\ withdrawn' = withdrawn /\ clock' = clock
  BY DEF Typo, worldVars
<1>2. LogInv'
  BY <1>1 DEF WorldInv, LogInv
<1>3. /\ origin \in Popular /\ typos \in Nat /\ edits \in Nat
      /\ levenshteinDistance(name, origin) \in Nat
      /\ levenshteinDistance(name, origin) <= edits
      /\ typos = 0 => name = origin /\ edits = 0
  BY DEF WorldInv, NameInv
<1>4. levenshteinDistance(name', origin') \in Nat /\ levenshteinDistance(name', origin') <= edits'
  <2> DEFINE x == levenshteinDistance(s, origin)
             y == levenshteinDistance(name, origin)
  <2>1. x \in Nat /\ y \in Nat /\ x <= y + cost /\ y <= edits
    BY <1>3
  <2>2. name' = s /\ origin' = origin /\ edits' = edits + cost
    BY <1>1
  <2> HIDE DEF x, y
  <2>3. x <= edits + cost
    BY <1>3, <2>1
  <2> QED
    BY <2>1, <2>2, <2>3 DEF x
<1>5. typos' \in Nat /\ edits' \in Nat /\ typos' # 0
  BY <1>1, <1>3
<1>6. ASSUME typos' = 1 PROVE OneSlip'
  <2>1. name = origin /\ edits = 0
    BY <1>1, <1>3, <1>6
  <2>2. CASE cost = 1
    BY <1>1, <2>1, <2>2 DEF OneSlip
  <2>3. CASE \E i \in 1 .. Len(origin) - 1 : s = Swapped(origin, i)
    <3>1. \E i \in 1 .. Len(origin') - 1 : name' = Swapped(origin', i)
      BY <1>1, <2>3
    <3> QED
      BY <3>1 DEF OneSlip, Swapped
  <2>4. CASE s = <<"@", "s", "/">> \o origin
    BY <1>1, <2>4 DEF OneSlip
  <2> QED
    BY <2>1, <2>2, <2>3, <2>4
<1>7. origin' \in Popular /\ name' \in Seq(Symbols)
  BY <1>1, <1>3
<1>8. NameInv'
  BY <1>4, <1>5, <1>6, <1>7 DEF NameInv
<1> QED
  BY <1>2, <1>8 DEF WorldInv

\* What every publication in the log has.
LEMMA LogEntry ==
    ASSUME LogInv
    PROVE  /\ Len(log) \in Nat /\ clock \in Nat
           /\ \A i \in 1 .. Len(log) : log[i] \in Entries /\ log[i].at \in Nat
<1>1. log \in Seq(Entries) /\ clock \in Nat
  BY ThresholdAssumption DEF LogInv
<1>2. Len(log) \in Nat /\ \A i \in 1 .. Len(log) : log[i] \in Entries
  BY <1>1, ElementOfSeq
<1>3. \A e \in Entries : e.at \in Nat
  BY DEF Entries, Entry
<1> QED
  BY <1>1, <1>2, <1>3

\* The invariant holds at the start.
LEMMA WorldStarts == Init => WorldInv
<1> SUFFICES ASSUME Init PROVE WorldInv
  OBVIOUS
<1>1. origin \in Popular /\ name = origin /\ typos = 0 /\ edits = 0
  BY DEF Init
<1>2. origin \in Seq(Symbols)
  BY <1>1, PopularNames
<1>3. levenshteinDistance(name, origin) = 0
  BY <1>1, <1>2, SelfDistance
<1>4. NameInv
  BY <1>1, <1>2, <1>3 DEF NameInv
<1>5. LogInv
  <2>1. log = <<>> /\ withdrawn = {} /\ clock = 0
    BY DEF Init
  <2>2. <<>> \in Seq(Entries) /\ Len(<<>>) = 0
    BY EmptySeq
  <2>3. MaxActivity \in Nat /\ MaxTime \in Nat
    BY ThresholdAssumption
  <2> QED
    BY <2>1, <2>2, <2>3 DEF LogInv
<1> QED
  BY <1>4, <1>5 DEF WorldInv

\* Each of the mistakes keeps it.
LEMMA MistakesKeep ==
    ASSUME WorldInv, Insert \/ Leave \/ Replace \/ Swap \/ Scope
    PROVE  WorldInv'
<1>1. origin \in Seq(Symbols) /\ name \in Seq(Symbols)
  BY PopularNames DEF WorldInv, NameInv
<1>2. Letters \subseteq Symbols /\ {"@", "s", "/"} \subseteq Symbols
  BY DEF Symbols
<1>3. CASE Insert
  <2>1. PICK i \in 0 .. Len(name), c \in Letters : Typo(InsertAt(name, i + 1, c), 1)
    BY <1>3 DEF Insert
  <2> DEFINE s == InsertAt(name, i + 1, c)
  <2>2. c \in Symbols
    BY <1>2
  <2>3. s \in Seq(Symbols) /\ Edit(s, name, i, i, i + 1, 1)
    BY <1>1, <2>2, InsertIsEdit
  <2>4. Typo(s, 1)
    BY <2>1
  <2> HIDE DEF s
  <2>5. levenshteinDistance(s, origin) \in Nat
        /\ levenshteinDistance(s, origin) <= levenshteinDistance(name, origin) + 1
    BY <1>1, <2>3, EditCost
  <2> QED
    BY <2>3, <2>4, <2>5, TypoKeeps
<1>4. CASE Leave
  <2>1. PICK i \in 1 .. Len(name) : Typo(RemoveAt(name, i), 1)
    BY <1>4 DEF Leave
  <2> DEFINE s == RemoveAt(name, i)
  <2>2. s \in Seq(Symbols) /\ Edit(s, name, i - 1, i, i - 1, 1)
    BY <1>1, RemoveIsEdit
  <2>3. Typo(s, 1)
    BY <2>1
  <2> HIDE DEF s
  <2>4. levenshteinDistance(s, origin) \in Nat
        /\ levenshteinDistance(s, origin) <= levenshteinDistance(name, origin) + 1
    BY <1>1, <2>2, EditCost
  <2> QED
    BY <2>2, <2>3, <2>4, TypoKeeps
<1>5. CASE Replace
  <2>1. PICK i \in 1 .. Len(name), c \in Letters : Typo([name EXCEPT ![i] = c], 1)
    BY <1>5 DEF Replace
  <2> DEFINE s == [name EXCEPT ![i] = c]
  <2>2. c \in Symbols
    BY <1>2
  <2>3. s \in Seq(Symbols) /\ Edit(s, name, i - 1, i, i, 1)
    BY <1>1, <2>2, ReplaceIsEdit
  <2>4. Typo(s, 1)
    BY <2>1
  <2> HIDE DEF s
  <2>5. levenshteinDistance(s, origin) \in Nat
        /\ levenshteinDistance(s, origin) <= levenshteinDistance(name, origin) + 1
    BY <1>1, <2>3, EditCost
  <2> QED
    BY <2>3, <2>4, <2>5, TypoKeeps
<1>6. CASE Swap
  <2>1. PICK i \in 1 .. Len(name) - 1 : Typo(Swapped(name, i), 2)
    BY <1>6 DEF Swap, Swapped
  <2> DEFINE s == Swapped(name, i)
  <2>2. /\ s \in Seq(Symbols)
        /\ levenshteinDistance(s, origin) \in Nat
        /\ levenshteinDistance(s, origin) <= levenshteinDistance(name, origin) + 2
    BY <1>1, SwapCost
  <2>3. Typo(s, 2)
    BY <2>1
  <2>4. name = origin => \E j \in 1 .. Len(origin) - 1 : s = Swapped(origin, j)
    OBVIOUS
  <2> HIDE DEF s
  <2> QED
    BY <2>2, <2>3, <2>4, TypoKeeps
<1>7. CASE Scope
  <2> DEFINE s == <<"@", "s", "/">> \o name
  <2>1. Typo(s, 3)
    BY <1>7 DEF Scope
  <2>2. s \in Seq(Symbols) /\ Edit(s, name, 0, 0, 3, 3)
    BY <1>1, <1>2, ScopeIsEdit
  <2>3. name = origin => s = <<"@", "s", "/">> \o origin
    OBVIOUS
  <2> HIDE DEF s
  <2>4. levenshteinDistance(s, origin) \in Nat
        /\ levenshteinDistance(s, origin) <= levenshteinDistance(name, origin) + 3
    BY <1>1, <2>2, EditCost
  <2> QED
    BY <2>1, <2>2, <2>3, <2>4, TypoKeeps
<1> QED
  BY <1>3, <1>4, <1>5, <1>6, <1>7

\* So does what happens to the versions.
LEMMA ReleasesKeep ==
    ASSUME WorldInv,
           \/ \E m \in Publications : Publish(m)
           \/ \E v \in Published : Unpublish(v)
           \/ Tick
           \/ UNCHANGED vars
    PROVE  WorldInv'
<1>1. /\ Len(log) \in Nat /\ clock \in Nat
      /\ \A i \in 1 .. Len(log) : log[i] \in Entries /\ log[i].at \in Nat
  BY LogEntry DEF WorldInv
<1>2. UNCHANGED nameVars
  BY DEF Publish, Unpublish, Tick, vars
<1>3. NameInv'
  BY <1>2 DEF WorldInv, NameInv, OneSlip, nameVars
<1>4. MaxTime \in Nat /\ MaxActivity \in Nat
  BY ThresholdAssumption
<1>5. CASE \E m \in Publications : Publish(m)
  <2>1. PICK m \in Publications : Publish(m)
    BY <1>5
  <2> DEFINE e == Entry(m, clock)
  <2>2. e \in Entries /\ e.at = clock
    BY <1>1 DEF Entries, Entry
  <2>3. /\ log' = Append(log, e) /\ clock' = clock + 1 /\ withdrawn' = withdrawn
        /\ typos + Len(log) < MaxActivity /\ clock < MaxTime
    BY <2>1 DEF Publish, Entry
  <2> HIDE DEF e
  <2>4. /\ log' \in Seq(Entries) /\ Len(log') = Len(log) + 1 /\ log'[Len(log) + 1] = e
        /\ \A i \in 1 .. Len(log) : log'[i] = log[i]
    BY <1>1, <2>2, <2>3 DEF WorldInv, LogInv
  <2>5. typos \in Nat
    BY DEF WorldInv, NameInv
  <2>6. \A i \in 1 .. Len(log') : log'[i].at < clock'
    <3> SUFFICES ASSUME NEW i \in 1 .. Len(log') PROVE log'[i].at < clock'
      OBVIOUS
    <3>1. CASE i = Len(log) + 1
      BY <1>1, <2>2, <2>3, <2>4, <3>1
    <3>2. CASE i \in 1 .. Len(log)
      <4>1. log[i].at < clock
        BY <3>2 DEF WorldInv, LogInv
      <4>2. log'[i].at = log[i].at /\ log[i].at \in Nat
        BY <1>1, <2>4, <3>2
      <4> QED
        BY <1>1, <2>3, <4>1, <4>2
    <3> QED
      BY <1>1, <2>4, <3>1, <3>2
  <2>7. \A i, j \in 1 .. Len(log') : i < j => log'[i].at < log'[j].at
    <3> SUFFICES ASSUME NEW i \in 1 .. Len(log'), NEW j \in 1 .. Len(log'), i < j
                 PROVE  log'[i].at < log'[j].at
      OBVIOUS
    <3>1. i \in 1 .. Len(log) /\ log'[i].at = log[i].at
      BY <1>1, <2>4
    <3>2. CASE j = Len(log) + 1
      <4>1. log[i].at < clock
        BY <3>1 DEF WorldInv, LogInv
      <4>2. log'[j].at = clock
        BY <2>2, <2>4, <3>2
      <4> QED
        BY <3>1, <4>1, <4>2
    <3>3. CASE j \in 1 .. Len(log)
      <4>1. log[i].at < log[j].at
        BY <3>1, <3>3 DEF WorldInv, LogInv
      <4>2. log'[j].at = log[j].at
        BY <2>4, <3>3
      <4> QED
        BY <3>1, <4>1, <4>2
    <3> QED
      BY <1>1, <2>4, <3>2, <3>3
  <2>8. withdrawn' \subseteq 1 .. Len(log') /\ Len(log') <= MaxActivity /\ clock' \in 0 .. MaxTime
    <3>1. withdrawn \subseteq 1 .. Len(log)
      BY DEF WorldInv, LogInv
    <3> QED
      BY <1>1, <1>4, <2>3, <2>4, <2>5, <3>1
  <2>9. LogInv'
    BY <2>4, <2>6, <2>7, <2>8 DEF LogInv
  <2> QED
    BY <1>3, <2>9 DEF WorldInv
<1>6. CASE \E v \in Published : Unpublish(v)
  <2>1. log' = log /\ clock' = clock /\ withdrawn' \subseteq withdrawn \cup (1 .. Len(log))
    BY <1>6 DEF Unpublish, Published
  <2>2. LogInv'
    BY <2>1 DEF WorldInv, LogInv
  <2> QED
    BY <1>3, <2>2 DEF WorldInv
<1>7. CASE Tick
  <2>1. log' = log /\ withdrawn' = withdrawn /\ clock' = clock + 1 /\ clock < MaxTime
    BY <1>7 DEF Tick
  <2>2. \A i \in 1 .. Len(log') : log'[i].at < clock'
    <3>1. \A i \in 1 .. Len(log) : log[i].at < clock /\ log[i].at \in Nat
      BY <1>1 DEF WorldInv, LogInv
    <3>2. \A x \in Nat : x < clock => x < clock + 1
      BY <1>1
    <3> QED
      BY <2>1, <3>1, <3>2
  <2>3. clock' \in 0 .. MaxTime
    BY <1>1, <1>4, <2>1
  <2>4. LogInv'
    BY <2>1, <2>2, <2>3 DEF WorldInv, LogInv
  <2> QED
    BY <1>3, <2>4 DEF WorldInv
<1>8. CASE UNCHANGED vars
  <2>1. LogInv'
    BY <1>8 DEF WorldInv, LogInv, vars, worldVars
  <2> QED
    BY <1>3, <2>1 DEF WorldInv
<1> QED
  BY <1>5, <1>6, <1>7, <1>8

\* Whatever is typed, published and withdrawn, the distance between the name
\* and its origin, as levenshteinDistance computes it, is at most the number of
\* single-letter edits that were made, and the log is ordered in time.
THEOREM WorldInvariant == Spec => []WorldInv
<1>1. WorldInv /\ [Next]_vars => WorldInv'
  BY MistakesKeep, ReleasesKeep DEF Next
<1> QED
  BY WorldStarts, <1>1, PTL DEF Spec

-----------------------------------------------------------------------------
(* Packuments and the version before.                                      *)

Times == [k \in 0 .. Len(log) |-> IF k = 0 THEN log[1].at ELSE log[k].at]

\* The times of a packument are those of the log, except where it does not
\* parse or lies in the future.
Timed(time) ==
    /\ DOMAIN time \subseteq 0 .. Len(log)
    /\ \A k \in DOMAIN time \ {0} :
          time[k] = log[k].at \/ time[k] = Invalid \/ time[k] = clock + Slack + 1

\* The complete packument.
LEMMA CompleteFields ==
    /\ Complete.kind = "ok" /\ Complete.stale = FALSE /\ Complete.listed = TRUE
    /\ Complete.versions = Published \ withdrawn /\ Complete.time = Times
    /\ Complete = [kind |-> "ok", stale |-> FALSE, listed |-> TRUE,
                   versions |-> Published \ withdrawn, time |-> Times]
BY DEF Complete, Times

\* What every packument that has the version says of its times.
LEMMA PackumentTimes ==
    ASSUME NEW p \in {Complete} \cup Incomplete, NEW v \in p.versions
    PROVE  p.listed /\ (p.time = NoTime \/ Timed(p.time))
<1>1. \A k \in 0 .. Len(log) : k # 0 => Times[k] = log[k].at
  BY DEF Times
<1>2. Timed(Times) /\ DOMAIN Times = 0 .. Len(log)
  BY <1>1 DEF Timed, Times
<1>3. CASE p = Complete
  BY <1>2, <1>3, CompleteFields
<1>4. CASE p = [Complete EXCEPT !.listed = FALSE, !.versions = {}]
  <2>1. p.versions = {}
    BY <1>4, CompleteFields
  <2> QED
    BY <2>1
<1>5. CASE p = [Complete EXCEPT !.time = NoTime]
  BY <1>5, CompleteFields
<1>6. CASE p \in {[Complete EXCEPT !.stale = TRUE], [Complete EXCEPT !.kind = "failed"],
                  [Complete EXCEPT !.kind = "404"]}
  <2>1. p.time = Times /\ p.listed
    BY <1>6, CompleteFields
  <2> QED
    BY <1>2, <2>1
<1>7. ASSUME NEW k \in 0 .. Len(log),
             p = [Complete EXCEPT !.time = [j \in (0 .. Len(log)) \ {k} |-> Complete.time[j]]]
      PROVE  p.listed /\ Timed(p.time)
  <2>1. p.listed /\ p.time = [j \in (0 .. Len(log)) \ {k} |-> Times[j]]
    BY <1>7, CompleteFields
  <2> QED
    BY <1>1, <2>1 DEF Timed
<1>8. ASSUME NEW k \in 0 .. Len(log), p = [Complete EXCEPT !.time[k] = Invalid]
      PROVE  p.listed /\ Timed(p.time)
  <2>1. p.listed /\ p.time = [Times EXCEPT ![k] = Invalid]
    BY <1>8, CompleteFields
  <2> QED
    BY <1>1, <1>2, <2>1 DEF Timed
<1>9. ASSUME NEW k \in 0 .. Len(log), p = [Complete EXCEPT !.time[k] = clock + Slack + 1]
      PROVE  p.listed /\ Timed(p.time)
  <2>1. p.listed /\ p.time = [Times EXCEPT ![k] = clock + Slack + 1]
    BY <1>9, CompleteFields
  <2> QED
    BY <1>1, <1>2, <2>1 DEF Timed
<1> QED
  BY <1>3, <1>4, <1>5, <1>6, <1>7, <1>8, <1>9 DEF Incomplete

\* What HistoryProvider has seen of a packument it finds no fault with.
LEMMA HistoryAnswers ==
    ASSUME NEW p, NEW v, p.kind # "404", p.kind # "failed", p.listed, v \in p.versions,
           History(p, v).state \in {"available", "stale"}
    PROVE  /\ p.time # NoTime /\ v \in DOMAIN p.time
           /\ p.time[v] # Invalid /\ ~(p.time[v] > clock + Slack)
BY DEF History, Degraded

\* So the time of the version is the one it was published at.
LEMMA RightTime ==
    ASSUME LogInv, NEW p \in {Complete} \cup Incomplete, NEW v \in Published,
           p.kind # "404", p.kind # "failed", v \in p.versions,
           History(p, v).state \in {"available", "stale"}
    PROVE  p.time # NoTime /\ Timed(p.time) /\ v \in DOMAIN p.time /\ p.time[v] = log[v].at
<1>1. p.listed /\ (p.time = NoTime \/ Timed(p.time))
  BY PackumentTimes
<1>2. /\ p.time # NoTime /\ v \in DOMAIN p.time
      /\ p.time[v] # Invalid /\ ~(p.time[v] > clock + Slack)
  BY <1>1, HistoryAnswers
<1>3. v # 0
  BY DEF Published
<1>4. p.time[v] = log[v].at \/ p.time[v] = clock + Slack + 1
  BY <1>1, <1>2, <1>3 DEF Timed
<1>5. clock + Slack + 1 > clock + Slack
  BY LogEntry, ThresholdAssumption
<1> QED
  BY <1>1, <1>2, <1>4, <1>5

\* findPreviousVersion finds a version published before, and none that is
\* older than another one with a right time.
LEMMA PreviousVersion ==
    ASSUME LogInv, NEW time, Timed(time), NEW v \in Published, v \in DOMAIN time,
           time[v] = log[v].at
    PROVE  LET prev == findPreviousVersion(time, v)
           IN  /\ prev \in 0 .. v - 1
               /\ \A w \in DOMAIN time \cap 1 .. v - 1 : time[w] = log[w].at => w <= prev
<1> DEFINE timeline == {w \in DOMAIN time : w # 0 /\ time[w] # Invalid}
           earlier == {w \in timeline : time[w] < time[v]}
           prev == findPreviousVersion(time, v)
<1>1. /\ Len(log) \in Nat /\ clock \in Nat /\ v \in 1 .. Len(log) /\ Slack \in Nat
      /\ \A i \in 1 .. Len(log) : log[i].at \in Nat /\ log[i].at < clock
      /\ \A i, j \in 1 .. Len(log) : i < j => log[i].at < log[j].at
  BY LogEntry, ThresholdAssumption DEF LogInv, Published
<1>2. v \in timeline
  <2>1. Invalid # log[v].at
    BY <1>1, TimesAssumption
  <2> QED
    BY <1>1, <2>1
<1>3. ASSUME NEW w \in earlier PROVE w \in 1 .. v - 1 /\ time[w] = log[w].at
  <2>1. w \in 1 .. Len(log) /\ w \in Nat
    BY <1>1 DEF Timed
  <2>2. time[w] = log[w].at \/ time[w] = clock + Slack + 1
    BY DEF Timed
  <2>3. time[w] # clock + Slack + 1
    <3>1. time[w] < log[v].at
      OBVIOUS
    <3>2. \A x \in Nat : x < clock => ~(clock + Slack + 1 < x)
      BY <1>1
    <3> QED
      BY <1>1, <3>1, <3>2
  <2>4. log[w].at < log[v].at
    BY <2>2, <2>3
  <2>5. w < v
    <3>1. CASE w = v
      BY <1>1, <2>4, <3>1
    <3>2. CASE v < w
      <4>1. log[v].at < log[w].at
        BY <1>1, <2>1, <3>2
      <4> QED
        BY <1>1, <2>1, <2>4, <4>1
    <3> QED
      BY <1>1, <2>1, <3>1, <3>2
  <2> QED
    BY <1>1, <2>1, <2>2, <2>3, <2>5
<1>4. ASSUME NEW w \in DOMAIN time \cap 1 .. v - 1, time[w] = log[w].at PROVE w \in earlier
  <2>1. w \in 1 .. Len(log) /\ w < v /\ w # 0
    BY <1>1
  <2>2. log[w].at < log[v].at /\ log[w].at # Invalid
    BY <1>1, <2>1, TimesAssumption
  <2> QED
    BY <1>4, <2>1, <2>2
<1>5. CASE earlier = {}
  <2>1. prev = 0
    BY <1>5 DEF findPreviousVersion
  <2>2. \A w \in DOMAIN time \cap 1 .. v - 1 : time[w] # log[w].at
    BY <1>4, <1>5
  <2> QED
    BY <1>1, <2>1, <2>2
<1>6. CASE earlier # {}
  <2>1. prev = CHOOSE w \in earlier : \A u \in earlier : time[u] <= time[w]
    BY <1>2, <1>6 DEF findPreviousVersion
  <2> HIDE DEF prev, earlier, timeline
  <2>2. \E w \in earlier : \A u \in earlier : time[u] <= time[w]
    <3> DEFINE back == {v - u : u \in earlier}
    <3>1. back \subseteq Nat /\ back # {}
      BY <1>1, <1>3, <1>6
    <3>2. PICK n \in back : \A m \in back : n <= m
      BY <3>1, LeastNumber
    <3>3. PICK w \in earlier : n = v - w
      BY <3>2
    <3>4. ASSUME NEW u \in earlier PROVE time[u] <= time[w]
      <4>1. v - w <= v - u
        BY <3>2, <3>3
      <4>2. u \in 1 .. v - 1 /\ w \in 1 .. v - 1 /\ time[u] = log[u].at /\ time[w] = log[w].at
        BY <1>3
      <4>3. u \in 1 .. Len(log) /\ w \in 1 .. Len(log) /\ (u = w \/ u < w)
        BY <1>1, <4>1, <4>2
      <4>4. log[u].at \in Nat /\ log[w].at \in Nat /\ (u < w => log[u].at < log[w].at)
        BY <1>1, <4>3
      <4> QED
        BY <4>2, <4>3, <4>4
    <3> QED
      BY <3>4
  <2>3. prev \in earlier /\ \A u \in earlier : time[u] <= time[prev]
    BY <2>1, <2>2
  <2>4. prev \in 1 .. v - 1 /\ time[prev] = log[prev].at
    BY <1>3, <2>3
  <2>5. ASSUME NEW w \in DOMAIN time \cap 1 .. v - 1, time[w] = log[w].at PROVE w <= prev
    <3>1. log[w].at <= log[prev].at
      BY <1>4, <2>3, <2>4, <2>5
    <3>2. w \in 1 .. Len(log) /\ prev \in 1 .. Len(log)
      BY <1>1, <2>4
    <3>3. ~(prev < w)
      <4>1. prev < w => log[prev].at < log[w].at
        BY <1>1, <3>2
      <4>2. log[prev].at \in Nat /\ log[w].at \in Nat
        BY <1>1, <3>2
      <4> QED
        BY <3>1, <4>1, <4>2
    <3> QED
      BY <3>2, <3>3
  <2>6. prev \in 0 .. v - 1
    BY <1>1, <2>4
  <2> QED
    BY <2>5, <2>6 DEF prev
<1> QED
  BY <1>5, <1>6

-----------------------------------------------------------------------------
(* Takeovers.                                                              *)

PreviousOf(p, v) == IF p.time = NoTime THEN 0 ELSE findPreviousVersion(p.time, v)
Attested(v) == {a \in {"attestation_present"} : hasAttestation(log[v])}
Compared(p, v) == p.kind # "404" /\ p.kind # "failed" /\ v \in p.versions

\* What ProvenanceProvider says, in which case.
SaysOf(p, v) ==
    IF p.kind = "404" THEN {"not_found"}
    ELSE IF p.kind = "failed" THEN {"unavailable"}
    ELSE IF v \notin p.versions THEN {"version_not_found"}
    ELSE IF PreviousOf(p, v) = 0 THEN Attested(v) \cup {"initial_release"}
    ELSE IF PreviousOf(p, v) \notin p.versions THEN {"conflicting_metadata"}
    ELSE Attested(v) \cup Continuity(log[v], log[PreviousOf(p, v)])

\* ProvenanceProvider says nothing else.
LEMMA ProvenanceSays ==
    ASSUME NEW p, NEW v, NEW what
    PROVE  See("provenance", what) \in Provenance(p, v).obs <=> what \in SaysOf(p, v)
<1>1. Provenance(p, v).obs = {See("provenance", s) : s \in SaysOf(p, v)}
  <2> DEFINE prev == PreviousOf(p, v)
             attested == Attested(v)
             both == attested \cup Continuity(log[v], log[prev])
             first == attested \cup {"initial_release"}
             said(S) == Answered(p.stale, {See("provenance", s) : s \in S})
  <2>1. Provenance(p, v) =
            IF p.kind = "404" THEN Answered(FALSE, {See("provenance", "not_found")})
            ELSE IF p.kind = "failed" THEN Unavailable("provenance")
            ELSE IF v \notin p.versions THEN said({"version_not_found"})
            ELSE IF prev = 0 THEN said(first)
            ELSE IF prev \notin p.versions THEN Degraded("provenance", "conflicting_metadata")
            ELSE said(both)
    BY DEF Provenance, PreviousOf, Attested
  <2>2. SaysOf(p, v) =
            IF p.kind = "404" THEN {"not_found"}
            ELSE IF p.kind = "failed" THEN {"unavailable"}
            ELSE IF v \notin p.versions THEN {"version_not_found"}
            ELSE IF prev = 0 THEN first
            ELSE IF prev \notin p.versions THEN {"conflicting_metadata"}
            ELSE both
    BY DEF SaysOf
  <2> HIDE DEF prev, attested, both, first
  <2> QED
    BY <2>1, <2>2 DEF Answered, Unavailable, Degraded
<1>2. \A a, b : See("provenance", a) = See("provenance", b) <=> a = b
  BY DEF See
<1> HIDE DEF SaysOf
<1> QED
  BY <1>1, <1>2

\* A change of hands is a change to ProvenanceProvider.
LEMMA HandoverChanges ==
    ASSUME NEW cur, NEW prev, Handover(cur, prev)
    PROVE  Changes(cur, prev) # {}
<1>1. CASE {} \notin {cur.owners, prev.owners} /\ cur.owners # prev.owners
  <2>1. Maintainers(cur) # Maintainers(prev)
    BY <1>1 DEF Maintainers
  <2>2. "maintainer_set_changed" \in Changes(cur, prev)
    BY <2>1 DEF Changes
  <2> QED
    BY <2>2
<1>2. CASE NoOne \notin {cur.by, prev.by} /\ cur.by # prev.by
  <2>1. CASE cur.by \in Maintainers(prev)
    <3>1. "publisher_changed" \in Changes(cur, prev)
      BY <1>2, <2>1 DEF Changes
    <3> QED
      BY <3>1
  <2>2. CASE cur.by \notin Maintainers(prev)
    <3>1. "new_unrecognized_publisher" \in Changes(cur, prev)
      BY <1>2, <2>2 DEF Changes
    <3> QED
      BY <3>1
  <2> QED
    BY <2>1, <2>2
<1>3. CASE prev.repo # NoRepo /\ (cur.repo = NoRepo \/ cur.repo.path # prev.repo.path)
  <2>1. normalizeRepoURL(cur.repo) # normalizeRepoURL(prev.repo)
    <3>1. normalizeRepoURL(prev.repo)
            = <<IF prev.repo.scheme \in {"https", "git+https"} THEN "https" ELSE "", prev.repo.path>>
      BY <1>3 DEF normalizeRepoURL
    <3>2. CASE cur.repo = NoRepo
      BY <3>1, <3>2 DEF normalizeRepoURL
    <3>3. CASE cur.repo # NoRepo
      <4>1. normalizeRepoURL(cur.repo)
              = <<IF cur.repo.scheme \in {"https", "git+https"} THEN "https" ELSE "", cur.repo.path>>
        BY <3>3 DEF normalizeRepoURL
      <4>2. \A a, b, x, y : <<a, x>> = <<b, y>> => x = y
        OBVIOUS
      <4> QED
        BY <1>3, <3>1, <3>3, <4>1, <4>2, Zenon
    <3> QED
      BY <3>2, <3>3
  <2>2. "repository_changed" \in Changes(cur, prev)
    BY <1>3, <2>1 DEF Changes
  <2> QED
    BY <2>2
<1>4. CASE prev.signed /\ ~cur.signed
  <2>1. "attestation_removed" \in Changes(cur, prev)
    BY <1>4 DEF Changes, hasAttestation
  <2> QED
    BY <2>1
<1> QED
  BY <1>1, <1>2, <1>3, <1>4 DEF Handover

\* A version in other hands than the one before it is never passed off as
\* unchanged or as a first release by an answer nobody finds fault with.
LEMMA SeenInWorld == LogInv => TakeoverSeen
<1> SUFFICES ASSUME LogInv, NEW v \in 2 .. Len(log), NEW p \in {Complete} \cup Incomplete,
                    Handover(log[v], log[v - 1]),
                    p.time = NoTime \/ (v - 1 \in DOMAIN p.time /\ p.time[v - 1] = log[v - 1].at),
                    History(p, v).state \in {"available", "stale"},
                    NEW what \in {"unchanged", "initial_release"}
             PROVE  See("provenance", what) \notin Provenance(p, v).obs
  BY DEF TakeoverSeen
<1>1. Len(log) \in Nat /\ v \in Published /\ v - 1 \in 1 .. v - 1
  BY LogEntry DEF Published
<1>2. CASE ~Compared(p, v)
  <2>1. what \notin SaysOf(p, v)
    BY <1>2 DEF Compared, SaysOf
  <2> QED
    BY <2>1, ProvenanceSays
<1>3. CASE Compared(p, v)
  <2>1. p.time # NoTime /\ Timed(p.time) /\ v \in DOMAIN p.time /\ p.time[v] = log[v].at
    BY <1>1, <1>3, RightTime DEF Compared
  <2> DEFINE prev == findPreviousVersion(p.time, v)
  <2>2. /\ prev \in 0 .. v - 1
        /\ \A w \in DOMAIN p.time \cap 1 .. v - 1 : p.time[w] = log[w].at => w <= prev
    BY <1>1, <2>1, PreviousVersion
  <2>3. prev = v - 1 /\ prev # 0
    <3> HIDE DEF prev
    <3>1. v - 1 <= prev
      BY <1>1, <2>1, <2>2
    <3> QED
      BY <2>2, <3>1
  <2>4. PreviousOf(p, v) = v - 1
    BY <2>1, <2>3 DEF PreviousOf
  <2> HIDE DEF prev
  <2>5. SaysOf(p, v) = IF v - 1 \notin p.versions THEN {"conflicting_metadata"}
                       ELSE Attested(v) \cup Continuity(log[v], log[v - 1])
    BY <1>3, <2>3, <2>4 DEF SaysOf, Compared
  <2>6. what \notin Continuity(log[v], log[v - 1])
    <3>1. Changes(log[v], log[v - 1]) # {}
      BY HandoverChanges
    <3>2. what \notin Changes(log[v], log[v - 1])
      BY DEF Changes
    <3> QED
      BY <3>1, <3>2 DEF Continuity
  <2>7. what \notin Attested(v)
    BY DEF Attested
  <2>8. what \notin SaysOf(p, v)
    BY <2>5, <2>6, <2>7
  <2> QED
    BY <2>8, ProvenanceSays
<1> QED
  BY <1>2, <1>3

\* The same in every reachable state: for every history of publications and
\* withdrawals, every threshold, and every incomplete packument.
THEOREM TakeoversAreSeen == Spec => []TakeoverSeen
<1>1. WorldInv => TakeoverSeen
  BY SeenInWorld DEF WorldInv
<1> QED
  BY <1>1, WorldInvariant, PTL

\* A reported change has its cause in an earlier version.
LEMMA CausedInWorld == LogInv => AlarmHasCause
<1> SUFFICES ASSUME LogInv, NEW v \in Published, NEW p \in {Complete} \cup Incomplete,
                    See("provenance", "changed") \in Provenance(p, v).obs,
                    History(p, v).state \in {"available", "stale"}
             PROVE  \E w \in 1 .. v - 1 :
                       \/ \E f \in {"by", "repo", "signed"} : log[v][f] # log[w][f]
                       \/ log[v].owners # log[w].owners
  BY DEF AlarmHasCause
<1>1. "changed" \in SaysOf(p, v)
  BY ProvenanceSays
<1>2. /\ Compared(p, v) /\ PreviousOf(p, v) # 0
      /\ "changed" \in Attested(v) \cup Continuity(log[v], log[PreviousOf(p, v)])
  BY <1>1 DEF SaysOf, Compared, Attested
<1>3. p.time # NoTime /\ Timed(p.time) /\ v \in DOMAIN p.time /\ p.time[v] = log[v].at
  BY <1>2, RightTime DEF Compared
<1> DEFINE w == PreviousOf(p, v)
<1>4. w \in 1 .. v - 1
  <2>1. w = findPreviousVersion(p.time, v)
    BY <1>3 DEF PreviousOf
  <2>2. findPreviousVersion(p.time, v) \in 0 .. v - 1
    BY <1>3, PreviousVersion
  <2>3. w \in 0 .. v - 1 /\ w # 0
    BY <1>2, <2>1, <2>2
  <2> HIDE DEF w
  <2> QED
    BY <2>3
<1>5. Changes(log[v], log[w]) # {}
  <2>1. "changed" \in Continuity(log[v], log[w])
    BY <1>2 DEF Attested
  <2> QED
    BY <2>1 DEF Continuity
<1> HIDE DEF w
<1> DEFINE cur == log[v]
           old == log[w]
<1>6. \/ cur.owners # old.owners \/ cur.by # old.by \/ cur.repo # old.repo
      \/ cur.signed # old.signed
  <2> SUFFICES ASSUME cur.owners = old.owners, cur.by = old.by, cur.repo = old.repo,
                      cur.signed = old.signed
               PROVE  FALSE
    OBVIOUS
  <2>1. Changes(cur, old) # {}
    BY <1>5
  <2> HIDE DEF cur, old
  <2>2. Maintainers(cur) = Maintainers(old)
    BY DEF Maintainers
  <2>3. hasAttestation(cur) = hasAttestation(old)
    BY DEF hasAttestation
  <2>4. normalizeRepoURL(cur.repo) = normalizeRepoURL(old.repo)
    OBVIOUS
  <2>5. Changes(cur, old) = {}
    BY <2>2, <2>3, <2>4 DEF Changes
  <2> QED
    BY <2>1, <2>5
<1> QED
  BY <1>4, <1>6

\* No alarm is raised by what came later, in any reachable state.
THEOREM AlarmsHaveCauses == Spec => []AlarmHasCause
<1>1. WorldInv => AlarmHasCause
  BY CausedInWorld DEF WorldInv
<1> QED
  BY <1>1, WorldInvariant, PTL

-----------------------------------------------------------------------------
(* Typing mistakes.                                                        *)

\* The bytes of a name: at least its letters.
LEMMA Bytes ==
    ASSUME NEW S, NEW s \in Seq(S)
    PROVE  ByteLen(s) \in Nat /\ ByteLen(s) >= Len(s)
<1> DEFINE wide == {i \in 1 .. Len(s) : s[i] \in DOMAIN Lookalike}
<1>1. Len(s) \in Nat /\ IsFiniteSet(1 .. Len(s)) /\ wide \subseteq 1 .. Len(s)
  BY FS_Interval
<1>2. IsFiniteSet(wide)
  BY <1>1, FS_Subset
<1>3. Cardinality(wide) \in Nat
  BY <1>2, FS_CardinalityType
<1>4. ByteLen(s) = Len(s) + Cardinality(wide)
  BY DEF ByteLen
<1> HIDE DEF wide
<1> QED
  BY <1>1, <1>3, <1>4

\* One edit from a popular name of four letters, or two from one of ten, is near it.
LEMMA EditIsNear ==
    ASSUME NEW S, NEW s \in Seq(S), NEW t \in Seq(S), s # t,
           levenshteinDistance(s, t) \in Nat,
           \/ levenshteinDistance(s, t) <= 1 /\ Len(t) >= 4
           \/ levenshteinDistance(s, t) <= 2 /\ Len(t) >= 10
    PROVE  Near(s, t)
<1> DEFINE dist == levenshteinDistance(s, t)
<1>1. dist # 0
  BY ZeroDistance
<1>2. /\ ByteLen(s) \in Nat /\ ByteLen(t) \in Nat /\ ByteLen(t) >= Len(t) /\ Len(t) \in Nat
      /\ LongerOf(ByteLen(s), ByteLen(t)) \in Nat
      /\ LongerOf(ByteLen(s), ByteLen(t)) >= ByteLen(t)
  BY Bytes DEF LongerOf
<1>3. dist \in Nat /\ ((dist <= 1 /\ Len(t) >= 4) \/ (dist <= 2 /\ Len(t) >= 10))
  OBVIOUS
<1>4. Near(s, t) <=> \/ dist = 1 /\ ByteLen(t) >= 4
                     \/ dist = 2 /\ ByteLen(t) >= 8 /\ 5 * dist <= LongerOf(ByteLen(s), ByteLen(t))
  BY DEF Near
<1> HIDE DEF dist
<1>5. dist = 1 \/ dist = 2
  BY <1>1, <1>3
<1>6. CASE dist = 1
  BY <1>2, <1>3, <1>4, <1>6
<1>7. CASE dist = 2
  <2>1. Len(t) >= 10 /\ 5 * dist = 10
    BY <1>2, <1>3, <1>7
  <2> QED
    BY <1>2, <1>4, <1>7, <2>1
<1> QED
  BY <1>5, <1>6, <1>7

\* Two swapped letters are a transposition, unless they are the same.
LEMMA SwapIsTransposition ==
    ASSUME NEW t \in Popular, Len(t) >= 4, NEW i \in 1 .. Len(t) - 1, Swapped(t, i) # t
    PROVE  isTransposition(Swapped(t, i), t)
<1> DEFINE s == Swapped(t, i)
           k == i + 1
<1>1. t \in Seq(Range(t)) /\ Range(t) \cap DOMAIN Lookalike = {}
  BY PopularAssumption
<1>2. i \in 1 .. Len(t) /\ k \in 1 .. Len(t) /\ i # k /\ Len(t) \in Nat
  BY <1>1
<1>3. s = [x \in 1 .. Len(t) |-> IF x = i THEN t[k] ELSE IF x = k THEN t[i] ELSE t[x]]
  BY <1>1, <1>2 DEF Swapped
<1>4. s \in Seq(Range(t)) /\ Len(s) = Len(t)
  BY <1>1, SwapCost
<1> HIDE DEF s, k
<1>5. s[i] = t[k] /\ s[k] = t[i] /\ \A x \in 1 .. Len(t) : x # i /\ x # k => s[x] = t[x]
  BY <1>2, <1>3
<1>6. t[i] # t[k]
  <2> SUFFICES ASSUME t[i] = t[k] PROVE FALSE
    OBVIOUS
  <2>1. \A x \in 1 .. Len(t) : s[x] = t[x]
    BY <1>5
  <2>2. s = t
    BY <1>1, <1>4, <2>1, SeqEqual
  <2> QED
    BY <2>2 DEF s
<1>7. DiffIndices(s, t) = {i, k}
  BY <1>2, <1>4, <1>5, <1>6 DEF DiffIndices
<1>8. AsciiOnly(s)
  <2>1. \A x \in 1 .. Len(s) : s[x] \in Range(t)
    BY <1>4, ElementOfSeq
  <2>2. DOMAIN s = 1 .. Len(s)
    BY <1>4
  <2>3. Range(s) \subseteq Range(t)
    BY <2>1, <2>2 DEF Range
  <2> QED
    BY <1>1, <2>3 DEF AsciiOnly
<1>9. Len(s) >= 3 /\ i \in 1 .. Len(s) - 1
  BY <1>2, <1>4
<1>10. isTransposition(s, t)
  BY <1>4, <1>5, <1>7, <1>8, <1>9 DEF isTransposition, k
<1> QED
  BY <1>10 DEF s

\* A popular name behind a scope is found.
LEMMA ScopeIsConfusion ==
    ASSUME NEW t \in Popular
    PROVE  ScopeConfusion(<<"@", "s", "/">> \o t)
<1> DEFINE h == <<"@", "s", "/">>
           s == h \o t
<1>1. t \in Seq(Symbols) /\ "@" \in Symbols /\ "s" \in Symbols /\ "/" \in Symbols
  BY PopularNames DEF Symbols
<1>2. h \in Seq(Symbols) /\ Len(h) = 3 /\ h[1] = "@" /\ h[2] = "s" /\ h[3] = "/"
  BY <1>1
<1> HIDE DEF h
<1>3. Joins(h \o t, h, t, 3, Symbols)
  BY <1>1, <1>2, Joined
<1> HIDE DEF s
<1>4. /\ s \in Seq(Symbols) /\ Len(s) = 3 + Len(t)
      /\ \A x \in 1 .. 3 : s[x] = h[x]
      /\ \A x \in 1 .. Len(t) : s[3 + x] = t[x]
  BY <1>3 DEF Joins, s
<1>5. Len(t) \in Nat /\ Len(s) \in Nat /\ 3 \in 0 .. Len(s) /\ 3 \in 2 .. Len(s)
  BY <1>1, <1>4
<1>6. s # <<>> /\ Head(s) = "@" /\ s[3] = "/" /\ \A j \in 2 .. 3 - 1 : s[j] # "/"
  <2>1. s[1] = "@" /\ s[2] = "s" /\ s[3] = "/"
    BY <1>2, <1>4
  <2>2. s # <<>> /\ Head(s) = s[1]
    BY <1>4, <1>5
  <2>3. \A j \in 2 .. 3 - 1 : j = 2
    OBVIOUS
  <2>4. "s" # "/"
    OBVIOUS
  <2> QED
    BY <2>1, <2>2, <2>3, <2>4
<1>7. SubSeq(s, 3 + 1, Len(s)) = t
  <2> DEFINE r == SubSeq(s, 3 + 1, Len(s))
  <2>1. /\ r \in Seq(Symbols) /\ Len(r) = Len(s) - 3
        /\ \A x \in 1 .. Len(s) - 3 : r[x] = s[3 + x]
    BY <1>4, <1>5, Ending
  <2> HIDE DEF r
  <2>2. Len(s) - 3 = Len(t)
    BY <1>4, <1>5
  <2>3. \A x \in 1 .. Len(r) : r[x] = t[x]
    BY <1>4, <2>1, <2>2
  <2>4. r = t
    BY <1>1, <2>1, <2>2, <2>3, SeqEqual
  <2> QED
    BY <2>4 DEF r
<1>8. ScopeConfusion(s)
  BY <1>5, <1>6, <1>7 DEF ScopeConfusion
<1> QED
  BY <1>8 DEF s, h

\* The mistakes that TypoHeld is about are all found.
LEMMA MistakeIsFound ==
    ASSUME NameInv, typos = 1 \/ (edits = 2 /\ Len(origin) >= 10), name \notin Popular,
           Len(origin) >= 4
    PROVE  evaluateCandidate(name)
<1>1. /\ origin \in Popular \ {name} /\ name \in Seq(Symbols) /\ origin # name
      /\ levenshteinDistance(name, origin) \in Nat
      /\ levenshteinDistance(name, origin) <= edits
      /\ typos = 1 => OneSlip
  BY DEF NameInv
<1>2. origin \in Seq(Symbols)
  BY <1>1, PopularNames
<1>3. CASE edits = 1 \/ (edits = 2 /\ Len(origin) >= 10)
  <2>1. Near(name, origin)
    BY <1>1, <1>2, <1>3, EditIsNear
  <2> QED
    BY <1>1, <2>1 DEF evaluateCandidate
<1>4. CASE \E i \in 1 .. Len(origin) - 1 : name = Swapped(origin, i)
  <2>1. PICK i \in 1 .. Len(origin) - 1 : name = Swapped(origin, i)
    BY <1>4
  <2>2. isTransposition(name, origin)
    BY <1>1, <2>1, SwapIsTransposition
  <2> QED
    BY <1>1, <2>2 DEF evaluateCandidate
<1>5. CASE name = <<"@", "s", "/">> \o origin
  <2>1. ScopeConfusion(name)
    BY <1>1, <1>5, ScopeIsConfusion
  <2> QED
    BY <2>1 DEF evaluateCandidate
<1> QED
  BY <1>1, <1>3, <1>4, <1>5 DEF OneSlip

\* HistoryProvider sees how young a package or its last version is.
LEMMA YouthIsSeen ==
    ASSUME LogInv, log # <<>>, Len(log) \notin withdrawn,
           clock - log[1].at < Newborn \/ clock - log[Len(log)].at < Fresh
    PROVE  \E age \in {"newborn", "fresh"} :
              See("package_age", age) \in History(Complete, Len(log)).obs
<1> DEFINE n == Len(log)
<1>1. /\ n \in Nat /\ clock \in Nat /\ Slack \in Nat /\ MaxTime \in Nat /\ clock <= MaxTime
      /\ n <= MaxActivity /\ MaxActivity \in Nat
      /\ \A i \in 1 .. n : log[i].at \in Nat /\ log[i].at < clock
  BY LogEntry, ThresholdAssumption DEF LogInv
<1>2. n # 0
  BY DEF LogInv
<1>3. 1 \in 1 .. n /\ n \in 1 .. n /\ 0 \in 0 .. n /\ n \in 0 .. n
  BY <1>1, <1>2
<1>4. Times[0] = log[1].at /\ Times[n] = log[n].at /\ DOMAIN Times = 0 .. n
  BY <1>2, <1>3 DEF Times
<1>5. Times # NoTime
  <2>1. \A k \in 0 .. n : (IF k = 0 THEN log[1].at ELSE log[k].at) \in 0 .. MaxTime
    <3> SUFFICES ASSUME NEW k \in 0 .. n
                 PROVE  (IF k = 0 THEN log[1].at ELSE log[k].at) \in 0 .. MaxTime
      OBVIOUS
    <3>1. \A i \in 1 .. n : log[i].at \in 0 .. MaxTime
      BY <1>1
    <3> QED
      BY <1>1, <1>3, <3>1
  <2>2. Times \in [0 .. n -> 0 .. MaxTime]
    BY <2>1 DEF Times
  <2>3. n \in 0 .. MaxActivity
    BY <1>1
  <2> HIDE DEF n
  <2> QED
    BY <2>2, <2>3, TimesAssumption
<1>6. /\ Times[0] # Invalid /\ Times[n] # Invalid /\ ~(Times[n] > clock + Slack)
  BY <1>1, <1>3, <1>4, TimesAssumption
<1>7. n \in Complete.versions
  BY <1>3, CompleteFields DEF Published
<1>8. /\ Complete.kind # "404" /\ Complete.kind # "failed" /\ Complete.time = Times
      /\ {0, n} \cap DOMAIN Complete.time = {0, n}
  BY <1>3, <1>4, CompleteFields
<1> HIDE DEF n
<1>9. History(Complete, n).obs = {See("package_age", Age(Complete, n)), See("publish_history", Gap(Complete, n))}
  BY <1>5, <1>6, <1>7, <1>8 DEF History, Answered
<1>10. Age(Complete, n) \in {"newborn", "fresh"}
  <2>1. clock - Times[0] < Newborn \/ clock - Times[n] < Fresh
    BY <1>4 DEF n
  <2> QED
    BY <1>8, <2>1 DEF Age
<1> QED
  BY <1>9, <1>10 DEF n

\* A confusable name and a young package hold the version.
LEMMA ConfusableIsHeld ==
    ASSUME NEW seen, NEW states, NEW t, NEW profile \in Profiles,
           See("name_confusion", "confusion_detected") \in seen,
           \E age \in {"newborn", "fresh"} : See("package_age", age) \in seen
    PROVE  Holds(Evaluate(profile, Assess(seen, states, t)).verdict)
<1> DEFINE a == Assess(seen, states, t)
<1>1. ASSUME NEW m \in Meanings, [kind |-> m[1], observation |-> m[2]] \in seen
      PROVE  m[3] \in a
  BY <1>1 DEF Assess
<1>2. /\ <<"name_confusion", "confusion_detected", "StrongNameConfusion">> \in Meanings
      /\ \A age \in {"newborn", "fresh"} : <<"package_age", age, "NewbornOrFresh">> \in Meanings
  BY DEF Meanings
<1> HIDE DEF a
<1>3. "StrongNameConfusion" \in a
  <2> DEFINE m == <<"name_confusion", "confusion_detected", "StrongNameConfusion">>
  <2>1. m[1] = "name_confusion" /\ m[2] = "confusion_detected" /\ m[3] = "StrongNameConfusion"
    OBVIOUS
  <2>2. m \in Meanings
    BY <1>2
  <2> HIDE DEF m
  <2> QED
    BY <1>1, <2>1, <2>2 DEF See
<1>4. "NewbornOrFresh" \in a
  <2>1. PICK age \in {"newborn", "fresh"} : See("package_age", age) \in seen
    OBVIOUS
  <2> DEFINE m == <<"package_age", age, "NewbornOrFresh">>
  <2>2. m[1] = "package_age" /\ m[2] = age /\ m[3] = "NewbornOrFresh"
    OBVIOUS
  <2>3. m \in Meanings
    BY <1>2
  <2> HIDE DEF m
  <2> QED
    BY <1>1, <2>1, <2>2, <2>3 DEF See
<1>5. Confusable(a)
  BY <1>3, <1>4 DEF Confusable
<1>6. Holds(Evaluate(profile, a).verdict)
  BY <1>5, RuleVerdicts DEF Evaluate, Rule, Holds
<1> QED
  BY <1>6 DEF a

\* A young package one slip away from a popular name is held.
LEMMA HeldInWorld == WorldInv => TypoHeld
<1> SUFFICES ASSUME WorldInv, typos = 1 \/ (edits = 2 /\ Len(origin) >= 10),
                    name \notin Popular, Len(origin) >= 4, log # <<>>, Len(log) \notin withdrawn,
                    clock - log[1].at < Newborn \/ clock - log[Len(log)].at < Fresh,
                    NEW a \in Advisories, NEW profile \in Profiles, NEW t \in Severities
             PROVE  Holds(Evaluate(profile,
                            Assess((Confusion(name).obs \cup History(Complete, Len(log)).obs
                                    \cup Provenance(Complete, Len(log)).obs) \cup Advisory(a).obs,
                                   {Advisory(a).state}, t)).verdict)
  BY Zenon DEF TypoHeld
<1>1. evaluateCandidate(name)
  BY MistakeIsFound DEF WorldInv
<1>2. See("name_confusion", "confusion_detected") \in Confusion(name).obs
  <2>1. Popular # {}
    BY DEF WorldInv, NameInv
  <2> QED
    BY <1>1, <2>1 DEF Confusion, Answered
<1>3. \E age \in {"newborn", "fresh"} : See("package_age", age) \in History(Complete, Len(log)).obs
  BY YouthIsSeen DEF WorldInv
<1> DEFINE seen == (Confusion(name).obs \cup History(Complete, Len(log)).obs
                    \cup Provenance(Complete, Len(log)).obs) \cup Advisory(a).obs
           states == {Advisory(a).state}
<1>4. See("name_confusion", "confusion_detected") \in seen
  BY <1>2, Zenon
<1>5. \E age \in {"newborn", "fresh"} : See("package_age", age) \in seen
  BY <1>3, Zenon
<1> HIDE DEF seen, states
<1>6. Holds(Evaluate(profile, Assess(seen, states, t)).verdict)
  BY <1>4, <1>5, ConfusableIsHeld
<1> QED
  BY <1>6 DEF seen, states

\* In every reachable state, for every corpus and whatever the advisory
\* database answers: ConfusionProvider finds the name and the matrix holds it.
THEOREM TyposAreHeld == Spec => []TypoHeld
<1>1. WorldInv => TypoHeld
  BY HeldInWorld
<1> QED
  BY <1>1, WorldInvariant, PTL
=============================================================================
