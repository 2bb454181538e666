--------------------- MODULE ArchiveInspectionProofs ---------------------
(***************************************************************************)
(* Proofs about ArchiveInspection, for every archive and all limits.       *)
(*                                                                         *)
(* The model has two folds: path.Clean takes the segments of a path one by *)
(* one, and the reference definition of the extracted size sums entries.   *)
(* The first two sections establish what a fold computes.  Nothing here is *)
(* an induction in form: a claim about every set, or every length, is      *)
(* proved by looking at a smallest one for which it fails.  The third      *)
(* shows that a cleaned path that does not begin with ".." belongs to a    *)
(* path that never leads above its starting point, segment by segment.     *)
(* The rest is the loop: what it has tallied (ReadInv), and what its       *)
(* result says about the manifest (ManifestInv).                           *)
(***************************************************************************)
EXTENDS ArchiveInspection, FiniteSetTheorems, WellFoundedInduction, TLAPS

-----------------------------------------------------------------------------
(* Smallest counterexamples.                                               *)

\* A nonempty family of subsets of a finite set has a minimal member.
LEMMA MinimalSet ==
    ASSUME NEW S, IsFiniteSet(S), NEW T, T \subseteq SUBSET S, T # {}
    PROVE  \E x \in T : \A y \in T : y \subseteq x => y = x
<1>1. IsWellFoundedOn(StrictSubsetOrdering(S), SUBSET S)
  BY FS_StrictSubsetOrderingWellFounded, FS_FiniteSubsetsOfFinite
<1>2. PICK x \in T : \A y \in T : ~ (<<y, x>> \in StrictSubsetOrdering(S))
  BY <1>1, WFMin
<1>3. \A y \in T : y \subseteq x => y = x
  BY <1>2 DEF StrictSubsetOrdering
<1> QED
  BY <1>3

\* A nonempty set of natural numbers has a least one.
LEMMA LeastNumber ==
    ASSUME NEW T, T \subseteq Nat, T # {}
    PROVE  \E n \in T : \A m \in T : n <= m
<1>1. PICK n \in T : \A m \in T : ~ (<<m, n>> \in OpToRel(<, Nat))
  BY NatLessThanWellFounded, WFMin
<1>2. \A m \in T : ~(m < n)
  BY <1>1 DEF OpToRel
<1> QED
  BY <1>2

\* The last position of a set of positions.
LEMMA LastPosition ==
    ASSUME NEW n \in Nat, NEW d \in SUBSET (1 .. n), d # {}
    PROVE  Max(d) \in d /\ \A i \in d : i <= Max(d)
<1> DEFINE T == {n - i : i \in d}
<1>1. T \subseteq Nat /\ T # {}
  <2>1. \A i \in d : n - i \in Nat
    OBVIOUS
  <2> QED
    BY <2>1
<1>2. PICK least \in T : \A m \in T : least <= m
  <2> HIDE DEF T
  <2> QED
    BY <1>1, LeastNumber
<1>3. PICK j \in d : least = n - j
  BY <1>2
<1>4. \A i \in d : j >= i
  BY <1>2, <1>3
<1>5. \E x \in d : \A y \in d : x >= y
  BY <1>4
<1>6. Max(d) \in d /\ \A i \in d : Max(d) >= i
  BY <1>5 DEF Max
<1> QED
  BY <1>6

-----------------------------------------------------------------------------
(* Folds.                                                                  *)

\* One turn of the two folds of the model, and where they start.
Turn(kind, acc, x) == IF kind = "size" THEN acc + x.size ELSE CleanStep(acc, x)
Start(kind)        == IF kind = "size" THEN 0 ELSE <<>>

\* The equation of a fold over the positions U of a sequence, last one first.
Solves(g, kind, s, U) ==
    g = [d \in SUBSET U |-> IF d = {} THEN Start(kind)
                            ELSE Turn(kind, g[d \ {Max(d)}], s[Max(d)])]

Total(kind, s, U) == CHOOSE g : Solves(g, kind, s, U)
Fold(kind, s)     == Total(kind, s, DOMAIN s)[DOMAIN s]

\* Positions, of which every set has a last one.
Ordered(P) == IsFiniteSet(P) /\ \A d \in SUBSET P : d # {} => Max(d) \in d

\* The positions of a sequence are ordered.
LEMMA PositionsOrdered ==
    ASSUME NEW n \in Nat
    PROVE  Ordered(1 .. n)
<1>1. IsFiniteSet(1 .. n)
  BY FS_Interval
<1>2. \A d \in SUBSET (1 .. n) : d # {} => Max(d) \in d
  BY LastPosition
<1> QED
  BY <1>1, <1>2 DEF Ordered

\* Two solutions agree wherever their sequences do.
LEMMA SolutionsAgree ==
    ASSUME NEW P, Ordered(P), NEW kind, NEW s, NEW t, \A i \in P : s[i] = t[i],
           NEW U, P \subseteq U, NEW g, NEW h, Solves(g, kind, s, U), Solves(h, kind, t, P)
    PROVE  \A d \in SUBSET P : g[d] = h[d]
<1> DEFINE Differ == {c \in SUBSET P : g[c] # h[c]}
<1> SUFFICES ASSUME Differ # {} PROVE FALSE
  OBVIOUS
<1>1. \A c \in SUBSET P :
        /\ c = {} => g[c] = Start(kind)
        /\ c # {} => g[c] = Turn(kind, g[c \ {Max(c)}], s[Max(c)])
  <2>1. \A c \in SUBSET P : c \in SUBSET U
    OBVIOUS
  <2> QED
    BY <2>1 DEF Solves
<1>2. \A c \in SUBSET P :
        /\ c = {} => h[c] = Start(kind)
        /\ c # {} => h[c] = Turn(kind, h[c \ {Max(c)}], t[Max(c)])
  BY DEF Solves
<1>3. PICK c \in Differ : \A y \in Differ : y \subseteq c => y = c
  <2>1. Differ \subseteq SUBSET P
    OBVIOUS
  <2>2. IsFiniteSet(P)
    BY DEF Ordered
  <2> HIDE DEF Differ
  <2>3. \A T : T \subseteq SUBSET P /\ T # {} =>
                 \E x \in T : \A y \in T : y \subseteq x => y = x
    BY <2>2, MinimalSet
  <2> QED
    BY <2>1, <2>3
<1>4. c \in SUBSET P /\ g[c] # h[c]
  BY <1>3
<1>5. c # {}
  BY <1>1, <1>2, <1>4
<1>6. Max(c) \in c
  BY <1>4, <1>5 DEF Ordered
<1>7. g[c \ {Max(c)}] = h[c \ {Max(c)}]
  BY <1>3, <1>4, <1>6
<1>8. s[Max(c)] = t[Max(c)]
  BY <1>4, <1>6
<1> HIDE DEF Differ
<1> QED
  BY <1>1, <1>2, <1>4, <1>5, <1>7, <1>8

\* So are some of them.
LEMMA OrderedSubset ==
    ASSUME NEW P, Ordered(P), NEW d \in SUBSET P
    PROVE  Ordered(d)
<1>1. IsFiniteSet(d)
  BY FS_Subset DEF Ordered
<1>2. \A c \in SUBSET d : c \in SUBSET P
  OBVIOUS
<1> QED
  BY <1>1, <1>2 DEF Ordered

\* The equation has a solution.
LEMMA SolutionExists ==
    ASSUME NEW P, Ordered(P), NEW kind, NEW s
    PROVE  Solves(Total(kind, s, P), kind, s, P)
<1> DEFINE Unsolved == {V \in SUBSET P : ~\E g : Solves(g, kind, s, V)}
           T(V) == Total(kind, s, V)
<1>1. \A V \in SUBSET P : V \notin Unsolved => Solves(T(V), kind, s, V)
  BY DEF Total
<1> SUFFICES ASSUME Unsolved # {} PROVE FALSE
  <2>1. P \in SUBSET P
    OBVIOUS
  <2> QED
    BY <1>1, <2>1
<1>2. PICK W \in Unsolved : \A V \in Unsolved : V \subseteq W => V = W
  <2>1. Unsolved \subseteq SUBSET P
    OBVIOUS
  <2>2. IsFiniteSet(P)
    BY DEF Ordered
  <2> HIDE DEF Unsolved
  <2>3. \A F : F \subseteq SUBSET P /\ F # {} =>
                 \E x \in F : \A y \in F : y \subseteq x => y = x
    BY <2>2, MinimalSet
  <2> QED
    BY <2>1, <2>3
<1>3. W \in SUBSET P /\ \A g : ~Solves(g, kind, s, W)
  BY <1>2
<1>4. \A V \in SUBSET W : V # W => Solves(T(V), kind, s, V)
  BY <1>1, <1>2, <1>3
<1> HIDE DEF Unsolved, T
<1> DEFINE rest(d) == d \ {Max(d)}
           f == [d \in SUBSET W |->
                   IF d = {} THEN Start(kind)
                   ELSE Turn(kind, T(rest(d))[rest(d)], s[Max(d)])]
<1>5. \A d \in SUBSET W : d # {} => Max(d) \in d
  BY <1>3 DEF Ordered
<1>6. ASSUME NEW d \in SUBSET W, d # W
      PROVE  f[d] = T(d)[d]
  <2>1. Solves(T(d), kind, s, d)
    BY <1>4, <1>6
  <2>2. T(d)[d] = IF d = {} THEN Start(kind) ELSE Turn(kind, T(d)[rest(d)], s[Max(d)])
    BY <2>1 DEF Solves
  <2>3. ASSUME d # {} PROVE T(d)[rest(d)] = T(rest(d))[rest(d)]
    <3> DEFINE c == rest(d)
               g == T(d)
               h == T(c)
    <3>1. c \in SUBSET W /\ c # W /\ c \in SUBSET P /\ c \subseteq d
      BY <1>3, <1>5, <2>3
    <3>2. Solves(h, kind, s, c)
      BY <3>1, <1>4
    <3>3. Ordered(c)
      <4> HIDE DEF c
      <4> QED
        BY <3>1, OrderedSubset
    <3>4. \A i \in c : s[i] = s[i]
      OBVIOUS
    <3>5. \A e \in SUBSET c : g[e] = h[e]
      <4> HIDE DEF c, g, h
      <4> QED
        BY <2>1, <3>1, <3>2, <3>3, <3>4, SolutionsAgree DEF g
    <3> QED
      BY <3>5
  <2> QED
    BY <2>2, <2>3
<1>7. ASSUME NEW d \in SUBSET W, d # {} PROVE f[rest(d)] = T(rest(d))[rest(d)]
  <2>1. rest(d) \in SUBSET W /\ rest(d) # W
    BY <1>5, <1>7
  <2> HIDE DEF f, rest
  <2> QED
    BY <1>6, <2>1
<1>8. f = [d \in SUBSET W |-> IF d = {} THEN Start(kind)
                              ELSE Turn(kind, f[rest(d)], s[Max(d)])]
  BY <1>7
<1>9. Solves(f, kind, s, W)
  <2> HIDE DEF f
  <2> QED
    BY <1>8 DEF Solves
<1> QED
  BY <1>3, <1>9

\* The fold of the empty sequence.
LEMMA FoldNothing ==
    ASSUME NEW kind
    PROVE  Fold(kind, <<>>) = Start(kind)
<1>1. DOMAIN <<>> = {}
  OBVIOUS
<1>2. Ordered({})
  BY FS_EmptySet DEF Ordered
<1>3. Solves(Total(kind, <<>>, {}), kind, <<>>, {})
  BY <1>2, SolutionExists
<1> QED
  BY <1>1, <1>3 DEF Fold, Solves

\* An element more is a turn more.
LEMMA FoldAppend ==
    ASSUME NEW kind, NEW A, NEW s \in Seq(A), NEW x \in A
    PROVE  Fold(kind, Append(s, x)) = Turn(kind, Fold(kind, s), x)
<1> DEFINE n == Len(s)
           t == Append(s, x)
           P == 1 .. n
           Q == 1 .. n + 1
           g == Total(kind, t, Q)
           h == Total(kind, s, P)
<1>1. n \in Nat /\ DOMAIN s = P /\ DOMAIN t = Q
  OBVIOUS
<1>2. Ordered(P) /\ Ordered(Q)
  BY <1>1, PositionsOrdered
<1>3. Solves(g, kind, t, Q) /\ Solves(h, kind, s, P)
  <2> HIDE DEF n, P, Q, t
  <2> QED
    BY <1>2, SolutionExists
<1>4. Max(Q) = n + 1
  <2>1. n + 1 \in Nat /\ Q \in SUBSET (1 .. n + 1) /\ n + 1 \in Q
    BY <1>1
  <2>2. Max(Q) \in Q /\ \A i \in Q : i <= Max(Q)
    BY <2>1, LastPosition
  <2> HIDE DEF n
  <2> QED
    BY <1>1, <2>1, <2>2
<1>5. Q \ {n + 1} = P /\ P \subseteq Q /\ Q # {}
  <2>1. n \in Nat
    BY <1>1
  <2> HIDE DEF n
  <2>2. \A i : i \in Q /\ i # n + 1 <=> i \in P
    BY <2>1
  <2>3. n + 1 \in Q
    BY <2>1
  <2> HIDE DEF P, Q
  <2> QED
    BY <2>2, <2>3
<1>6. t[n + 1] = x /\ \A i \in P : t[i] = s[i]
  OBVIOUS
<1>7. g[P] = h[P]
  <2>1. P \subseteq Q /\ P \in SUBSET P
    BY <1>5
  <2> HIDE DEF n, t, P, Q, g, h
  <2> QED
    BY <1>2, <1>3, <1>6, <2>1, SolutionsAgree
<1>8. g[Q] = Turn(kind, g[Q \ {Max(Q)}], t[Max(Q)])
  <2> HIDE DEF n, t, P, g, h, Q
  <2> QED
    BY <1>3, <1>5 DEF Solves
<1>9. Fold(kind, t) = g[Q] /\ Fold(kind, s) = h[P]
  BY <1>1 DEF Fold
<1> HIDE DEF n, t, P, Q, g, h
<1>10. Fold(kind, t) = Turn(kind, Fold(kind, s), x)
  BY <1>4, <1>5, <1>6, <1>7, <1>8, <1>9
<1> QED
  BY <1>10 DEF t

\* The equations of the two folds of the model.
SizeEquation(g, s) ==
    g = [d \in SUBSET DOMAIN s |-> IF d = {} THEN 0 ELSE g[d \ {Max(d)}] + s[Max(d)].size]
CleanEquation(g, s) ==
    g = [d \in SUBSET DOMAIN s |-> IF d = {} THEN <<>> ELSE CleanStep(g[d \ {Max(d)}], s[Max(d)])]

\* SizeOf is the fold of sizes.
LEMMA SizeIsFold ==
    ASSUME NEW A, NEW s \in Seq(A)
    PROVE  SizeOf(s) = Fold("size", s)
<1> DEFINE P == DOMAIN s
           g == CHOOSE f : SizeEquation(f, s)
           h == Total("size", s, P)
<1>1. SizeOf(s) = g[P]
  BY DEF SizeOf, FoldLeft, MapThenFoldSet, SizeEquation
<1>2. Ordered(P)
  BY PositionsOrdered
<1>3. Solves(h, "size", s, P)
  BY <1>2, SolutionExists
<1>4. \A f : SizeEquation(f, s) <=> Solves(f, "size", s, P)
  BY DEF SizeEquation, Solves, Start, Turn
<1>5. SizeEquation(g, s)
  BY <1>3, <1>4
<1>6. g[P] = h[P]
  <2>1. Solves(g, "size", s, P) /\ P \in SUBSET P /\ \A i \in P : s[i] = s[i]
    BY <1>4, <1>5
  <2> HIDE DEF P, g, h
  <2> QED
    BY <1>2, <1>3, <2>1, SolutionsAgree
<1> QED
  BY <1>1, <1>6 DEF Fold

\* Clean is the fold of segments.
LEMMA CleanIsFold ==
    ASSUME NEW A, NEW s \in Seq(A)
    PROVE  Clean(s) = Fold("clean", s)
<1> DEFINE P == DOMAIN s
           g == CHOOSE f : CleanEquation(f, s)
           h == Total("clean", s, P)
<1>1. Clean(s) = g[P]
  BY DEF Clean, FoldLeft, MapThenFoldSet, CleanEquation
<1>2. Ordered(P)
  BY PositionsOrdered
<1>3. Solves(h, "clean", s, P)
  BY <1>2, SolutionExists
<1>4. \A f : CleanEquation(f, s) <=> Solves(f, "clean", s, P)
  BY DEF CleanEquation, Solves, Start, Turn
<1>5. CleanEquation(g, s)
  BY <1>3, <1>4
<1>6. g[P] = h[P]
  <2>1. Solves(g, "clean", s, P) /\ P \in SUBSET P /\ \A i \in P : s[i] = s[i]
    BY <1>4, <1>5
  <2> HIDE DEF P, g, h
  <2> QED
    BY <1>2, <1>3, <2>1, SolutionsAgree
<1> QED
  BY <1>1, <1>6 DEF Fold

\* An entry more is its size more.
LEMMA SizeAppend ==
    /\ SizeOf(<<>>) = 0
    /\ \A s \in Seq(Entries), e \in Entries : SizeOf(Append(s, e)) = SizeOf(s) + e.size
<1>1. SizeOf(<<>>) = 0
  <2>1. <<>> \in Seq(Entries)
    OBVIOUS
  <2>2. SizeOf(<<>>) = Fold("size", <<>>)
    BY <2>1, SizeIsFold
  <2> QED
    BY <2>2, FoldNothing DEF Start
<1>2. ASSUME NEW s \in Seq(Entries), NEW e \in Entries
      PROVE  SizeOf(Append(s, e)) = SizeOf(s) + e.size
  <2>1. Append(s, e) \in Seq(Entries)
    OBVIOUS
  <2>2. Fold("size", Append(s, e)) = Turn("size", Fold("size", s), e)
    BY FoldAppend
  <2>3. SizeOf(Append(s, e)) = Fold("size", Append(s, e)) /\ SizeOf(s) = Fold("size", s)
    BY <2>1, SizeIsFold
  <2> QED
    BY <2>2, <2>3 DEF Turn
<1> QED
  BY <1>1, <1>2

\* A segment more is one more step of path.Clean.
LEMMA CleanAppend ==
    /\ Clean(<<>>) = <<>>
    /\ \A p \in Seq(Segment), x \in Segment : Clean(Append(p, x)) = CleanStep(Clean(p), x)
<1>1. Clean(<<>>) = <<>>
  <2>1. <<>> \in Seq(Segment)
    OBVIOUS
  <2>2. Clean(<<>>) = Fold("clean", <<>>)
    BY <2>1, CleanIsFold
  <2> QED
    BY <2>2, FoldNothing DEF Start
<1>2. ASSUME NEW p \in Seq(Segment), NEW x \in Segment
      PROVE  Clean(Append(p, x)) = CleanStep(Clean(p), x)
  <2>1. Append(p, x) \in Seq(Segment)
    OBVIOUS
  <2>2. Fold("clean", Append(p, x)) = Turn("clean", Fold("clean", p), x)
    BY FoldAppend
  <2>3. Clean(Append(p, x)) = Fold("clean", Append(p, x)) /\ Clean(p) = Fold("clean", p)
    BY <2>1, CleanIsFold
  <2> QED
    BY <2>2, <2>3 DEF Turn
<1> QED
  BY <1>1, <1>2

-----------------------------------------------------------------------------
(* Cleaned paths.                                                          *)

\* Above the starting point, as the code tests it; and without any "..".
Climbs(p) == p # <<>> /\ Head(p) = ".."
Level(p)  == \A i \in 1 .. Len(p) : p[i] # ".."

\* A leading ".." stays, and without one a step goes a level up or down.
LEMMA CleanStepFacts ==
    ASSUME NEW done \in Seq(Segment), NEW x \in Segment
    PROVE  LET next == CleanStep(done, x)
           IN  /\ next \in Seq(Segment)
               /\ Climbs(done) => Climbs(next)
               /\ Level(done) /\ ~Climbs(next) =>
                     /\ Level(next)
                     /\ x \in {"", "."} => Len(next) = Len(done)
                     /\ x = ".." => Len(next) = Len(done) - 1
                     /\ x \notin {"", ".", ".."} => Len(next) = Len(done) + 1
<1> DEFINE next == CleanStep(done, x)
<1>1. CASE x \in {"", "."}
  BY <1>1 DEF CleanStep
<1>2. CASE x \notin {"", "."} /\ x = ".." /\ done # <<>> /\ Last(done) # ".."
  <2>1. next = SubSeq(done, 1, Len(done) - 1)
    BY <1>2 DEF CleanStep, Front
  <2>2. Len(done) \in Nat \ {0} /\ done[Len(done)] # ".."
    BY <1>2 DEF Last
  <2>3. /\ next \in Seq(Segment) /\ Len(next) = Len(done) - 1
        /\ \A i \in 1 .. Len(next) : next[i] = done[i]
    <3> DEFINE n == Len(done) - 1
               sub == SubSeq(done, 1, n)
    <3>1. n \in Nat /\ n <= Len(done)
      BY <2>2
    <3>2. sub \in Seq(Segment) /\ Len(sub) = n /\ \A i \in 1 .. n : sub[i] = done[i]
      <4> HIDE DEF n
      <4> QED
        BY <3>1
    <3> QED
      BY <2>1, <3>2
  <2>4. ASSUME Climbs(done) PROVE Climbs(next)
    <3>1. done[1] = ".."
      BY <2>4 DEF Climbs
    <3>2. Len(done) # 1
      BY <2>2, <3>1
    <3>3. 1 \in 1 .. Len(next) /\ next # <<>>
      BY <2>2, <2>3, <3>2
    <3> QED
      BY <2>3, <3>1, <3>3 DEF Climbs
  <2>5. Level(done) => Level(next)
    BY <2>2, <2>3 DEF Level
  <2> QED
    BY <1>2, <2>3, <2>4, <2>5
<1>3. CASE x \notin {"", "."} /\ ~(x = ".." /\ done # <<>> /\ Last(done) # "..")
  <2>1. next = Append(done, x)
    BY <1>3 DEF CleanStep
  <2>2. /\ next \in Seq(Segment) /\ Len(next) = Len(done) + 1 /\ next[Len(done) + 1] = x
        /\ \A i \in 1 .. Len(done) : next[i] = done[i]
        /\ next # <<>> /\ Len(done) \in Nat
    BY <2>1
  <2>3. Climbs(done) => Climbs(next)
    BY <2>2 DEF Climbs
  <2>4. ASSUME Level(done), ~Climbs(next) PROVE x # ".." /\ Level(next)
    <3>1. x # ".."
      <4> SUFFICES ASSUME x = ".." PROVE FALSE
        OBVIOUS
      <4>1. done = <<>>
        <5> SUFFICES ASSUME done # <<>> PROVE FALSE
          OBVIOUS
        <5>1. Len(done) \in 1 .. Len(done) /\ done[Len(done)] = ".."
          BY <1>3 DEF Last
        <5> QED
          BY <2>4, <5>1 DEF Level
      <4> QED
        BY <2>2, <2>4, <4>1 DEF Climbs
    <3> QED
      BY <2>2, <2>4, <3>1 DEF Level
  <2> QED
    BY <1>3, <2>2, <2>3, <2>4
<1> QED
  BY <1>1, <1>2, <1>3

\* Up and down along a path with one segment more.
LEMMA CountAppend ==
    ASSUME NEW p \in Seq(Segment), NEW x \in Segment
    PROVE  LET q == Append(p, x)
               n == Len(p)
           IN  /\ \A k \in 0 .. n : Ups(q, k) = Ups(p, k) /\ Downs(q, k) = Downs(p, k)
               /\ Cardinality(Ups(q, n + 1)) =
                     IF x = ".." THEN Cardinality(Ups(p, n)) + 1 ELSE Cardinality(Ups(p, n))
               /\ Cardinality(Downs(q, n + 1)) =
                     IF Names(x) THEN Cardinality(Downs(p, n)) + 1
                     ELSE Cardinality(Downs(p, n))
               /\ Cardinality(Ups(p, n)) \in Nat /\ Cardinality(Downs(p, n)) \in Nat
<1> DEFINE q == Append(p, x)
           n == Len(p)
<1>1. n \in Nat /\ q[n + 1] = x /\ \A i \in 1 .. n : q[i] = p[i]
  OBVIOUS
<1> HIDE DEF n, q
<1>2. \A k \in 0 .. n : Ups(q, k) = Ups(p, k) /\ Downs(q, k) = Downs(p, k)
  BY <1>1 DEF Ups, Downs
<1>3. IsFiniteSet(Ups(p, n)) /\ IsFiniteSet(Downs(p, n))
  <2>1. IsFiniteSet(1 .. n) /\ Ups(p, n) \subseteq 1 .. n /\ Downs(p, n) \subseteq 1 .. n
    BY <1>1, FS_Interval DEF Ups, Downs
  <2> QED
    BY <2>1, FS_Subset
<1>4. n + 1 \notin Ups(p, n) /\ n + 1 \notin Downs(p, n)
  BY <1>1 DEF Ups, Downs
<1>5. Ups(q, n + 1) = IF x = ".." THEN Ups(p, n) \cup {n + 1} ELSE Ups(p, n)
  BY <1>1 DEF Ups
<1>6. Downs(q, n + 1) = IF Names(x) THEN Downs(p, n) \cup {n + 1} ELSE Downs(p, n)
  BY <1>1 DEF Downs
<1>7. Cardinality(Ups(p, n)) \in Nat /\ Cardinality(Downs(p, n)) \in Nat
  BY <1>3, FS_CardinalityType
<1>8. /\ Cardinality(Ups(p, n) \cup {n + 1}) = Cardinality(Ups(p, n)) + 1
      /\ Cardinality(Downs(p, n) \cup {n + 1}) = Cardinality(Downs(p, n)) + 1
  BY <1>3, <1>4, FS_AddElement
<1>9. /\ Cardinality(Ups(q, n + 1)) =
            IF x = ".." THEN Cardinality(Ups(p, n)) + 1 ELSE Cardinality(Ups(p, n))
      /\ Cardinality(Downs(q, n + 1)) =
            IF Names(x) THEN Cardinality(Downs(p, n)) + 1
            ELSE Cardinality(Downs(p, n))
  BY <1>5, <1>6, <1>8
<1> QED
  BY <1>2, <1>7, <1>9 DEF n, q

\* What a cleaned path tells of the path: if it does not climb, its length is
\* the depth at which the path ends, and the path never climbed on the way.
CleanOK(p) ==
    /\ Clean(p) \in Seq(Segment)
    /\ ~Climbs(Clean(p)) =>
          /\ Level(Clean(p))
          /\ Len(Clean(p)) = Cardinality(Downs(p, Len(p))) - Cardinality(Ups(p, Len(p)))
          /\ StaysBelow(p)

\* The empty path.
LEMMA CleanNothing == CleanOK(<<>>)
<1>1. Clean(<<>>) = <<>> /\ <<>> \in Seq(Segment) /\ Len(<<>>) = 0
  BY CleanAppend
<1>2. Ups(<<>>, 0) = {} /\ Downs(<<>>, 0) = {}
  BY DEF Ups, Downs
<1>3. Cardinality({}) = 0
  BY FS_EmptySet
<1>4. StaysBelow(<<>>)
  <2> SUFFICES ASSUME NEW n \in 0 .. 0
               PROVE  Cardinality(Ups(<<>>, n)) <= Cardinality(Downs(<<>>, n))
    BY <1>1 DEF StaysBelow
  <2>1. n = 0
    OBVIOUS
  <2> QED
    BY <1>2, <1>3, <2>1
<1>5. Level(<<>>)
  BY DEF Level
<1>6. Len(Clean(<<>>)) = Cardinality(Downs(<<>>, Len(<<>>))) - Cardinality(Ups(<<>>, Len(<<>>)))
  <2>1. Cardinality(Downs(<<>>, Len(<<>>))) = 0 /\ Cardinality(Ups(<<>>, Len(<<>>))) = 0
    BY <1>1, <1>2, <1>3
  <2> QED
    BY <1>1, <2>1
<1>7. Clean(<<>>) \in Seq(Segment) /\ Level(Clean(<<>>))
  BY <1>1, <1>5
<1> QED
  BY <1>4, <1>6, <1>7 DEF CleanOK

\* A path with one segment more.
LEMMA CleanOneMore ==
    ASSUME NEW p \in Seq(Segment), NEW x \in Segment, CleanOK(p)
    PROVE  CleanOK(Append(p, x))
<1> DEFINE q == Append(p, x)
           n == Len(p)
           c == Clean(p)
           d == Clean(q)
<1>1. d = CleanStep(c, x) /\ c \in Seq(Segment) /\ Len(q) = n + 1 /\ n \in Nat
  BY CleanAppend DEF CleanOK
<1>2. /\ d \in Seq(Segment)
      /\ Climbs(c) => Climbs(d)
      /\ Level(c) /\ ~Climbs(d) =>
            /\ Level(d)
            /\ x \in {"", "."} => Len(d) = Len(c)
            /\ x = ".." => Len(d) = Len(c) - 1
            /\ Names(x) => Len(d) = Len(c) + 1
  BY <1>1, CleanStepFacts DEF Names
<1>3. ASSUME ~Climbs(d)
      PROVE  /\ Level(d)
             /\ Len(d) = Cardinality(Downs(q, Len(q))) - Cardinality(Ups(q, Len(q)))
             /\ StaysBelow(q)
  <2>1. /\ Level(c) /\ StaysBelow(p)
        /\ Len(c) = Cardinality(Downs(p, n)) - Cardinality(Ups(p, n))
    BY <1>2, <1>3 DEF CleanOK
  <2>2. /\ \A k \in 0 .. n : Ups(q, k) = Ups(p, k) /\ Downs(q, k) = Downs(p, k)
        /\ Cardinality(Ups(q, n + 1)) =
              IF x = ".." THEN Cardinality(Ups(p, n)) + 1 ELSE Cardinality(Ups(p, n))
        /\ Cardinality(Downs(q, n + 1)) =
              IF Names(x) THEN Cardinality(Downs(p, n)) + 1
              ELSE Cardinality(Downs(p, n))
        /\ Cardinality(Ups(p, n)) \in Nat /\ Cardinality(Downs(p, n)) \in Nat
    BY CountAppend
  <2> DEFINE u == Cardinality(Ups(p, n))
             w == Cardinality(Downs(p, n))
             uu == Cardinality(Ups(q, n + 1))
             ww == Cardinality(Downs(q, n + 1))
  <2>3. Len(d) \in Nat
    <3>1. d \in Seq(Segment)
      BY <1>2
    <3> HIDE DEF d
    <3> QED
      BY <3>1
  <2>4. Len(d) = ww - uu /\ uu <= ww
    <3>1. /\ Len(c) = w - u /\ u \in Nat /\ w \in Nat
          /\ uu = IF x = ".." THEN u + 1 ELSE u
          /\ ww = IF Names(x) THEN w + 1 ELSE w
      BY <2>1, <2>2
    <3>2. /\ x \in {"", "."} => Len(d) = Len(c)
          /\ x = ".." => Len(d) = Len(c) - 1
          /\ Names(x) => Len(d) = Len(c) + 1
      BY <1>2, <1>3, <2>1
    <3>3. \/ x \in {"", "."} /\ x # ".." /\ ~Names(x)
          \/ x = ".." /\ ~Names(x)
          \/ Names(x) /\ x # ".."
      BY DEF Names
    <3> DEFINE lc == Len(c)
               ld == Len(d)
    <3>4. ld \in Nat /\ lc = w - u /\ u \in Nat /\ w \in Nat
      BY <2>3, <3>1
    <3>5. \/ ld = lc /\ uu = u /\ ww = w
          \/ ld = lc - 1 /\ uu = u + 1 /\ ww = w
          \/ ld = lc + 1 /\ uu = u /\ ww = w + 1
      <4> HIDE DEF u, w, uu, ww, c, d, n, q
      <4> QED
        BY <3>1, <3>2, <3>3
    <3> HIDE DEF u, w, uu, ww, lc, ld
    <3>6. ld = ww - uu /\ uu <= ww
      BY <3>4, <3>5
    <3> QED
      BY <3>6 DEF ld
  <2>5. StaysBelow(q)
    <3> SUFFICES ASSUME NEW k \in 0 .. n + 1
                 PROVE  Cardinality(Ups(q, k)) <= Cardinality(Downs(q, k))
      BY <1>1 DEF StaysBelow
    <3>1. CASE k = n + 1
      BY <2>4, <3>1
    <3>2. CASE k \in 0 .. n
      BY <2>1, <2>2, <3>2 DEF StaysBelow
    <3>3. k = n + 1 \/ k \in 0 .. n
      BY <1>1
    <3> QED
      BY <3>1, <3>2, <3>3
  <2>6. Level(d)
    BY <1>2, <1>3, <2>1
  <2> QED
    BY <1>1, <2>4, <2>5, <2>6
<1> QED
  BY <1>2, <1>3 DEF CleanOK

\* Every path: a shortest one for which it failed would be a segment longer
\* than one for which it holds.
LEMMA CleanIsSafe ==
    ASSUME NEW path \in Seq(Segment)
    PROVE  CleanOK(path)
<1> DEFINE Wrong == {n \in Nat : \E p \in Seq(Segment) : Len(p) = n /\ ~CleanOK(p)}
<1> SUFFICES ASSUME Wrong # {} PROVE FALSE
  OBVIOUS
<1>1. PICK n \in Wrong : \A m \in Wrong : n <= m
  <2>1. Wrong \subseteq Nat
    OBVIOUS
  <2> HIDE DEF Wrong
  <2> QED
    BY <2>1, LeastNumber
<1>2. PICK p \in Seq(Segment) : Len(p) = n /\ ~CleanOK(p)
  BY <1>1
<1>3. p # <<>>
  BY <1>2, CleanNothing
<1> DEFINE q == SubSeq(p, 1, n - 1)
           x == p[n]
<1>4. n \in Nat \ {0}
  BY <1>2, <1>3
<1>5. q \in Seq(Segment) /\ x \in Segment /\ Len(q) = n - 1 /\ p = Append(q, x)
  BY <1>2, <1>4
<1> HIDE DEF q, x
<1>6. CleanOK(q)
  <2>1. n - 1 \notin Wrong
    <3> HIDE DEF Wrong
    <3> QED
      BY <1>1, <1>4
  <2> QED
    BY <1>4, <1>5, <2>1
<1> HIDE DEF Wrong
<1> QED
  BY <1>2, <1>5, <1>6, CleanOneMore

-----------------------------------------------------------------------------
(* The entries.                                                            *)

LimitErrors == {"too many entries", "too deep", "duplicate", "entry too large", "bomb",
                "nested archive"}

\* What an accepted entry is.
EntryOK(e) ==
    /\ e.size <= MaxFileBytes
    /\ Len(Clean(e.path)) <= MaxNestingDepth
    /\ ~isNestedArchive(e)
    /\ ~e.abs /\ StaysBelow(e.path)
    /\ e.type \in {"symlink", "link"} => ~e.linkAbs /\ StaysBelow(e.link)

Distinct(es) ==
    \A i, j \in 1 .. Len(es) : i # j => Clean(es[i].path) # Clean(es[j].path)

\* While it reads, the loop knows the sum and the paths of what it has read.
Tallied ==
    /\ Len(read) <= MaxEntryCount
    /\ extracted = SizeOf(read)
    /\ seenPaths = {Clean(read[i].path) : i \in 1 .. Len(read)}
    /\ \A i \in 1 .. Len(read) : EntryOK(read[i])
    /\ Distinct(read)

ReadInv ==
    /\ read \in Seq(Entries) /\ Len(read) <= MaxEntryCount + 1
    /\ extracted \in 0 .. MaxExtractedBytes
    /\ outcome \in {"reading", "accepted"} => Tallied
    /\ outcome \in LimitErrors => ~WithinLimits(read)

\* A path without ".." leads nowhere but down.
LEMMA NoUps ==
    ASSUME NEW p \in Seq(Segment), ".." \notin Range(p)
    PROVE  StaysBelow(p)
<1> SUFFICES ASSUME NEW n \in 0 .. Len(p)
             PROVE  Cardinality(Ups(p, n)) <= Cardinality(Downs(p, n))
  BY DEF StaysBelow
<1>1. \A i \in 1 .. n : p[i] \in Range(p)
  BY DEF Range
<1>2. Ups(p, n) = {}
  BY <1>1 DEF Ups
<1>3. Cardinality({}) = 0
  BY FS_EmptySet
<1>4. Cardinality(Downs(p, n)) \in Nat
  <2>1. n \in Nat
    OBVIOUS
  <2>2. IsFiniteSet(1 .. n) /\ Downs(p, n) \subseteq 1 .. n
    BY <2>1, FS_Interval DEF Downs
  <2> QED
    BY <2>2, FS_Subset, FS_CardinalityType
<1> QED
  BY <1>2, <1>3, <1>4

\* An entry that passes the checks.
LEMMA CheckPassed ==
    ASSUME NEW e \in Entries, Check(e) = "reading"
    PROVE  /\ ~(Len(read) + 1 > MaxEntryCount)
           /\ Clean(e.path) \notin seenPaths
           /\ ~(extracted + e.size > MaxExtractedBytes)
           /\ ~(e.size > MaxFileBytes)
           /\ ~(Len(Clean(e.path)) > MaxNestingDepth)
           /\ ~isNestedArchive(e)
           /\ ~Traverses(e) /\ ~LinkEscapes(e)
BY DEF Check, pathDepth

\* An entry that breaks a limit.
LEMMA CheckFailed ==
    ASSUME NEW e \in Entries, Check(e) \in LimitErrors
    PROVE  \/ Len(read) + 1 > MaxEntryCount
           \/ Clean(e.path) \in seenPaths
           \/ extracted + e.size > MaxExtractedBytes
           \/ e.size > MaxFileBytes
           \/ Len(Clean(e.path)) > MaxNestingDepth
           \/ isNestedArchive(e)
BY DEF Check, pathDepth, LimitErrors

\* An entry that passes the checks is as it should be.
LEMMA PassedIsOK ==
    ASSUME NEW e \in Entries, Check(e) = "reading"
    PROVE  EntryOK(e)
<1>1. e.path \in Seq(Segment) /\ e.link \in Seq(Segment) /\ e.size \in Nat
  BY EntriesAssumption
<1>2. /\ ~(e.size > MaxFileBytes) /\ ~(Len(Clean(e.path)) > MaxNestingDepth)
      /\ ~isNestedArchive(e) /\ ~Traverses(e) /\ ~LinkEscapes(e)
  BY CheckPassed
<1>3. e.size <= MaxFileBytes
  BY <1>1, <1>2, LimitsAssumption
<1>4. Len(Clean(e.path)) <= MaxNestingDepth
  <2> DEFINE c == Clean(e.path)
  <2>1. c \in Seq(Segment)
    BY <1>1, CleanIsSafe DEF CleanOK
  <2> HIDE DEF c
  <2>2. Len(c) \in Nat
    BY <2>1
  <2> QED
    BY <1>2, <2>2, LimitsAssumption DEF c
<1>5. ~e.abs /\ StaysBelow(e.path)
  BY <1>1, <1>2, NoUps DEF Traverses
<1>6. ASSUME e.type \in {"symlink", "link"} PROVE ~e.linkAbs /\ StaysBelow(e.link)
  <2>1. ~e.linkAbs /\ ~Climbs(Clean(e.link))
    BY <1>2, <1>6 DEF LinkEscapes, Climbs
  <2> QED
    BY <1>1, <2>1, CleanIsSafe DEF CleanOK
<1> QED
  BY <1>2, <1>3, <1>4, <1>5, <1>6 DEF EntryOK

\* The sum after one more entry.
LEMMA SizeNatural ==
    ASSUME NEW s \in Seq(Entries), NEW e \in Entries, SizeOf(s) \in Nat
    PROVE  SizeOf(Append(s, e)) = SizeOf(s) + e.size /\ e.size \in Nat
BY SizeAppend, EntriesAssumption

\* One turn of the loop.
LEMMA ReadStep ==
    ASSUME ReadInv, NEW e \in Entries, ReadEntry(e)
    PROVE  ReadInv'
<1> DEFINE n == Len(read)
           es == Append(read, e)
<1>1. /\ read \in Seq(Entries) /\ read' = es /\ outcome' = Check(e)
      /\ extracted \in 0 .. MaxExtractedBytes /\ Tallied
  BY DEF ReadInv, ReadEntry
<1>2. /\ n \in Nat /\ es \in Seq(Entries) /\ Len(es) = n + 1 /\ es[n + 1] = e
      /\ \A i \in 1 .. n : es[i] = read[i]
  BY <1>1
<1>3. SizeOf(es) = extracted + e.size /\ e.size \in Nat
  <2>1. extracted = SizeOf(read) /\ extracted \in Nat
    BY <1>1, LimitsAssumption DEF Tallied
  <2> QED
    BY <1>1, <2>1, SizeNatural
<1>4. n <= MaxEntryCount /\ MaxEntryCount \in Nat /\ MaxExtractedBytes \in Nat
  BY <1>1, LimitsAssumption DEF Tallied
<1> HIDE DEF n, es
<1>5. es \in Seq(Entries) /\ Len(es) <= MaxEntryCount + 1
  BY <1>2, <1>4
<1>6. CASE Check(e) = "reading"
  <2>1. /\ ~(n + 1 > MaxEntryCount) /\ Clean(e.path) \notin seenPaths
        /\ ~(extracted + e.size > MaxExtractedBytes)
    BY <1>6, CheckPassed DEF n
  <2>2. /\ seenPaths' = seenPaths \cup {Clean(e.path)}
        /\ extracted' = extracted + e.size
    BY <1>1, <1>6 DEF ReadEntry
  <2>3. Len(es) <= MaxEntryCount
    BY <1>2, <1>4, <2>1
  <2>4. extracted' \in 0 .. MaxExtractedBytes
    BY <1>1, <1>3, <1>4, <2>1, <2>2
  <2>5. EntryOK(e)
    BY <1>6, PassedIsOK
  <2>6. \A i \in 1 .. n + 1 : i \in 1 .. n \/ i = n + 1
    BY <1>2
  <2>7. \A i \in 1 .. Len(es) : EntryOK(es[i])
    BY <1>1, <1>2, <2>5, <2>6 DEF Tallied, n
  <2>8. {Clean(es[i].path) : i \in 1 .. Len(es)}
          = {Clean(read[i].path) : i \in 1 .. n} \cup {Clean(e.path)}
    <3>1. \A i \in 1 .. n : i \in 1 .. Len(es)
      BY <1>2
    <3>2. n + 1 \in 1 .. Len(es)
      BY <1>2
    <3> QED
      BY <1>2, <2>6, <3>1, <3>2
  <2>9. seenPaths = {Clean(read[i].path) : i \in 1 .. n}
    BY <1>1 DEF Tallied, n
  <2>10. \A i \in 1 .. n : Clean(read[i].path) # Clean(e.path)
    BY <2>1, <2>9
  <2>11. Distinct(es)
    <3> SUFFICES ASSUME NEW i \in 1 .. n + 1, NEW j \in 1 .. n + 1, i # j
                 PROVE  Clean(es[i].path) # Clean(es[j].path)
      BY <1>2 DEF Distinct
    <3>1. CASE i \in 1 .. n /\ j \in 1 .. n
      BY <1>1, <1>2, <3>1 DEF Tallied, Distinct, n
    <3>2. CASE i \in 1 .. n /\ j = n + 1
      BY <1>2, <2>10, <3>2
    <3>3. CASE i = n + 1 /\ j \in 1 .. n
      BY <1>2, <2>10, <3>3
    <3> QED
      BY <2>6, <3>1, <3>2, <3>3
  <2>12. Tallied'
    BY <1>1, <1>3, <2>2, <2>3, <2>7, <2>8, <2>9, <2>11 DEF Tallied
  <2> QED
    BY <1>1, <1>5, <1>6, <2>4, <2>12 DEF ReadInv, LimitErrors
<1>7. CASE Check(e) # "reading"
  <2>1. extracted' = extracted
    BY <1>1, <1>7 DEF ReadEntry
  <2>2. ASSUME Check(e) \in LimitErrors PROVE ~WithinLimits(es)
    <3> SUFFICES ASSUME WithinLimits(es) PROVE FALSE
      OBVIOUS
    <3>1. n + 1 \in 1 .. Len(es)
      BY <1>2
    <3>2. /\ n + 1 <= MaxEntryCount /\ extracted + e.size <= MaxExtractedBytes
          /\ e.size <= MaxFileBytes /\ Len(Clean(e.path)) <= MaxNestingDepth
          /\ ~isNestedArchive(e)
      BY <1>2, <1>3, <3>1 DEF WithinLimits
    <3>3. Clean(e.path) \notin seenPaths
      <4> SUFFICES ASSUME Clean(e.path) \in seenPaths PROVE FALSE
        OBVIOUS
      <4>1. PICK i \in 1 .. n : Clean(read[i].path) = Clean(e.path)
        BY <1>1 DEF Tallied, n
      <4>2. i \in 1 .. Len(es) /\ i # n + 1 /\ es[i] = read[i]
        BY <1>2
      <4> QED
        BY <1>2, <3>1, <4>1, <4>2 DEF WithinLimits
    <3>4. Len(Clean(e.path)) \in Nat
      <4> DEFINE c == Clean(e.path)
      <4>1. c \in Seq(Segment)
        BY EntriesAssumption, CleanIsSafe DEF CleanOK
      <4> HIDE DEF c
      <4>2. Len(c) \in Nat
        BY <4>1
      <4> QED
        BY <4>2 DEF c
    <3>5. \/ n + 1 > MaxEntryCount \/ Clean(e.path) \in seenPaths
          \/ extracted + e.size > MaxExtractedBytes \/ e.size > MaxFileBytes
          \/ Len(Clean(e.path)) > MaxNestingDepth \/ isNestedArchive(e)
      BY <2>2, CheckFailed DEF n
    <3> QED
      BY <1>1, <1>2, <1>3, <3>2, <3>3, <3>4, <3>5, LimitsAssumption
  <2>3. Check(e) # "accepted"
    BY DEF Check
  <2> QED
    BY <1>1, <1>5, <1>7, <2>1, <2>2, <2>3 DEF ReadInv
<1> QED
  BY <1>6, <1>7

-----------------------------------------------------------------------------
(* The manifest.                                                           *)

Threats(m) == {t \in Lifecycle(m) : t.at \in 1 .. t.len}

\* What the result says of the manifest it is about.
Reported ==
    /\ manifest.manifest # NoManifest
    /\ ~truncated => manifest.size <= MaxPackageJSONBytes
    /\ (~truncated /\ Parses(manifest)) =>
          /\ ~(Cardinality(Lifecycle(manifest.manifest)) > MaxScriptCount)
          /\ scripts = {s.name : s \in Lifecycle(manifest.manifest)}
          /\ dangerous = {s.name : s \in Threats(manifest.manifest)}

\* What the signals say of the result.
Signalled ==
    /\ <<"no_lifecycle_scripts">> \in signals => scripts = {} /\ ~truncated
    /\ outcome = "reading" => <<"no_lifecycle_scripts">> \notin signals
    /\ outcome = "accepted" /\ truncated => <<"inspect_truncated">> \in signals

ManifestInv ==
    /\ manifest \in Entries \cup {NoManifest}
    /\ manifest # NoManifest => Reported
    /\ Signalled

\* The signals of single scripts are no all-clear.
LEMMA ScriptSignalsSayNothing ==
    ASSUME NEW S
    PROVE  <<"no_lifecycle_scripts">> \notin ScriptSignals(S)
BY DEF ScriptSignals

\* Scripts examined in full.
LEMMA FullyExamined ==
    ASSUME NEW e \in Entries, e.manifest # NoManifest, NEW S \in Examined(e.manifest),
           ~Cut(e.manifest, S)
    PROVE  /\ S = Lifecycle(e.manifest)
           /\ ~(Cardinality(Lifecycle(e.manifest)) > MaxScriptCount)
           /\ {t \in S : Indicates(t)} = Threats(e.manifest)
<1> DEFINE all == Lifecycle(e.manifest)
<1>1. S = all /\ \A t \in all : ~(t.len > MaxScriptBytes)
  BY DEF Cut
<1>2. \A t \in all : t.len \in Nat /\ t.at \in Nat
  <2>1. \A t \in all : t \in Script
    BY EntriesAssumption DEF Lifecycle
  <2> QED
    BY <2>1 DEF Script
<1>3. MaxScriptBytes \in Nat /\ MaxScriptCount \in Nat
  BY LimitsAssumption
<1>4. \A t \in all : Indicates(t) <=> t.at \in 1 .. t.len
  <2> HIDE DEF all
  <2> QED
    BY <1>1, <1>2, <1>3 DEF Indicates
<1>5. ~(Cardinality(all) > MaxScriptCount)
  <2> SUFFICES ASSUME Cardinality(all) > MaxScriptCount PROVE FALSE
    OBVIOUS
  <2>1. Cardinality(S) = MaxScriptCount
    BY DEF Examined
  <2> HIDE DEF all
  <2> QED
    BY <1>1, <1>3, <2>1
<1> QED
  BY <1>1, <1>4, <1>5 DEF Threats

\* inspectPackageJSONContent keeps the result true to the manifest.
LEMMA InspectStep ==
    ASSUME ManifestInv, NEW e \in Entries, ReadEntry(e), outcome' = "reading",
           isPackageJSON(e), e.type = "reg", manifest = NoManifest, InspectManifest(e)
    PROVE  ManifestInv'
<1>1. e.manifest # NoManifest /\ e # NoManifest /\ e.size \in Nat /\ manifest' = e
  BY ContentAssumption, EntriesAssumption DEF InspectManifest
<1>2. outcome = "reading"
  BY DEF ReadEntry
<1>3. MaxPackageJSONBytes \in Nat
  BY LimitsAssumption
<1>4. CASE ~Parses(e)
  <2>1. truncated' = (e.size > MaxPackageJSONBytes) /\ UNCHANGED <<scripts, dangerous, signals>>
    BY <1>4 DEF InspectManifest
  <2>2. ~truncated' => e.size <= MaxPackageJSONBytes
    <3>1. ~truncated' => ~(e.size > MaxPackageJSONBytes)
      BY <2>1, Zenon
    <3> QED
      BY <1>1, <1>3, <3>1
  <2>3. Reported'
    BY <1>1, <1>4, <2>2 DEF Reported, Parses, ReadLimit
  <2>4. Signalled'
    BY <1>2, <2>1 DEF ManifestInv, Signalled
  <2> QED
    BY <1>1, <2>3, <2>4 DEF ManifestInv
<1>5. CASE Parses(e)
  <2>1. PICK S \in Examined(e.manifest) :
          /\ truncated' = (e.size > MaxPackageJSONBytes \/ Cut(e.manifest, S))
          /\ scripts' = {s.name : s \in S}
          /\ dangerous' = {s.name : s \in {t \in S : Indicates(t)}}
          /\ signals' = ScriptSignals(S)
    BY <1>5 DEF InspectManifest
  <2>2. ASSUME ~truncated'
        PROVE  /\ e.size <= MaxPackageJSONBytes
               /\ ~(Cardinality(Lifecycle(e.manifest)) > MaxScriptCount)
               /\ scripts' = {s.name : s \in Lifecycle(e.manifest)}
               /\ dangerous' = {s.name : s \in Threats(e.manifest)}
    <3>1. ~(e.size > MaxPackageJSONBytes) /\ ~Cut(e.manifest, S)
      BY <2>1, <2>2
    <3>2. e.size <= MaxPackageJSONBytes
      BY <1>1, <1>3, <3>1
    <3>3. /\ S = Lifecycle(e.manifest) /\ {t \in S : Indicates(t)} = Threats(e.manifest)
          /\ ~(Cardinality(Lifecycle(e.manifest)) > MaxScriptCount)
      BY <1>1, <3>1, FullyExamined
    <3> QED
      BY <2>1, <3>2, <3>3
  <2>3. Reported'
    BY <1>1, <2>2 DEF Reported
  <2>4. <<"no_lifecycle_scripts">> \notin signals'
    BY <2>1, ScriptSignalsSayNothing
  <2>5. Signalled'
    BY <2>4 DEF Signalled
  <2> QED
    BY <1>1, <2>3, <2>5 DEF ManifestInv
<1> QED
  BY <1>4, <1>5

\* Every step keeps the result true to the manifest, and the signals to the result.
LEMMA ManifestStep ==
    ASSUME ManifestInv, [Next]_vars
    PROVE  ManifestInv'
<1>1. ASSUME NEW e \in Entries, ReadEntry(e) PROVE ManifestInv'
  <2>1. CASE outcome' # "reading"
    <3>1. UNCHANGED <<manifest, scripts, dangerous, truncated, signals>>
      BY <1>1, <2>1 DEF ReadEntry
    <3>2. outcome' # "accepted"
      BY <1>1 DEF ReadEntry, Check
    <3> QED
      BY <2>1, <3>1, <3>2 DEF ManifestInv, Reported, Parses, ReadLimit, Signalled
  <2>2. CASE /\ outcome' = "reading"
             /\ ~(isPackageJSON(e) /\ e.type = "reg" /\ manifest = NoManifest)
    <3>1. UNCHANGED <<manifest, scripts, dangerous, truncated, signals>>
      BY <1>1, <2>2 DEF ReadEntry
    <3>2. outcome = "reading"
      BY <1>1 DEF ReadEntry
    <3> QED
      BY <2>2, <3>1, <3>2 DEF ManifestInv, Reported, Parses, ReadLimit, Signalled
  <2>3. CASE /\ outcome' = "reading"
             /\ isPackageJSON(e) /\ e.type = "reg" /\ manifest = NoManifest
    BY <1>1, <2>3, InspectStep DEF ReadEntry
  <2> QED
    BY <2>1, <2>2, <2>3
<1>2. CASE Fail
  BY <1>2 DEF Fail, ManifestInv, Reported, Parses, ReadLimit, Signalled
<1>3. CASE Finish
  <2>1. /\ UNCHANGED <<manifest, scripts, dangerous, truncated>> /\ outcome = "reading"
        /\ signals' = signals \cup Summary /\ outcome' = "accepted"
    BY <1>3 DEF Finish
  <2>2. <<"no_lifecycle_scripts">> \in Summary => scripts = {} /\ ~truncated
    BY DEF Summary
  <2>3. truncated => <<"inspect_truncated">> \in Summary
    BY DEF Summary
  <2>4. Signalled'
    BY <2>1, <2>2, <2>3 DEF ManifestInv, Signalled
  <2> QED
    BY <2>1, <2>4 DEF ManifestInv, Reported, Parses, ReadLimit
<1>4. CASE UNCHANGED vars
  BY <1>4 DEF vars, ManifestInv, Reported, Parses, ReadLimit, Signalled
<1> QED
  BY <1>1, <1>2, <1>3, <1>4 DEF Next

-----------------------------------------------------------------------------
(* The theorems.                                                           *)

Inv == ReadInv /\ ManifestInv

\* The inductive invariant holds for every archive and all limits.
THEOREM Invariant == Spec => []Inv
<1>1. Init => Inv
  <2> SUFFICES ASSUME Init PROVE Inv
    OBVIOUS
  <2>1. read = <<>> /\ Len(<<>>) = 0 /\ <<>> \in Seq(Entries)
    BY DEF Init
  <2>2. MaxEntryCount \in Nat /\ MaxExtractedBytes \in Nat
    BY LimitsAssumption
  <2>3. Tallied
    <3>1. seenPaths = {Clean(read[i].path) : i \in 1 .. Len(read)}
      BY <2>1 DEF Init
    <3>2. Distinct(read)
      BY <2>1 DEF Distinct
    <3> QED
      BY <2>1, <2>2, <3>1, <3>2, SizeAppend DEF Init, Tallied
  <2>4. ReadInv
    BY <2>1, <2>2, <2>3 DEF Init, ReadInv, LimitErrors
  <2>5. ManifestInv
    BY DEF Init, ManifestInv, Signalled
  <2> QED
    BY <2>4, <2>5 DEF Inv
<1>2. ReadInv /\ [Next]_vars => ReadInv'
  <2> SUFFICES ASSUME ReadInv, [Next]_vars PROVE ReadInv'
    OBVIOUS
  <2>1. CASE Fail
    BY <2>1 DEF Fail, ReadInv, LimitErrors, Tallied
  <2>2. CASE Finish
    BY <2>2 DEF Finish, ReadInv, LimitErrors, Tallied
  <2>3. CASE UNCHANGED vars
    BY <2>3 DEF vars, ReadInv, Tallied
  <2> QED
    BY <2>1, <2>2, <2>3, ReadStep DEF Next
<1>3. ManifestInv /\ [Next]_vars => ManifestInv'
  BY ManifestStep
<1> QED
  BY <1>1, <1>2, <1>3, PTL DEF Spec, Inv

\* An archive that InspectArchiveWithLimits accepts keeps every limit and
\* leads nowhere outside its directory, and one turned away for a limit breaks it.
THEOREM AcceptedArchivesAreSound == Spec => []AcceptedIsSound
<1>1. Inv => AcceptedIsSound
  <2> SUFFICES ASSUME Inv PROVE AcceptedIsSound
    OBVIOUS
  <2>1. ASSUME outcome \in {"reading", "accepted"}
        PROVE  /\ WithinLimits(read)
               /\ \A i \in 1 .. Len(read) :
                     /\ ~read[i].abs /\ StaysBelow(read[i].path)
                     /\ read[i].type \in {"symlink", "link"} =>
                           ~read[i].linkAbs /\ StaysBelow(read[i].link)
    <3>1. Tallied /\ extracted \in 0 .. MaxExtractedBytes
      BY <2>1 DEF Inv, ReadInv
    <3>2. SizeOf(read) <= MaxExtractedBytes
      BY <3>1, LimitsAssumption DEF Tallied
    <3>3. WithinLimits(read)
      BY <3>1, <3>2 DEF Tallied, EntryOK, Distinct, WithinLimits
    <3> QED
      BY <3>1, <3>3 DEF Tallied, EntryOK
  <2> QED
    BY <2>1 DEF Inv, ReadInv, LimitErrors, AcceptedIsSound
<1> QED
  BY <1>1, Invariant, PTL

\* A limit that was reached never reads as all-clear (inspect.go:88).
THEOREM AllClearIsEarned == Spec => []NoSilentAllClear
<1>1. Inv => NoSilentAllClear
  <2> SUFFICES ASSUME Inv, outcome = "accepted", manifest # NoManifest
               PROVE  LET m == manifest.manifest
                      IN  /\ (<<"no_lifecycle_scripts">> \in signals /\ m.valid) =>
                                m.text <= MaxPackageJSONBytes /\ Lifecycle(m) = {}
                          /\ (Parses(manifest) /\ Cardinality(Lifecycle(m)) > MaxScriptCount)
                                => <<"inspect_truncated">> \in signals
                          /\ (m.valid /\ m.text <= manifest.size /\ m.text > MaxPackageJSONBytes)
                                => <<"inspect_truncated">> \in signals
    BY DEF NoSilentAllClear
  <2> DEFINE m == manifest.manifest
  <2>1. Reported /\ Signalled /\ manifest \in Entries
    BY DEF Inv, ManifestInv
  <2>2. m.text \in 0 .. manifest.size /\ manifest.size \in Nat /\ MaxPackageJSONBytes \in Nat
    BY <2>1, EntriesAssumption, LimitsAssumption DEF Reported
  <2>3. ~truncated => m.text <= MaxPackageJSONBytes
    BY <2>1, <2>2 DEF Reported
  <2>4. ~truncated /\ m.valid => Parses(manifest)
    BY <2>1, <2>2 DEF Reported, Parses, ReadLimit
  <2>5. <<"no_lifecycle_scripts">> \in signals /\ m.valid =>
          m.text <= MaxPackageJSONBytes /\ Lifecycle(m) = {}
    BY <2>1, <2>3, <2>4 DEF Reported, Signalled
  <2>6. truncated => <<"inspect_truncated">> \in signals
    BY <2>1 DEF Signalled
  <2>7. Parses(manifest) /\ Cardinality(Lifecycle(m)) > MaxScriptCount => truncated
    BY <2>1 DEF Reported
  <2>8. m.text > MaxPackageJSONBytes => truncated
    BY <2>2, <2>3
  <2> QED
    BY <2>5, <2>6, <2>7, <2>8
<1> QED
  BY <1>1, Invariant, PTL

\* Without the mark no dangerous script was missed.
THEOREM UnmarkedIsComplete == Spec => []CompleteUnlessTruncated
<1>1. Inv => CompleteUnlessTruncated
  BY DEF Inv, ManifestInv, Reported, Threats, CompleteUnlessTruncated
<1> QED
  BY <1>1, Invariant, PTL
============================================================================
