----------------------------- MODULE RulesProofs -----------------------------
(* Proofs about the pure rules of Filters, ReviewRules and LeadRules.         *)
EXTENDS LeadRules, FiniteSetTheorems, SequenceTheorems, WellFoundedInduction, TLAPS

-----------------------------------------------------------------------------
(* Deciding the filters in two passes, for every filter and every record.     *)

(* What a condition says does not matter here, only that each of them is in   *)
(* exactly one of the two halves.                                             *)
LEMMA SplitCovers ==
    ASSUME NEW filters, NEW extra, NEW g \in Groups
    PROVE  LET split == SplitFilters(filters, extra)
           IN  /\ filters[g] = split.pre[g] \cup split.post[g]
               /\ split.pre[g] \subseteq filters[g] /\ split.post[g] \subseteq filters[g]
BY DEF SplitFilters

LEMMA AllInHalves ==
    ASSUME NEW filters, NEW extra, NEW record, NEW g \in Groups
    PROVE  LET split == SplitFilters(filters, extra)
           IN  EvaluateAll(record, filters[g]) <=>
                   EvaluateAll(record, split.pre[g]) /\ EvaluateAll(record, split.post[g])
BY SplitCovers DEF EvaluateAll

LEMMA AnyInHalves ==
    ASSUME NEW filters, NEW extra, NEW record, NEW g \in Groups
    PROVE  LET split == SplitFilters(filters, extra)
           IN  EvaluateAny(record, filters[g]) <=>
                   EvaluateAny(record, split.pre[g]) \/ EvaluateAny(record, split.post[g])
BY SplitCovers DEF EvaluateAny

LEMMA TwoPasses ==
    ASSUME NEW filters, NEW extra, NEW record
    PROVE  SplitAgrees(filters, extra, record)
<1> DEFINE split == SplitFilters(filters, extra)
           twice == Evaluate(record, split.pre) /\ Evaluate(record, split.post)
           once  == Evaluate(record, filters)
<1>0. /\ "include_all" \in Groups /\ "include_any" \in Groups
      /\ "exclude_all" \in Groups /\ "exclude_any" \in Groups
  BY DEF Groups
<1>1. EvaluateAll(record, filters.include_all) <=>
          /\ EvaluateAll(record, split.pre.include_all)
          /\ EvaluateAll(record, split.post.include_all)
  BY <1>0, AllInHalves
<1>2. EvaluateAny(record, filters.exclude_any) <=>
          \/ EvaluateAny(record, split.pre.exclude_any)
          \/ EvaluateAny(record, split.post.exclude_any)
  BY <1>0, AnyInHalves
<1>3. ASSUME twice PROVE filters.include_any = {} \/ EvaluateAny(record, filters.include_any)
  <2>1. CASE split.pre.include_any = {} /\ split.post.include_any = {}
    BY <2>1, <1>0, SplitCovers
  <2>2. CASE EvaluateAny(record, split.pre.include_any)
    BY <2>2, <1>0, AnyInHalves
  <2>3. CASE EvaluateAny(record, split.post.include_any)
    BY <2>3, <1>0, AnyInHalves
  <2> QED BY <1>3, <2>1, <2>2, <2>3 DEF Evaluate
<1>4. ASSUME twice PROVE filters.exclude_all = {} \/ ~EvaluateAll(record, filters.exclude_all)
  <2>1. CASE split.pre.exclude_all = {} /\ split.post.exclude_all = {}
    BY <2>1, <1>0, SplitCovers
  <2>2. CASE ~EvaluateAll(record, split.pre.exclude_all)
    BY <2>2, <1>0, AllInHalves
  <2>3. CASE ~EvaluateAll(record, split.post.exclude_all)
    BY <2>3, <1>0, AllInHalves
  <2> QED BY <1>4, <2>1, <2>2, <2>3 DEF Evaluate
<1>5. twice => once
  BY <1>1, <1>2, <1>3, <1>4 DEF Evaluate
<1>6. ASSUME filters.include_any = {}, filters.exclude_all = {}, once PROVE twice
  <2>1. split.pre.include_any = {} /\ split.post.include_any = {}
    BY <1>6, <1>0, SplitCovers
  <2>2. split.pre.exclude_all = {} /\ split.post.exclude_all = {}
    BY <1>6, <1>0, SplitCovers
  <2> QED BY <1>1, <1>2, <1>6, <2>1, <2>2 DEF Evaluate
<1> QED
  <2>1. filters.include_any = {} /\ filters.exclude_all = {} => twice = once
    BY <1>5, <1>6 DEF Evaluate
  <2> QED BY <1>5, <2>1 DEF SplitAgrees

(* For every set of filters, every set of custom columns and every record,    *)
(* the two passes of the pipeline keep nothing that one pass over all         *)
(* conditions would drop, and where no group is cut in two they keep the same *)
(* (filters/engine.py:176-212).                                               *)
THEOREM SplitIsSound ==
    /\ \A filters, extra, record : SplitAgrees(filters, extra, record)
    /\ SplitNeverKeepsMore
BY TwoPasses DEF SplitNeverKeepsMore

-----------------------------------------------------------------------------
(* The polygon filter, for triangles.  For a ray from a point along its       *)
(* latitude the only question is which edges straddle the latitude and on     *)
(* which side of each of them the point lies.                                 *)
Point == Int \X Int

LEMMA PointParts == \A p \in Point : p[1] \in Int /\ p[2] \in Int
  BY DEF Point

(* The comparison of Crosses is the sign of Side.                             *)
LEMMA CrossesBySide ==
    ASSUME NEW x1 \in Int, NEW x2 \in Int, NEW p1 \in Int, NEW p2 \in Int,
           NEW q1 \in Int, NEW q2 \in Int
    PROVE  LET left == (x2 - p2) * (q1 - p1)
               right == (q2 - p2) * (x1 - p1)
               side == (q1 - p1) * (x2 - p2) - (q2 - p2) * (x1 - p1)
           IN  (left < right <=> side < 0) /\ (left > right <=> side > 0)
<1> DEFINE u == (x2 - p2) * (q1 - p1)
           v == (q2 - p2) * (x1 - p1)
<1>1. (q1 - p1) * (x2 - p2) = u /\ u \in Int /\ v \in Int
  OBVIOUS
<1> HIDE DEF u, v
<1>2. (u < v <=> u - v < 0) /\ (u > v <=> u - v > 0)
  BY <1>1
<1> QED BY <1>1, <1>2 DEF u, v

LEMMA SideTurned ==
    ASSUME NEW x1 \in Int, NEW x2 \in Int, NEW p1 \in Int, NEW p2 \in Int,
           NEW q1 \in Int, NEW q2 \in Int
    PROVE  (p1 - q1) * (x2 - q2) - (p2 - q2) * (x1 - q1)
             = 0 - ((q1 - p1) * (x2 - p2) - (q2 - p2) * (x1 - p1))
  OBVIOUS

LEMMA Balance ==
    ASSUME NEW x1 \in Int, NEW x2 \in Int, NEW a1 \in Int, NEW a2 \in Int,
           NEW b1 \in Int, NEW b2 \in Int, NEW c1 \in Int, NEW c2 \in Int
    PROVE  ((b1 - a1) * (x2 - a2) - (b2 - a2) * (x1 - a1)) * (c1 - x1)
         + ((c1 - b1) * (x2 - b2) - (c2 - b2) * (x1 - b1)) * (a1 - x1)
         + ((a1 - c1) * (x2 - c2) - (a2 - c2) * (x1 - c1)) * (b1 - x1) = 0
  OBVIOUS

LEMMA ProductSign ==
    ASSUME NEW m \in Int, NEW n \in Int
    PROVE  /\ m * n \in Int
           /\ (m > 0 /\ n > 0) \/ (m < 0 /\ n < 0) => m * n > 0
           /\ (m > 0 /\ n < 0) \/ (m < 0 /\ n > 0) => m * n < 0
           /\ m = 0 \/ n = 0 => m * n = 0
  OBVIOUS

LEMMA TriangleParity ==
    ASSUME NEW A \in Int, NEW B \in Int, NEW C \in Int,
           NEW ab \in Int, NEW bc \in Int, NEW ca \in Int,
           ab * C + bc * A + ca * B = 0,
           A = 0 /\ B = 0 /\ C = 0 => ab = 0
    PROVE  LET e1 == (A > 0) # (C > 0) /\ IF C > A THEN ca > 0 ELSE ca < 0
               e2 == (B > 0) # (A > 0) /\ IF A > B THEN ab > 0 ELSE ab < 0
               e3 == (C > 0) # (B > 0) /\ IF B > C THEN bc > 0 ELSE bc < 0
               odd == (e1 # e2) # e3
           IN  /\ (ab > 0 /\ bc > 0 /\ ca > 0) \/ (ab < 0 /\ bc < 0 /\ ca < 0) => odd
               /\ (ab > 0 \/ bc > 0 \/ ca > 0) /\ (ab < 0 \/ bc < 0 \/ ca < 0) => ~odd
<1> DEFINE u == ab * C
           v == bc * A
           w == ca * B
<1>1. /\ u \in Int
      /\ (ab > 0 /\ C > 0) \/ (ab < 0 /\ C < 0) => u > 0
      /\ (ab > 0 /\ C < 0) \/ (ab < 0 /\ C > 0) => u < 0
      /\ ab = 0 \/ C = 0 => u = 0
  BY ProductSign
<1>2. /\ v \in Int
      /\ (bc > 0 /\ A > 0) \/ (bc < 0 /\ A < 0) => v > 0
      /\ (bc > 0 /\ A < 0) \/ (bc < 0 /\ A > 0) => v < 0
      /\ bc = 0 \/ A = 0 => v = 0
  BY ProductSign
<1>3. /\ w \in Int
      /\ (ca > 0 /\ B > 0) \/ (ca < 0 /\ B < 0) => w > 0
      /\ (ca > 0 /\ B < 0) \/ (ca < 0 /\ B > 0) => w < 0
      /\ ca = 0 \/ B = 0 => w = 0
  BY ProductSign
<1>4. u + v + w = 0
  OBVIOUS
<1> HIDE DEF u, v, w
<1> QED BY <1>1, <1>2, <1>3, <1>4

LEMMA ParityOfThree ==
    ASSUME NEW S \in SUBSET (1..3)
    PROVE  Cardinality(S) % 2 = 1 <=> ((1 \in S) # (2 \in S)) # (3 \in S)
<1>0. \A i \in 1..3 : i = 1 \/ i = 2 \/ i = 3
  OBVIOUS
<1>1. IsFiniteSet({}) /\ Cardinality({}) = 0
  BY FS_EmptySet
<1> DEFINE one == IF 1 \in S THEN {1} ELSE {}
           two == IF 2 \in S THEN one \cup {2} ELSE one
<1>2. IsFiniteSet(one) /\ Cardinality(one) = IF 1 \in S THEN 1 ELSE 0
  BY <1>1, FS_Singleton
<1>3. /\ IsFiniteSet(two)
      /\ Cardinality(two) = Cardinality(one) + IF 2 \in S THEN 1 ELSE 0
  <2>1. 2 \notin one
    OBVIOUS
  <2>2. Cardinality(one) \in Nat
    BY <1>2, FS_CardinalityType
  <2>3. two = IF 2 \in S THEN one \cup {2} ELSE one
    OBVIOUS
  <2> HIDE DEF one, two
  <2>4. IsFiniteSet(one \cup {2}) /\ Cardinality(one \cup {2}) = Cardinality(one) + 1
    BY <1>2, <2>1, FS_AddElement
  <2> QED BY <1>2, <2>2, <2>3, <2>4
<1>4. Cardinality(S) = Cardinality(two) + IF 3 \in S THEN 1 ELSE 0
  <2>1. S = IF 3 \in S THEN two \cup {3} ELSE two
    BY <1>0
  <2>2. 3 \notin two
    OBVIOUS
  <2> HIDE DEF two
  <2>3. IsFiniteSet(two \cup {3}) /\ Cardinality(two \cup {3}) = Cardinality(two) + 1
    BY <1>3, <2>2, FS_AddElement
  <2>4. Cardinality(two) \in Nat
    BY <1>3, FS_CardinalityType
  <2> QED BY <2>1, <2>3, <2>4
<1> HIDE DEF one, two
<1> QED BY <1>2, <1>3, <1>4

LEMMA EdgeBySide ==
    ASSUME NEW x \in Point, NEW p \in Point, NEW q \in Point
    PROVE  /\ Side(x, p, q) \in Int
           /\ Crosses(x[1], x[2], p, q) <=>
                 /\ (p[1] - x[1] > 0) # (q[1] - x[1] > 0)
                 /\ IF q[1] - x[1] > p[1] - x[1] THEN Side(x, q, p) > 0 ELSE Side(x, q, p) < 0
<1> DEFINE left == (x[2] - p[2]) * (q[1] - p[1])
           right == (q[2] - p[2]) * (x[1] - p[1])
<1>0. x[1] \in Int /\ x[2] \in Int /\ p[1] \in Int /\ p[2] \in Int /\ q[1] \in Int /\ q[2] \in Int
  BY PointParts
<1>1. /\ left < right <=> Side(x, p, q) < 0
      /\ left > right <=> Side(x, p, q) > 0
  BY <1>0, CrossesBySide DEF Side
<1>2. Side(x, q, p) = 0 - Side(x, p, q)
  BY <1>0, SideTurned DEF Side
<1>3. Side(x, p, q) \in Int
  BY <1>0 DEF Side
<1>4. /\ p[1] > x[1] <=> p[1] - x[1] > 0
      /\ q[1] > x[1] <=> q[1] - x[1] > 0
      /\ q[1] > p[1] <=> q[1] - x[1] > p[1] - x[1]
  BY <1>0
<1>5. /\ Side(x, q, p) > 0 <=> Side(x, p, q) < 0
      /\ Side(x, q, p) < 0 <=> Side(x, p, q) > 0
  BY <1>2, <1>3
<1>6. Crosses(x[1], x[2], p, q) <=>
          /\ (p[1] > x[1]) # (q[1] > x[1])
          /\ IF q[1] > p[1] THEN left < right ELSE left > right
  BY DEF Crosses
<1> HIDE DEF left, right
<1> QED BY <1>1, <1>3, <1>4, <1>5, <1>6

LEMMA TriangleMatches ==
    ASSUME NEW point \in Point, NEW a \in Point, NEW b \in Point, NEW c \in Point
    PROVE  MatchesHalfPlanes(point, a, b, c)
<1> DEFINE A == a[1] - point[1]
           B == b[1] - point[1]
           C == c[1] - point[1]
           ab == Side(point, a, b)
           bc == Side(point, b, c)
           ca == Side(point, c, a)
           crossed == {i \in 1..3 : Crosses(point[1], point[2], <<a, b, c>>[i],
                                            <<a, b, c>>[IF i = 1 THEN 3 ELSE i - 1])}
           e1 == Crosses(point[1], point[2], a, c)
           e2 == Crosses(point[1], point[2], b, a)
           e3 == Crosses(point[1], point[2], c, b)
           inside == PointInPolygon(point[1], point[2], <<a, b, c>>)
<1>0. /\ point[1] \in Int /\ point[2] \in Int /\ a[1] \in Int /\ a[2] \in Int
      /\ b[1] \in Int /\ b[2] \in Int /\ c[1] \in Int /\ c[2] \in Int
  BY PointParts
<1>1. A \in Int /\ B \in Int /\ C \in Int /\ ab \in Int /\ bc \in Int /\ ca \in Int
  BY <1>0, EdgeBySide
<1>2. ab * C + bc * A + ca * B = 0
  BY <1>0, Balance DEF Side
<1>3. A = 0 /\ B = 0 /\ C = 0 => ab = 0
  BY <1>0 DEF Side
<1>4. /\ e1 <=> (A > 0) # (C > 0) /\ IF C > A THEN ca > 0 ELSE ca < 0
      /\ e2 <=> (B > 0) # (A > 0) /\ IF A > B THEN ab > 0 ELSE ab < 0
      /\ e3 <=> (C > 0) # (B > 0) /\ IF B > C THEN bc > 0 ELSE bc < 0
  BY EdgeBySide
<1>5. inside <=> (e1 # e2) # e3
  <2>1. (1 \in crossed <=> e1) /\ (2 \in crossed <=> e2) /\ (3 \in crossed <=> e3)
    OBVIOUS
  <2>2. inside <=> Cardinality(crossed) % 2 = 1
    BY DEF PointInPolygon
  <2>3. crossed \in SUBSET (1..3)
    OBVIOUS
  <2>4. e1 \in BOOLEAN /\ e2 \in BOOLEAN /\ e3 \in BOOLEAN
    BY DEF Crosses
  <2> HIDE DEF crossed, e1, e2, e3, inside
  <2> QED BY <2>1, <2>2, <2>3, <2>4, ParityOfThree
<1>8. e1 \in BOOLEAN /\ e2 \in BOOLEAN /\ e3 \in BOOLEAN /\ inside \in BOOLEAN
  BY DEF Crosses, PointInPolygon
<1> DEFINE sides == {ab, bc, ca}
<1>6. MatchesHalfPlanes(point, a, b, c) <=>
          /\ ((\A s \in sides : s > 0) \/ (\A s \in sides : s < 0)) => inside
          /\ ((\E s \in sides : s > 0) /\ (\E s \in sides : s < 0)) => ~inside
  BY DEF MatchesHalfPlanes
<1> HIDE DEF A, B, C, ab, bc, ca, e1, e2, e3, inside
<1>7. /\ (ab > 0 /\ bc > 0 /\ ca > 0) \/ (ab < 0 /\ bc < 0 /\ ca < 0) => inside
      /\ (ab > 0 \/ bc > 0 \/ ca > 0) /\ (ab < 0 \/ bc < 0 \/ ca < 0) => ~inside
  BY <1>1, <1>2, <1>3, <1>4, <1>5, <1>8, TriangleParity
<1> QED BY <1>6, <1>7

(* For any points of an integer grid of any size, a point strictly inside a   *)
(* triangle passes the polygon filter and one strictly outside does not,      *)
(* whichever way the corners go round and whatever vertex or level edge is on *)
(* the ray (maps/geo.py:33-55).                                               *)
THEOREM TriangleSound == TrianglesMatchHalfPlanes
<1> SUFFICES ASSUME NEW point \in Place, NEW a \in Place, NEW b \in Place, NEW c \in Place
             PROVE  MatchesHalfPlanes(point, a, b, c)
  BY DEF TrianglesMatchHalfPlanes
<1> QED
  BY TriangleMatches, PlaceAssumption DEF Point
-----------------------------------------------------------------------------
(* Numbers, finite sets and folds.                                            *)

(* A nonempty set of naturals has a least element.                            *)
LEMMA LeastOf ==
    ASSUME NEW T \in SUBSET Nat, T # {}
    PROVE  \E n \in T : \A m \in T : n <= m
<1>1. \E n \in T : \A m \in T : ~ (<<m, n>> \in OpToRel(<, Nat))
  <2>1. IsWellFoundedOn(OpToRel(<, Nat), Nat)
    BY NatLessThanWellFounded
  <2> QED BY <2>1, WFMin, Zenon
<1>2. PICK n \in T : \A m \in T : ~ (<<m, n>> \in OpToRel(<, Nat))
  BY <1>1
<1>3. \A m \in T : ~ (m < n)
  BY <1>2 DEF OpToRel
<1> QED BY <1>3

(* Induction, over a set of numbers.                                          *)
LEMMA AllNumbers ==
    ASSUME NEW N \in SUBSET Nat, 0 \in N, \A n \in N : n + 1 \in N
    PROVE  N = Nat
<1> SUFFICES ASSUME Nat \ N # {} PROVE FALSE
  OBVIOUS
<1>1. PICK n \in Nat \ N : \A m \in Nat \ N : n <= m
  BY LeastOf
<1>2. n # 0 /\ n - 1 \in Nat /\ n - 1 < n
  BY <1>1
<1>3. n - 1 \in N
  BY <1>1, <1>2
<1>4. (n - 1) + 1 = n
  BY <1>1
<1> QED BY <1>1, <1>3, <1>4

(* Induction over the subsets of a finite set: it is enough that each of them *)
(* is good when it is without one of its elements.                            *)
LEMMA AllSubsets ==
    ASSUME NEW S, IsFiniteSet(S), NEW Good \in SUBSET (SUBSET S), {} \in Good,
           \A s \in SUBSET S : s # {} => \E x \in s : s \ {x} \in Good => s \in Good
    PROVE  S \in Good
<1> DEFINE N == {n \in Nat : \A s \in SUBSET S : Cardinality(s) <= n => s \in Good}
<1>0. \A s \in SUBSET S : IsFiniteSet(s) /\ Cardinality(s) \in Nat
  BY FS_Subset, FS_CardinalityType
<1>1. 0 \in N
  <2>1. ASSUME NEW s \in SUBSET S, Cardinality(s) <= 0 PROVE s \in Good
    <3>1. s = {} BY <1>0, <2>1, FS_EmptySet
    <3> QED BY <3>1
  <2> QED BY <2>1
<1>2. ASSUME NEW n \in N PROVE n + 1 \in N
  <2>1. ASSUME NEW s \in SUBSET S, Cardinality(s) <= n + 1 PROVE s \in Good
    <3>1. CASE s = {}
      BY <3>1
    <3>2. CASE s # {}
      <4>1. PICK x \in s : s \ {x} \in Good => s \in Good
        BY <3>2
      <4>2. Cardinality(s \ {x}) = Cardinality(s) - 1
        BY <1>0, FS_RemoveElement
      <4>3. Cardinality(s \ {x}) <= n /\ s \ {x} \in SUBSET S
        BY <1>0, <2>1, <4>2
      <4>4. s \ {x} \in Good
        BY <4>3
      <4> QED BY <4>1, <4>4
    <3> QED BY <3>1, <3>2
  <2> QED BY <2>1
<1> HIDE DEF N
<1>3. N = Nat
  BY <1>1, <1>2, AllNumbers DEF N
<1> QED BY <1>0, <1>3 DEF N

(* A fold over a finite set: Ch is the choice of the next element, G the      *)
(* operation, on values of V.                                                 *)
Foldable(S, V, base, Ch, G) ==
    /\ IsFiniteSet(S) /\ base \in V
    /\ \A s \in SUBSET S : s # {} => Ch[s] \in s
    /\ \A x \in S, v \in V : G[x][v] \in V

IsFold(it, S, base, Ch, G) ==
    \A s \in SUBSET S : it[s] = IF s = {} THEN base ELSE G[Ch[s]][it[s \ {Ch[s]}]]

(* It is well defined, in whatever order it goes.                             *)
LEMMA FoldDefined ==
    ASSUME NEW S, NEW V, NEW base, NEW Ch, NEW G, Foldable(S, V, base, Ch, G)
    PROVE  \E it \in [SUBSET S -> V] : IsFold(it, S, base, Ch, G)
<1> USE DEF Foldable
<1> DEFINE Step(g, s) == IF s = {} THEN base ELSE G[Ch[s]][g[s \ {Ch[s]}]]
           N == {n \in Nat : \E g \in [SUBSET S -> V] : \A s \in SUBSET S :
                                 Cardinality(s) <= n => g[s] = Step(g, s)}
<1>0. \A s \in SUBSET S : IsFiniteSet(s) /\ Cardinality(s) \in Nat
  BY FS_Subset, FS_CardinalityType
<1>1. 0 \in N
  <2> DEFINE g == [s \in SUBSET S |-> base]
  <2>1. ASSUME NEW s \in SUBSET S, Cardinality(s) <= 0 PROVE g[s] = Step(g, s)
    <3>1. s = {} BY <1>0, <2>1, FS_EmptySet
    <3> QED BY <3>1
  <2>2. g \in [SUBSET S -> V]
    OBVIOUS
  <2> HIDE DEF g
  <2> QED BY <2>1, <2>2
<1>2. ASSUME NEW n \in N PROVE n + 1 \in N
  <2>1. PICK g \in [SUBSET S -> V] :
            \A s \in SUBSET S : Cardinality(s) <= n => g[s] = Step(g, s)
    OBVIOUS
  <2> DEFINE h == [s \in SUBSET S |-> Step(g, s)]
  <2>2. \A s \in SUBSET S : s # {} => s \ {Ch[s]} \in SUBSET S
    OBVIOUS
  <2>3. h \in [SUBSET S -> V]
    <3> SUFFICES ASSUME NEW s \in SUBSET S PROVE Step(g, s) \in V
      OBVIOUS
    <3>1. CASE s = {}
      BY <3>1
    <3>2. CASE s # {}
      <4>1. Ch[s] \in S /\ g[s \ {Ch[s]}] \in V
        BY <2>2, <3>2
      <4> QED BY <3>2, <4>1
    <3> QED BY <3>1, <3>2
  <2>4. ASSUME NEW s \in SUBSET S, Cardinality(s) <= n + 1 PROVE h[s] = Step(h, s)
    <3>1. CASE s = {}
      BY <3>1
    <3>2. CASE s # {}
      <4> DEFINE t == s \ {Ch[s]}
      <4>1. t \in SUBSET S /\ Ch[s] \in s
        BY <2>2, <3>2
      <4>2. Cardinality(t) = Cardinality(s) - 1
        BY <1>0, <4>1, FS_RemoveElement
      <4>3. Cardinality(t) <= n
        BY <1>0, <2>4, <4>2
      <4>4. g[t] = Step(g, t)
        BY <2>1, <4>1, <4>3
      <4>5. h[t] = g[t]
        BY <4>1, <4>4
      <4>6. h[s] = G[Ch[s]][g[t]]
        BY <3>2
      <4> HIDE DEF h, t
      <4>7. h[s] = G[Ch[s]][h[t]]
        BY <4>5, <4>6
      <4> QED BY <3>2, <4>7 DEF t
    <3> QED BY <3>1, <3>2
  <2> HIDE DEF h
  <2>5. \E f \in [SUBSET S -> V] : \A s \in SUBSET S : Cardinality(s) <= n + 1 => f[s] = Step(f, s)
    BY <2>3, <2>4
  <2>6. n + 1 \in Nat
    OBVIOUS
  <2> HIDE DEF Step
  <2> QED BY <2>5, <2>6
<1>3. N = Nat
  <2>1. N \in SUBSET Nat
    OBVIOUS
  <2> HIDE DEF N
  <2> QED BY <1>1, <1>2, <2>1, AllNumbers
<1>4. Cardinality(S) \in N
  BY <1>0, <1>3
<1>5. PICK g \in [SUBSET S -> V] :
          \A s \in SUBSET S : Cardinality(s) <= Cardinality(S) => g[s] = Step(g, s)
  BY <1>4
<1>6. \A s \in SUBSET S : Cardinality(s) <= Cardinality(S)
  BY FS_Subset
<1>7. \A s \in SUBSET S : g[s] = Step(g, s)
  BY <1>5, <1>6
<1> QED BY <1>7 DEF IsFold

-----------------------------------------------------------------------------
(* What is said of a business by its reviews.                                 *)

(* Max, with which the folds over sequences choose the next index.            *)
LEMMA LargestOf ==
    ASSUME NEW k \in Nat, NEW s \in SUBSET (1..k), s # {}
    PROVE  Max(s) \in s
<1> DEFINE T == {n \in Nat : \A x \in s : x <= n}
<1>1. T \in SUBSET Nat /\ k \in T
  OBVIOUS
<1>2. PICK n \in T : \A m \in T : n <= m
  BY <1>1, LeastOf
<1>3. n \in s
  <2> SUFFICES ASSUME n \notin s PROVE FALSE
    OBVIOUS
  <2>1. \A x \in s : x <= n /\ x \in Nat /\ x > 0 /\ x # n
    BY <1>2
  <2>2. n \in Nat /\ n > 0
    <3>1. PICK x \in s : TRUE
      OBVIOUS
    <3>2. x <= n /\ x > 0 /\ x \in Nat /\ n \in Nat
      BY <1>2, <2>1, <3>1
    <3> QED BY <3>2
  <2>4. \A x \in s : x <= n - 1
    BY <2>1, <2>2
  <2>3. n - 1 \in T
    BY <2>2, <2>4
  <2> QED BY <1>2, <2>2, <2>3
<1>4. \E x \in s : \A y \in s : x >= y
  BY <1>2, <1>3
<1> QED BY <1>4 DEF Max

(* Dropping duplicates brings in nothing that was not there                   *)
(* (maps/reviews.py:209-223).                                                 *)
LEMMA FirstSeenType ==
    ASSUME NEW W, NEW seq \in Seq(W)
    PROVE  FirstSeen(seq) \in Seq(W)
<1> DEFINE S == DOMAIN seq
           Add(kept, x) == IF Contains(kept, x) THEN kept ELSE Append(kept, x)
           Body(it) == [s \in SUBSET S |->
                           IF s = {} THEN <<>> ELSE Add(it[s \ {Max(s)}], seq[Max(s)])]
           iter == CHOOSE it : it = Body(it)
           Ch == [s \in SUBSET S |-> Max(s)]
           G == [x \in S |-> [v \in Seq(W) |-> Add(v, seq[x])]]
<1>1. FirstSeen(seq) = iter[S]
  BY DEF FirstSeen, FoldLeft, MapThenFoldSet
<1>2. /\ Len(seq) \in Nat /\ S = 1..Len(seq) /\ IsFiniteSet(S)
      /\ <<>> \in Seq(W)
      /\ \A x \in S : seq[x] \in W
  BY FS_Interval
<1>3. \A s \in SUBSET S : s # {} => Ch[s] \in s /\ Ch[s] = Max(s) /\ Ch[s] \in S /\ s \ {Ch[s]} \in SUBSET S
  BY <1>2, LargestOf
<1>4. \A x \in S, v \in Seq(W) : G[x][v] = Add(v, seq[x]) /\ G[x][v] \in Seq(W)
  <2> SUFFICES ASSUME NEW x \in S, NEW v \in Seq(W) PROVE Add(v, seq[x]) \in Seq(W)
    OBVIOUS
  <2>1. Append(v, seq[x]) \in Seq(W)
    BY <1>2
  <2> QED BY <2>1
<1> HIDE DEF Ch, G
<1>5. PICK it \in [SUBSET S -> Seq(W)] : IsFold(it, S, <<>>, Ch, G)
  <2>1. Foldable(S, Seq(W), <<>>, Ch, G)
    BY <1>2, <1>3, <1>4 DEF Foldable
  <2> HIDE DEF S
  <2> QED BY <2>1, FoldDefined
<1>6. it = Body(it)
  <2>1. ASSUME NEW s \in SUBSET S
        PROVE  it[s] = IF s = {} THEN <<>> ELSE Add(it[s \ {Max(s)}], seq[Max(s)])
    <3>1. CASE s = {}
      BY <1>5, <3>1 DEF IsFold
    <3>2. CASE s # {}
      <4>1. it[s \ {Ch[s]}] \in Seq(W)
        BY <1>3, <3>2
      <4>2. it[s] = G[Ch[s]][it[s \ {Ch[s]}]]
        BY <1>5, <3>2 DEF IsFold
      <4> HIDE DEF Add
      <4> QED BY <1>3, <1>4, <3>2, <4>1, <4>2
    <3> QED BY <3>1, <3>2
  <2> HIDE DEF Add, S
  <2> QED BY <2>1
<1>7. iter = Body(iter)
  <2> HIDE DEF Body
  <2> QED BY <1>6
<1> DEFINE Good == {s \in SUBSET S : iter[s] \in Seq(W)}
<1>8. S \in Good
  <2> HIDE DEF iter
  <2>1. {} \in Good
    BY <1>2, <1>7
  <2>2. ASSUME NEW s \in SUBSET S, s # {} PROVE \E x \in s : s \ {x} \in Good => s \in Good
    <3>1. Max(s) \in s /\ seq[Max(s)] \in W
      BY <1>2, <1>3, <2>2
    <3>2. iter[s] = Add(iter[s \ {Max(s)}], seq[Max(s)])
      BY <1>7, <2>2
    <3>3. ASSUME NEW v \in Seq(W) PROVE Add(v, seq[Max(s)]) \in Seq(W)
      BY <3>1
    <3> HIDE DEF Add
    <3> QED BY <3>1, <3>2, <3>3
  <2>3. Good \in SUBSET (SUBSET S)
    OBVIOUS
  <2> HIDE DEF Good, S
  <2> QED BY <1>2, <2>1, <2>2, <2>3, AllSubsets
<1> QED
  BY <1>1, <1>8

(* What the collector hands over: a sequence of reviews, each of a sequence   *)
(* of words.                                                                  *)
ReviewSeq(reviews) ==
    /\ reviews \in Seq(Range(reviews))
    /\ \A r \in Range(reviews) :
           r = [id |-> r.id, words |-> r.words] /\ r.words \in Seq(Range(r.words))

LEMMA ShortenedType ==
    ASSUME NEW r, r = [id |-> r.id, words |-> r.words], r.words \in Seq(Range(r.words))
    PROVE  LET cut == [r EXCEPT !.words = SubSeq(@, 1, MaxLen)]
           IN  MaxLen > 0 /\ Len(r.words) > MaxLen =>
                   /\ cut = [id |-> cut.id, words |-> cut.words]
                   /\ cut.words \in Seq(Range(cut.words))
<1> SUFFICES ASSUME MaxLen > 0, Len(r.words) > MaxLen
             PROVE  LET cut == [r EXCEPT !.words = SubSeq(@, 1, MaxLen)]
                    IN  /\ cut = [id |-> cut.id, words |-> cut.words]
                        /\ cut.words \in Seq(Range(cut.words))
  OBVIOUS
<1> DEFINE short == SubSeq(r.words, 1, MaxLen)
<1>1. [r EXCEPT !.words = SubSeq(@, 1, MaxLen)] = [id |-> r.id, words |-> short]
  <2> DEFINE q == [id |-> r.id, words |-> r.words]
  <2>1. r = q
    OBVIOUS
  <2>2. [r EXCEPT !.words = SubSeq(@, 1, MaxLen)] = [r EXCEPT !.words = short]
    OBVIOUS
  <2> HIDE DEF short
  <2>3. [q EXCEPT !.words = short] = [id |-> r.id, words |-> short]
    OBVIOUS
  <2> HIDE DEF q
  <2> QED BY <2>1, <2>2, <2>3
<1>2. /\ MaxLen \in Nat /\ Len(short) = MaxLen
      /\ short \in Seq(Range(r.words))
  BY ReviewAssumption
<1>3. short \in Seq(Range(short))
  <2> HIDE DEF short
  <2>1. DOMAIN short = 1..Len(short) /\ Len(short) \in Nat
    BY <1>2
  <2>2. \A i \in 1..Len(short) : short[i] \in Range(short)
    BY <2>1 DEF Range
  <2>3. short = [i \in 1..Len(short) |-> short[i]]
    BY <1>2, <2>1
  <2> QED BY <2>1, <2>2, <2>3
<1> HIDE DEF short
<1> QED BY <1>1, <1>3

ASeq(s) == s \in Seq(Range(s))

LEMMA SeqOver ==
  ASSUME NEW S, NEW s \in Seq(S)
  PROVE  ASeq(s) /\ Range(s) \subseteq S /\ Len(s) \in Nat
<1>1. Len(s) \in Nat /\ DOMAIN s = 1..Len(s) /\ \A i \in 1..Len(s) : s[i] \in S
  OBVIOUS
<1>2. Range(s) \subseteq S
  BY <1>1 DEF Range
<1>3. \A i \in 1..Len(s) : s[i] \in Range(s)
  BY <1>1 DEF Range
<1>4. s = [i \in 1..Len(s) |-> s[i]]
  OBVIOUS
<1>5. s \in Seq(Range(s))
  BY <1>1, <1>3, <1>4
<1> QED
  BY <1>1, <1>2, <1>5 DEF ASeq

(* What is left after the duplicates, the short ones and the cuts is such a   *)
(* sequence.                                                                  *)
LEMMA FilterReviewsType ==
    ASSUME NEW reviews, ReviewSeq(reviews)
    PROVE  ReviewSeq(FilterReviews(reviews))
<1> DEFINE seq == FirstSeen(reviews)
           Cut(r) == IF MaxLen > 0 /\ Len(r.words) > MaxLen
                     THEN [r EXCEPT !.words = SubSeq(@, 1, MaxLen)] ELSE r
           W == Range(reviews) \cup {Cut(r) : r \in Range(reviews)}
           S == DOMAIN seq
           Add(kept, r) == IF Len(r.words) >= MinLen THEN Append(kept, Cut(r)) ELSE kept
           Body(it) == [s \in SUBSET S |->
                           IF s = {} THEN <<>> ELSE Add(it[s \ {Max(s)}], seq[Max(s)])]
           iter == CHOOSE it : it = Body(it)
           Ch == [s \in SUBSET S |-> Max(s)]
           G == [x \in S |-> [v \in Seq(W) |-> Add(v, seq[x])]]
<1>1. FilterReviews(reviews) = iter[S]
  BY DEF FilterReviews, FoldLeft, MapThenFoldSet
<1>0. seq \in Seq(Range(reviews))
  BY FirstSeenType DEF ReviewSeq
<1> HIDE DEF seq
<1>2. /\ Len(seq) \in Nat /\ S = 1..Len(seq) /\ IsFiniteSet(S)
      /\ <<>> \in Seq(W)
      /\ \A x \in S : seq[x] \in Range(reviews) /\ Cut(seq[x]) \in W
  <2>1. Len(seq) \in Nat /\ S = 1..Len(seq) /\ \A x \in S : seq[x] \in Range(reviews)
    BY <1>0
  <2>2. \A r \in Range(reviews) : Cut(r) \in W
    OBVIOUS
  <2> HIDE DEF Cut, W
  <2> QED BY <2>1, <2>2, FS_Interval
<1> HIDE DEF W, Cut
<1>3. \A s \in SUBSET S : s # {} => Ch[s] \in s /\ Ch[s] = Max(s) /\ Ch[s] \in S /\ s \ {Ch[s]} \in SUBSET S
  BY <1>2, LargestOf
<1>4. \A x \in S, v \in Seq(W) : G[x][v] = Add(v, seq[x]) /\ Add(v, seq[x]) \in Seq(W)
  <2> SUFFICES ASSUME NEW x \in S, NEW v \in Seq(W) PROVE Add(v, seq[x]) \in Seq(W)
    OBVIOUS
  <2>1. Append(v, Cut(seq[x])) \in Seq(W)
    BY <1>2
  <2> QED BY <2>1
<1> HIDE DEF Ch, G
<1>5. PICK it \in [SUBSET S -> Seq(W)] : IsFold(it, S, <<>>, Ch, G)
  <2>1. Foldable(S, Seq(W), <<>>, Ch, G)
    <3>1. \A x \in S, v \in Seq(W) : G[x][v] \in Seq(W)
      BY <1>4
    <3> HIDE DEF S
    <3> QED BY <1>2, <1>3, <3>1 DEF Foldable
  <2> HIDE DEF S
  <2> QED BY <2>1, FoldDefined
<1>6. it = Body(it)
  <2>1. ASSUME NEW s \in SUBSET S
        PROVE  it[s] = IF s = {} THEN <<>> ELSE Add(it[s \ {Max(s)}], seq[Max(s)])
    <3>1. CASE s = {}
      BY <1>5, <3>1 DEF IsFold
    <3>2. CASE s # {}
      <4>1. it[s \ {Ch[s]}] \in Seq(W)
        BY <1>3, <3>2
      <4>2. it[s] = G[Ch[s]][it[s \ {Ch[s]}]]
        BY <1>5, <3>2 DEF IsFold
      <4> HIDE DEF Add
      <4> QED BY <1>3, <1>4, <3>2, <4>1, <4>2
    <3> QED BY <3>1, <3>2
  <2> HIDE DEF Add, S
  <2> QED BY <2>1
<1>7. iter = Body(iter)
  <2> HIDE DEF Body
  <2> QED BY <1>6
<1> DEFINE Good == {s \in SUBSET S : iter[s] \in Seq(W)}
<1>8. S \in Good
  <2> HIDE DEF iter
  <2>1. {} \in Good
    BY <1>2, <1>7
  <2>2. ASSUME NEW s \in SUBSET S, s # {} PROVE \E x \in s : s \ {x} \in Good => s \in Good
    <3>1. Max(s) \in s /\ Max(s) \in S
      BY <1>3, <2>2
    <3>2. iter[s] = Add(iter[s \ {Max(s)}], seq[Max(s)])
      BY <1>7, <2>2
    <3> HIDE DEF Add
    <3> QED BY <1>4, <3>1, <3>2
  <2>3. Good \in SUBSET (SUBSET S)
    OBVIOUS
  <2> HIDE DEF Good, S
  <2> QED BY <1>2, <2>1, <2>2, <2>3, AllSubsets
<1>9. \A r \in W : r = [id |-> r.id, words |-> r.words] /\ r.words \in Seq(Range(r.words))
  <2>1. \A r \in Range(reviews) : r = [id |-> r.id, words |-> r.words] /\ r.words \in Seq(Range(r.words))
    BY DEF ReviewSeq
  <2>2. ASSUME NEW r \in Range(reviews)
        PROVE  LET cut == Cut(r) IN cut = [id |-> cut.id, words |-> cut.words] /\ cut.words \in Seq(Range(cut.words))
    <3>1. CASE MaxLen > 0 /\ Len(r.words) > MaxLen
      BY <2>1, <3>1, ShortenedType DEF Cut
    <3>2. CASE ~(MaxLen > 0 /\ Len(r.words) > MaxLen)
      <4>1. Cut(r) = r BY <3>2 DEF Cut
      <4> QED BY <2>1, <4>1
    <3> QED BY <3>1, <3>2
  <2> QED BY <2>1, <2>2 DEF W
<1>10. FilterReviews(reviews) \in Seq(W)
  BY <1>1, <1>8
<1> HIDE DEF W
<1> QED
  BY <1>9, <1>10, SeqOver DEF ReviewSeq, ASeq

LEMMA ImageFinite ==
    ASSUME NEW S, IsFiniteSet(S), NEW T, NEW f \in [S -> T], \A t \in T : \E x \in S : f[x] = t
    PROVE  IsFiniteSet(T)
<1>1. f \in Surjection(S, T)
  BY DEF Surjection
<1> QED
  BY <1>1, FS_Surjection

LEMMA KeywordCountType ==
    ASSUME NEW reviews, ReviewSeq(reviews)
    PROVE  KeywordCount(reviews) \in Nat
<1> DEFINE Words == {ToSet(reviews[i].words) : i \in DOMAIN reviews}
<1>1. IsFiniteSet(DOMAIN reviews)
  <2>1. DOMAIN reviews = 1..Len(reviews) /\ Len(reviews) \in Nat
    BY DEF ReviewSeq
  <2> QED BY <2>1, FS_Interval
<1>2. IsFiniteSet(Words)
  <2> DEFINE f == [i \in DOMAIN reviews |-> ToSet(reviews[i].words)]
  <2>1. f \in [DOMAIN reviews -> Words] /\ \A X \in Words : \E i \in DOMAIN reviews : f[i] = X
    OBVIOUS
  <2> HIDE DEF f, Words
  <2> QED BY <1>1, <2>1, ImageFinite
<1>3. ASSUME NEW X \in Words PROVE IsFiniteSet(X)
  <2>1. PICK i \in DOMAIN reviews : X = ToSet(reviews[i].words)
    OBVIOUS
  <2> DEFINE words == reviews[i].words
  <2>2. words \in Seq(Range(words))
    BY DEF ReviewSeq, Range
  <2>3. DOMAIN words = 1..Len(words) /\ Len(words) \in Nat
    BY <2>2
  <2>4. X = {words[k] : k \in DOMAIN words}
    BY <2>1 DEF ToSet
  <2> HIDE DEF words
  <2>5. IsFiniteSet(DOMAIN words)
    BY <2>3, FS_Interval
  <2>6. words \in [DOMAIN words -> X]
    BY <2>2, <2>3, <2>4
  <2> QED BY <2>4, <2>5, <2>6, ImageFinite
<1>4. IsFiniteSet(UNION Words)
  BY <1>2, <1>3, FS_UNION
<1>5. ReviewKeywords(reviews) \subseteq UNION Words
  BY DEF ReviewKeywords
<1>6. Cardinality(ReviewKeywords(reviews)) \in Nat
  BY <1>4, <1>5, FS_Subset, FS_CardinalityType
<1> QED
  BY <1>6, ReviewAssumption DEF KeywordCount

LEMMA CountInBounds ==
    ASSUME NEW r, r.words \in Seq(Range(r.words)), NEW A, NEW B, A \subseteq B
    PROVE  CountIn(r, A) \in Nat /\ CountIn(r, B) \in Nat /\ CountIn(r, A) <= CountIn(r, B)
<1> DEFINE In(X) == {i \in DOMAIN r.words : r.words[i] \in X}
<1>1. IsFiniteSet(DOMAIN r.words)
  <2> DEFINE words == r.words
  <2> HIDE DEF words
  <2>1. words \in Seq(Range(words))
    BY DEF words
  <2>2. DOMAIN words = 1..Len(words) /\ Len(words) \in Nat
    BY <2>1
  <2>3. IsFiniteSet(DOMAIN words)
    BY <2>2, FS_Interval
  <2> QED BY <2>3 DEF words
<1>2. In(B) \subseteq DOMAIN r.words /\ In(A) \subseteq In(B)
  OBVIOUS
<1>3. CountIn(r, A) = Cardinality(In(A)) /\ CountIn(r, B) = Cardinality(In(B))
  BY DEF CountIn
<1> HIDE DEF In
<1>4. IsFiniteSet(In(B))
  BY <1>1, <1>2, FS_Subset
<1>5. IsFiniteSet(In(A)) /\ Cardinality(In(A)) <= Cardinality(In(B))
  BY <1>2, <1>4, FS_Subset
<1> QED
  BY <1>3, <1>4, <1>5, FS_CardinalityType

(* A quotient between two integers stays there when it is rounded.            *)
LEMMA RoundedBounds ==
    ASSUME NEW n \in Int, NEW d \in Nat \ {0}, NEW m \in Nat, 0 - m * d <= n, n <= m * d
    PROVE  Rounded(n, d) \in Int /\ 0 - m <= Rounded(n, d) /\ Rounded(n, d) <= m
<1> DEFINE w == n \div d
           k == n % d
<1>1. w \in Int /\ k \in 0..(d - 1) /\ n = d * w + k
  OBVIOUS
<1>2. Rounded(n, d) = IF 2 * k > d \/ (2 * k = d /\ w % 2 = 1) THEN w + 1 ELSE w
  BY DEF Rounded
<1> HIDE DEF w, k
<1>3. w >= 0 - m
  <2> SUFFICES ASSUME w + 1 <= 0 - m PROVE FALSE
    BY <1>1
  <2>1. d * (w + 1) <= d * (0 - m)
    BY <1>1
  <2>2. d * (w + 1) = d * w + d /\ d * (0 - m) = 0 - m * d
    BY <1>1
  <2> QED BY <1>1, <2>1, <2>2
<1>4. w <= m /\ (w = m => k = 0)
  <2>1. ASSUME w >= m + 1 PROVE FALSE
    <3>1. d * w >= d * (m + 1)
      BY <1>1, <2>1
    <3>2. d * (m + 1) = m * d + d
      OBVIOUS
    <3> QED BY <1>1, <3>1, <3>2
  <2>2. ASSUME w = m PROVE k = 0
    <3>1. d * w = m * d
      BY <2>2
    <3> QED BY <1>1, <3>1
  <2> QED BY <1>1, <2>1, <2>2
<1> QED
  BY <1>1, <1>2, <1>3, <1>4

(* The parts of SentimentScore, by name.                                      *)
Told(reviews) == {i \in DOMAIN reviews : Scored(reviews[i]) > 0}
Common(reviews) == FoldSet(LAMBDA i, d : d * Scored(reviews[i]), 1, Told(reviews))
Score(r, common) ==
    (CountIn(r, PositiveWords) - CountIn(r, NegativeWords \ PositiveWords)) * (common \div Scored(r))
Total(reviews, common) == FoldSet(LAMBDA i, sum : sum + Score(reviews[i], common), 0, Told(reviews))

LEMMA ToldFinite ==
    ASSUME NEW reviews, ReviewSeq(reviews)
    PROVE  IsFiniteSet(Told(reviews))
<1>1. DOMAIN reviews = 1..Len(reviews) /\ Len(reviews) \in Nat
  BY DEF ReviewSeq
<1>2. Told(reviews) \subseteq DOMAIN reviews
  BY DEF Told
<1>3. IsFiniteSet(DOMAIN reviews)
  BY <1>1, FS_Interval
<1> QED BY <1>2, <1>3, FS_Subset

LEMMA ScoredType ==
    ASSUME NEW reviews, ReviewSeq(reviews), NEW i \in Told(reviews)
    PROVE  LET r == reviews[i]
           IN  /\ Scored(r) \in Nat \ {0}
               /\ CountIn(r, PositiveWords) \in 0..Scored(r)
               /\ CountIn(r, NegativeWords \ PositiveWords) \in 0..Scored(r)
<1> DEFINE r == reviews[i]
<1>1. i \in DOMAIN reviews /\ Scored(r) > 0
  BY DEF Told
<1>2. r.words \in Seq(Range(r.words))
  BY <1>1 DEF ReviewSeq, Range
<1> HIDE DEF r
<1>3. CountIn(r, PositiveWords) \in Nat /\ Scored(r) \in Nat /\ CountIn(r, PositiveWords) <= Scored(r)
  BY <1>2, CountInBounds DEF Scored
<1>4. CountIn(r, NegativeWords \ PositiveWords) \in Nat
      /\ CountIn(r, NegativeWords \ PositiveWords) <= Scored(r)
  <2>1. NegativeWords \ PositiveWords \subseteq PositiveWords \cup NegativeWords
    OBVIOUS
  <2> QED BY <1>2, <2>1, CountInBounds DEF Scored
<1> QED BY <1>1, <1>3, <1>4 DEF r

(* The common denominator: a product of positive numbers.                     *)
LEMMA CommonType ==
    ASSUME NEW reviews, ReviewSeq(reviews)
    PROVE  Common(reviews) \in Nat \ {0}
<1> DEFINE S == Told(reviews)
           V == Nat \ {0}
           pick(s) == CHOOSE x \in s : TRUE
           Body(it) == [s \in SUBSET S |->
                           IF s = {} THEN 1 ELSE it[s \ {pick(s)}] * Scored(reviews[pick(s)])]
           iter == CHOOSE it : it = Body(it)
           Ch == [s \in SUBSET S |-> pick(s)]
           G == [x \in S |-> [v \in V |-> v * Scored(reviews[x])]]
<1>1. Common(reviews) = iter[S]
  BY DEF Common, FoldSet, MapThenFoldSet
<1>2. IsFiniteSet(S) /\ 1 \in V /\ \A x \in S : Scored(reviews[x]) \in V
  BY ToldFinite, ScoredType
<1>p. \A s \in SUBSET S : s # {} => pick(s) \in s
  OBVIOUS
<1> HIDE DEF S, pick
<1>3. \A s \in SUBSET S : s # {} =>
          Ch[s] \in s /\ Ch[s] = pick(s) /\ Ch[s] \in S /\ s \ {Ch[s]} \in SUBSET S
  BY <1>p
<1>4. \A x \in S, v \in V :
          G[x][v] = v * Scored(reviews[x]) /\ G[x][v] \in V /\ v * Scored(reviews[x]) \in V
  <2> SUFFICES ASSUME NEW x \in S, NEW v \in V PROVE v * Scored(reviews[x]) \in V
    OBVIOUS
  <2> DEFINE n == Scored(reviews[x])
  <2>1. n \in V
    BY <1>2
  <2> HIDE DEF n
  <2>2. v * n \in V
    BY <2>1
  <2> QED BY <2>2 DEF n
<1> HIDE DEF Ch, G, V
<1>5. PICK it \in [SUBSET S -> V] : IsFold(it, S, 1, Ch, G)
  <2>1. Foldable(S, V, 1, Ch, G)
    BY <1>2, <1>3, <1>4 DEF Foldable
  <2> QED BY <2>1, FoldDefined
<1>6. it = Body(it)
  <2>1. ASSUME NEW s \in SUBSET S
        PROVE  it[s] = IF s = {} THEN 1 ELSE it[s \ {pick(s)}] * Scored(reviews[pick(s)])
    <3>1. CASE s = {}
      BY <1>5, <3>1 DEF IsFold
    <3>2. CASE s # {}
      <4>1. it[s \ {Ch[s]}] \in V
        BY <1>3, <3>2
      <4>2. it[s] = G[Ch[s]][it[s \ {Ch[s]}]]
        BY <1>5, <3>2 DEF IsFold
      <4> QED BY <1>3, <1>4, <3>2, <4>1, <4>2
    <3> QED BY <3>1, <3>2
  <2> QED BY <2>1
<1>7. iter = Body(iter)
  <2> HIDE DEF Body
  <2> QED BY <1>6
<1> DEFINE Good == {s \in SUBSET S : iter[s] \in V}
<1>8. S \in Good
  <2> HIDE DEF iter
  <2>1. {} \in Good
    BY <1>2, <1>7
  <2>2. ASSUME NEW s \in SUBSET S, s # {} PROVE \E x \in s : s \ {x} \in Good => s \in Good
    <3>1. pick(s) \in s /\ pick(s) \in S
      BY <1>p, <2>2
    <3>2. iter[s] = iter[s \ {pick(s)}] * Scored(reviews[pick(s)])
      BY <1>7, <2>2
    <3> QED BY <1>4, <3>1, <3>2
  <2>3. Good \in SUBSET (SUBSET S)
    OBVIOUS
  <2> HIDE DEF Good
  <2> QED BY <1>2, <2>1, <2>2, <2>3, AllSubsets
<1> QED
  BY <1>1, <1>8 DEF V

LEMMA QuotientBounds ==
    ASSUME NEW c \in Nat, NEW d \in Nat \ {0}
    PROVE  c \div d \in Nat /\ d * (c \div d) <= c
<1> DEFINE q == c \div d
           k == c % d
<1>1. q \in Int /\ k \in 0..(d - 1) /\ c = d * q + k
  OBVIOUS
<1> HIDE DEF q, k
<1>2. d * q \in Int
  BY <1>1
<1>3. d * q <= c
  BY <1>1, <1>2
<1>4. q >= 0
  <2> SUFFICES ASSUME q <= 0 - 1 PROVE FALSE
    BY <1>1
  <2>1. d * q <= d * (0 - 1)
    BY <1>1
  <2>2. d * (0 - 1) = 0 - d
    OBVIOUS
  <2> QED BY <1>1, <1>2, <2>1, <2>2
<1> QED BY <1>1, <1>3, <1>4 DEF q

LEMMA ScoreBounds ==
    ASSUME NEW reviews, ReviewSeq(reviews), NEW i \in Told(reviews), NEW common \in Nat \ {0}
    PROVE  LET score == Score(reviews[i], common)
           IN  score \in Int /\ 0 - common <= score /\ score <= common
<1> DEFINE p == CountIn(reviews[i], PositiveWords)
           n == CountIn(reviews[i], NegativeWords \ PositiveWords)
           d == Scored(reviews[i])
           q == common \div d
<1>1. d \in Nat \ {0} /\ p \in 0..d /\ n \in 0..d
  BY ScoredType
<1>0. Score(reviews[i], common) = (p - n) * q
  BY DEF Score
<1> HIDE DEF p, n, d
<1>2. q \in Nat /\ d * q <= common
  BY <1>1, QuotientBounds
<1> HIDE DEF q
<1>3. p - n \in Int /\ p - n <= d /\ 0 - d <= p - n
  BY <1>1
<1>4. (p - n) * q <= d * q /\ (0 - d) * q <= (p - n) * q
  BY <1>1, <1>2, <1>3
<1>5. (0 - d) * q = 0 - d * q /\ (p - n) * q \in Int /\ d * q \in Int
  BY <1>1, <1>2, <1>3
<1>6. (p - n) * q \in Int /\ 0 - common <= (p - n) * q /\ (p - n) * q <= common
  BY <1>2, <1>4, <1>5
<1> QED BY <1>0, <1>6

(* Each review adds at most one common denominator to the sum.                *)
LEMMA TotalBounds ==
    ASSUME NEW reviews, ReviewSeq(reviews), NEW common \in Nat \ {0}
    PROVE  LET total == Total(reviews, common)
               most == common * Cardinality(Told(reviews))
           IN  total \in Int /\ 0 - most <= total /\ total <= most
<1> DEFINE S == Told(reviews)
           F(i) == Score(reviews[i], common)
           pick(s) == CHOOSE x \in s : TRUE
           Body(it) == [s \in SUBSET S |-> IF s = {} THEN 0 ELSE it[s \ {pick(s)}] + F(pick(s))]
           iter == CHOOSE it : it = Body(it)
           Ch == [s \in SUBSET S |-> pick(s)]
           G == [x \in S |-> [v \in Int |-> v + F(x)]]
<1>1. Total(reviews, common) = iter[S]
  BY DEF Total, FoldSet, MapThenFoldSet
<1>2. /\ IsFiniteSet(S) /\ 0 \in Int
      /\ \A x \in S : F(x) \in Int /\ 0 - common <= F(x) /\ F(x) <= common
  BY ToldFinite, ScoreBounds
<1>p. \A s \in SUBSET S : s # {} => pick(s) \in s
  OBVIOUS
<1> HIDE DEF S, F, pick
<1>3. \A s \in SUBSET S : s # {} =>
          Ch[s] \in s /\ Ch[s] = pick(s) /\ Ch[s] \in S /\ s \ {Ch[s]} \in SUBSET S
  BY <1>p
<1>4. \A x \in S, v \in Int : G[x][v] = v + F(x) /\ G[x][v] \in Int
  <2> SUFFICES ASSUME NEW x \in S, NEW v \in Int PROVE v + F(x) \in Int
    OBVIOUS
  <2> QED BY <1>2
<1> HIDE DEF Ch, G
<1>5. PICK it \in [SUBSET S -> Int] : IsFold(it, S, 0, Ch, G)
  <2>1. Foldable(S, Int, 0, Ch, G)
    BY <1>2, <1>3, <1>4 DEF Foldable
  <2> QED BY <2>1, FoldDefined
<1>6. it = Body(it)
  <2>1. ASSUME NEW s \in SUBSET S
        PROVE  it[s] = IF s = {} THEN 0 ELSE it[s \ {pick(s)}] + F(pick(s))
    <3>1. CASE s = {}
      BY <1>5, <3>1 DEF IsFold
    <3>2. CASE s # {}
      <4>1. it[s \ {Ch[s]}] \in Int
        BY <1>3, <3>2
      <4>2. it[s] = G[Ch[s]][it[s \ {Ch[s]}]]
        BY <1>5, <3>2 DEF IsFold
      <4> QED BY <1>3, <1>4, <3>2, <4>1, <4>2
    <3> QED BY <3>1, <3>2
  <2> QED BY <2>1
<1>7. iter = Body(iter)
  <2> HIDE DEF Body
  <2> QED BY <1>6
<1> DEFINE Within1(s) == /\ iter[s] \in Int
                         /\ 0 - common * Cardinality(s) <= iter[s]
                         /\ iter[s] <= common * Cardinality(s)
           Good == {s \in SUBSET S : Within1(s)}
<1>8. S \in Good
  <2> HIDE DEF iter
  <2>1. {} \in Good
    <3>1. iter[{}] = 0 /\ Cardinality({}) = 0
      BY <1>7, FS_EmptySet
    <3> QED BY <3>1
  <2>2. ASSUME NEW s \in SUBSET S, s # {} PROVE \E x \in s : s \ {x} \in Good => s \in Good
    <3> DEFINE x == pick(s)
               t == s \ {x}
    <3>1. x \in s /\ x \in S /\ t \in SUBSET S
      BY <1>p, <2>2
    <3>2. iter[s] = iter[t] + F(x)
      BY <1>7, <2>2
    <3>3. IsFiniteSet(s) /\ Cardinality(t) = Cardinality(s) - 1 /\ Cardinality(s) \in Nat
      BY <1>2, <3>1, FS_Subset, FS_CardinalityType, FS_RemoveElement
    <3> HIDE DEF t, x
    <3>4. common * Cardinality(s) = common * Cardinality(t) + common /\ common * Cardinality(t) \in Int
      BY <3>3
    <3>5. Within1(t) => Within1(s)
      BY <1>2, <3>1, <3>2, <3>4
    <3>6. t \in Good => s \in Good
      BY <3>1, <3>5
    <3> HIDE DEF Good
    <3> QED BY <3>1, <3>6 DEF t
  <2>3. Good \in SUBSET (SUBSET S)
    OBVIOUS
  <2> HIDE DEF Good
  <2> QED BY <1>2, <2>1, <2>2, <2>3, AllSubsets
<1> QED
  BY <1>1, <1>8 DEF S

LEMMA SentimentBounds ==
    ASSUME NEW reviews, ReviewSeq(reviews)
    PROVE  /\ SentimentScore(reviews) \in Int
           /\ -1000 <= SentimentScore(reviews) /\ SentimentScore(reviews) <= 1000
<1> DEFINE c == Common(reviews)
           total == Total(reviews, c)
           k == Cardinality(Told(reviews))
<1>1. SentimentScore(reviews) = IF Told(reviews) = {} THEN 0 ELSE Rounded(1000 * total, c * k)
  BY DEF SentimentScore, Common, Total, Score, Told
<1>2. c \in Nat \ {0}
  BY CommonType
<1>3. total \in Int /\ 0 - c * k <= total /\ total <= c * k
  BY <1>2, TotalBounds
<1>4. CASE Told(reviews) # {}
  <2>1. k \in Nat \ {0}
    BY <1>4, ToldFinite, FS_CardinalityType, FS_EmptySet
  <2> HIDE DEF total, c, k
  <2> DEFINE d == c * k
  <2>2. d \in Nat \ {0}
    BY <1>2, <2>1
  <2>3. 1000 * total \in Int /\ 0 - 1000 * d <= 1000 * total /\ 1000 * total <= 1000 * d
    BY <1>3, <2>2
  <2> HIDE DEF d
  <2>4. /\ Rounded(1000 * total, d) \in Int
        /\ 0 - 1000 <= Rounded(1000 * total, d) /\ Rounded(1000 * total, d) <= 1000
    BY <2>2, <2>3, RoundedBounds
  <2> QED BY <1>1, <1>4, <2>4 DEF d
<1> QED BY <1>1, <1>4
=============================================================================
