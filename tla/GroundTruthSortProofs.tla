------------------------- MODULE GroundTruthSortProofs -------------------------
(***************************************************************************)
(* get_ground_truth (lines 284-296) is a stable sort: for every heap list  *)
(* h of any length, the result lists the ids of h in the order of a        *)
(* permutation of its positions that is sorted by distance and keeps equal *)
(* distances in list order.  The proof counts: the rank of a position is   *)
(* the number of positions sorted before it, ranks are distinct, and a     *)
(* one-to-one map from 1..n into 0..n-1 is onto (FS_Injection).            *)
(***************************************************************************)
EXTENDS GroundTruthTrackerProofs

\* The positions of h in the order get_ground_truth lists them.
SortPerm(h) == [r \in 1..Len(h) |-> SortedPos(h, r)]

\* The positions sorted before position q.
Preceding(h, q) == {p \in 1..Len(h) : SortBefore(h, p, q)}

-----------------------------------------------------------------------------
(* SortBefore is a strict total order on the positions of a list.          *)

\* The keys are totally ordered by DistLess up to DistEq.
LEMMA DistTotal ==
  ASSUME NEW a \in Key, NEW b \in Key
  PROVE  DistLess(a, b) \/ DistLess(b, a) \/ DistEq(a, b)
  BY DEF DistLess, DistEq, Key

\* A position of a heap list holds a tuple with a distance key.
LEMMA ElemKey ==
  ASSUME NEW h \in Seq(Entry), NEW p \in 1..Len(h)
  PROVE  h[p].dist \in Key
<1>1. h[p] \in Entry
  OBVIOUS
<1> QED
  BY <1>1 DEF Entry

LEMMA SortBeforeIrrefl ==
  ASSUME NEW h \in Seq(Entry), NEW p \in 1..Len(h)
  PROVE  ~SortBefore(h, p, p)
<1>1. ~DistLess(h[p].dist, h[p].dist)
  BY ElemKey, DistLessIrrefl
<1> QED
  BY <1>1 DEF SortBefore

LEMMA SortBeforeTrans ==
  ASSUME NEW h \in Seq(Entry), NEW p \in 1..Len(h), NEW q \in 1..Len(h),
         NEW x \in 1..Len(h), SortBefore(h, p, q), SortBefore(h, q, x)
  PROVE  SortBefore(h, p, x)
<1> DEFINE a == h[p].dist  b == h[q].dist  c == h[x].dist
<1>1. a \in Key /\ b \in Key /\ c \in Key
  BY ElemKey
<1>2. CASE DistLess(a, b) /\ DistLess(b, c)
  <2>1. DistLess(a, c)
    BY <1>1, <1>2, DistLessTrans
  <2> QED
    BY <2>1 DEF SortBefore
<1>3. CASE DistLess(a, b) /\ DistEq(b, c)
  <2>1. DistLess(a, c)
    BY <1>1, <1>3, DistEqLess
  <2> QED
    BY <2>1 DEF SortBefore
<1>4. CASE DistEq(a, b) /\ DistLess(b, c)
  <2>1. DistLess(a, c)
    BY <1>1, <1>4, DistEqLess
  <2> QED
    BY <2>1 DEF SortBefore
<1>5. CASE DistEq(a, b) /\ p < q /\ DistEq(b, c) /\ q < x
  <2>1. DistEq(a, c) /\ p < x
    BY <1>1, <1>5, DistEqTrans
  <2> QED
    BY <2>1 DEF SortBefore
<1> QED
  BY <1>2, <1>3, <1>4, <1>5 DEF SortBefore

LEMMA SortBeforeTotal ==
  ASSUME NEW h \in Seq(Entry), NEW p \in 1..Len(h), NEW q \in 1..Len(h), p # q
  PROVE  SortBefore(h, p, q) \/ SortBefore(h, q, p)
<1>1. h[p].dist \in Key /\ h[q].dist \in Key
  BY ElemKey
<1>2. DistEq(h[p].dist, h[q].dist) => DistEq(h[q].dist, h[p].dist)
  BY <1>1, DistEqSym
<1>3. DistLess(h[p].dist, h[q].dist) \/ DistLess(h[q].dist, h[p].dist)
      \/ DistEq(h[p].dist, h[q].dist)
  BY <1>1, DistTotal
<1>4. p < q \/ q < p
  OBVIOUS
<1> QED
  BY <1>2, <1>3, <1>4 DEF SortBefore

-----------------------------------------------------------------------------
(* Ranks.                                                                  *)

LEMMA RankRange ==
  ASSUME NEW h \in Seq(Entry), NEW q \in 1..Len(h)
  PROVE  /\ IsFiniteSet(Preceding(h, q))
         /\ SortRank(h, q) = Cardinality(Preceding(h, q))
         /\ SortRank(h, q) \in 0..(Len(h) - 1)
<1>1. Preceding(h, q) \subseteq (1..Len(h)) \ {q}
  BY SortBeforeIrrefl DEF Preceding
<1>2. IsFiniteSet(1..Len(h)) /\ Cardinality(1..Len(h)) = Len(h)
  <2>1. Len(h) \in Nat
    OBVIOUS
  <2>2. IsFiniteSet(1..Len(h))
        /\ Cardinality(1..Len(h)) = IF 1 > Len(h) THEN 0 ELSE Len(h) - 1 + 1
    BY <2>1, FS_Interval
  <2> QED
    BY <2>1, <2>2
<1>3. IsFiniteSet((1..Len(h)) \ {q}) /\ Cardinality((1..Len(h)) \ {q}) = Len(h) - 1
  BY <1>2, FS_RemoveElement
<1>4. IsFiniteSet(Preceding(h, q))
      /\ Cardinality(Preceding(h, q)) <= Len(h) - 1
  BY <1>1, <1>3, FS_Subset
<1>5. Cardinality(Preceding(h, q)) \in Nat
  BY <1>4, FS_CardinalityType
<1> QED
  BY <1>4, <1>5 DEF SortRank, Preceding

\* A position sorted before another has a smaller rank.
LEMMA RankMonotone ==
  ASSUME NEW h \in Seq(Entry), NEW p \in 1..Len(h), NEW q \in 1..Len(h),
         SortBefore(h, p, q)
  PROVE  SortRank(h, p) < SortRank(h, q)
<1>1. Preceding(h, p) \cup {p} \subseteq Preceding(h, q)
  BY SortBeforeTrans DEF Preceding
<1>2. p \notin Preceding(h, p)
  BY SortBeforeIrrefl DEF Preceding
<1>3. /\ IsFiniteSet(Preceding(h, p)) /\ IsFiniteSet(Preceding(h, q))
      /\ SortRank(h, p) = Cardinality(Preceding(h, p))
      /\ SortRank(h, q) = Cardinality(Preceding(h, q))
      /\ SortRank(h, p) \in Nat /\ SortRank(h, q) \in Nat
  BY RankRange
<1>4. Cardinality(Preceding(h, p) \cup {p}) = SortRank(h, p) + 1
  BY <1>2, <1>3, FS_AddElement
<1>5. Cardinality(Preceding(h, p) \cup {p}) <= SortRank(h, q)
  BY <1>1, <1>3, FS_Subset
<1> QED
  BY <1>3, <1>4, <1>5

\* Distinct positions have distinct ranks.
LEMMA RankInjective ==
  ASSUME NEW h \in Seq(Entry), NEW p \in 1..Len(h), NEW q \in 1..Len(h),
         SortRank(h, p) = SortRank(h, q)
  PROVE  p = q
<1> SUFFICES ASSUME p # q PROVE FALSE
  OBVIOUS
<1>1. SortBefore(h, p, q) \/ SortBefore(h, q, p)
  BY SortBeforeTotal
<1>2. SortRank(h, p) \in Nat /\ SortRank(h, q) \in Nat
  BY RankRange
<1> QED
  BY <1>1, <1>2, RankMonotone

\* Every rank 0 .. n - 1 is taken, so SortedPos finds its position.
LEMMA SortedPosRank ==
  ASSUME NEW h \in Seq(Entry), NEW r \in 1..Len(h)
  PROVE  /\ SortedPos(h, r) \in 1..Len(h)
         /\ SortRank(h, SortedPos(h, r)) = r - 1
<1> DEFINE n == Len(h)
           f == [q \in 1..n |-> SortRank(h, q)]
<1>1. f \in Injection(1..n, 0..(n - 1))
  BY RankRange, RankInjective DEF Injection, IsInjective, f
<1>2. IsFiniteSet(0..(n - 1)) /\ Cardinality(0..(n - 1)) = n
      /\ Cardinality(1..n) = n
  <2>1. n \in Nat
    OBVIOUS
  <2>2. \A b \in Int : /\ IsFiniteSet(0..b)
                       /\ Cardinality(0..b) = IF 0 > b THEN 0 ELSE b - 0 + 1
    BY FS_Interval
  <2>3. Cardinality(1..n) = IF 1 > n THEN 0 ELSE n - 1 + 1
    BY <2>1, FS_Interval
  <2>4. n - 1 \in Int
    BY <2>1
  <2>5. /\ IsFiniteSet(0..(n - 1))
        /\ Cardinality(0..(n - 1)) = IF 0 > n - 1 THEN 0 ELSE n - 1 - 0 + 1
    BY <2>2, <2>4, Zenon
  <2> QED
    BY <2>1, <2>3, <2>5
<1>3. f \in Surjection(1..n, 0..(n - 1))
  BY <1>1, <1>2, FS_Injection
<1>4. \E q \in 1..n : SortRank(h, q) = r - 1
  <2>1. r - 1 \in 0..(n - 1)
    OBVIOUS
  <2>2. \E q \in 1..n : f[q] = r - 1
    BY <1>3, <2>1 DEF Surjection
  <2> QED
    BY <2>2 DEF f
<1> QED
  BY <1>4 DEF SortedPos

-----------------------------------------------------------------------------
(***************************************************************************)
(* For every heap list h, of any length and with any ties: get_ground_truth *)
(* (line 295) returns the ids of h in the order of a permutation of its    *)
(* positions under which distances never decrease and positions at equal   *)
(* distance keep their list order.  Which ids come first among ties thus   *)
(* depends on the heap array, which is what run heap_first_seen shows.     *)
(***************************************************************************)
THEOREM GetGroundTruthStableSort ==
  ASSUME NEW h \in Seq(Entry)
  PROVE  /\ SortPerm(h) \in Bijection(1..Len(h), 1..Len(h))
         /\ GetGroundTruth(h) = [r \in 1..Len(h) |-> h[SortPerm(h)[r]].id]
         /\ \A r, s \in 1..Len(h) :
              r < s => SortBefore(h, SortPerm(h)[r], SortPerm(h)[s])
<1> DEFINE n == Len(h)
<1>1. SortPerm(h) \in [1..n -> 1..n]
  BY SortedPosRank DEF SortPerm
<1>2. SortPerm(h) \in Injection(1..n, 1..n)
  <2> SUFFICES ASSUME NEW r \in 1..n, NEW s \in 1..n,
                      SortedPos(h, r) = SortedPos(h, s)
               PROVE  r = s
    BY <1>1 DEF Injection, IsInjective, SortPerm
  <2>1. SortRank(h, SortedPos(h, r)) = r - 1 /\ SortRank(h, SortedPos(h, s)) = s - 1
    BY SortedPosRank
  <2> QED
    BY <2>1
<1>3. SortPerm(h) \in Surjection(1..n, 1..n)
  <2> SUFFICES ASSUME NEW q \in 1..n PROVE \E r \in 1..n : SortedPos(h, r) = q
    BY <1>1 DEF Surjection, SortPerm
  <2>1. SortRank(h, q) + 1 \in 1..n /\ SortRank(h, q) \in Nat
    BY RankRange
  <2>2. /\ SortedPos(h, SortRank(h, q) + 1) \in 1..n
        /\ SortRank(h, SortedPos(h, SortRank(h, q) + 1)) = SortRank(h, q)
    BY <2>1, SortedPosRank
  <2> QED
    BY <2>1, <2>2, RankInjective
<1>4. ASSUME NEW r \in 1..n, NEW s \in 1..n, r < s
      PROVE  SortBefore(h, SortPerm(h)[r], SortPerm(h)[s])
  <2> DEFINE p == SortedPos(h, r)  q == SortedPos(h, s)
  <2>1. p \in 1..n /\ q \in 1..n /\ SortRank(h, p) = r - 1 /\ SortRank(h, q) = s - 1
    BY SortedPosRank
  <2>2. p # q
    BY <2>1, <1>4
  <2>3. ~SortBefore(h, q, p)
    BY <2>1, <1>4, RankMonotone
  <2> QED
    BY <2>1, <2>2, <2>3, SortBeforeTotal DEF SortPerm
<1> QED
  BY <1>2, <1>3, <1>4 DEF Bijection, GetGroundTruth, SortPerm
=============================================================================
