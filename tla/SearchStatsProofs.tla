---------------------------- MODULE SearchStatsProofs ----------------------------
(***************************************************************************)
(* Proofs about test_search_with_stats for every number of searches and   *)
(* queries, every k, index size and search cost (SearchAssumption).        *)
(***************************************************************************)
EXTENDS SearchStats, FiniteSetTheorems, TLAPS

USE SearchAssumption

(***************************************************************************)
(* The inductive invariant.  The loop variable stays below the capped      *)
(* number of searches while the loop runs; prev_totals, when its stats     *)
(* call succeeded, is the counter at that call (atPrev); the three         *)
(* per-iteration histories grow together.                                  *)
(***************************************************************************)
SInv ==
  /\ ndocs \in Nat
  /\ gt \in GroundTruths(ndocs)
  /\ it \in Nat /\ counter \in Nat /\ atPrev \in Nat /\ prevTotal \in Nat
  /\ prevOk \in BOOLEAN
  /\ spc \in {"search", "stats", "final", "done"}
  /\ spc \in {"search", "stats"} => it < ActualNumSearches
  /\ recalls \in Seq([num : Nat, den : Nat])
  /\ diffs \in Seq(Int) /\ trueDiffs \in Seq(Int) /\ readsOk \in Seq(BOOLEAN)
  /\ Len(trueDiffs) = Len(diffs) /\ Len(readsOk) = Len(diffs)
  /\ prevOk => prevTotal = atPrev
  /\ IterationDiffExactWhenRead
  /\ RecallInRange

\* With a tracker, the capped number of searches is at most its queries.
LEMMA CapBelowQueries ==
  /\ ActualNumSearches \in Nat
  /\ Measure => ActualNumSearches <= NumQueries
  BY DEF ActualNumSearches

(***************************************************************************)
(* calculate_recall of two sets of ids of the index is a fraction in       *)
(* [0, 1] with a positive denominator.                                     *)
(***************************************************************************)
LEMMA RecallFraction ==
  ASSUME NEW n \in Nat, NEW approx \in SUBSET Nat,
         NEW truth \in SUBSET (0..(n - 1))
  PROVE  LET r == CalculateRecall(approx, truth)
         IN  /\ r \in [num : Nat, den : Nat]
             /\ r.den > 0 /\ 0 <= r.num /\ r.num <= r.den
<1>1. IsFiniteSet(truth)
  <2>1. IsFiniteSet(0..(n - 1))
    BY n - 1 \in Int, FS_Interval
  <2> QED
    BY <2>1, FS_Subset
<1>2. /\ IsFiniteSet(approx \cap truth)
      /\ Cardinality(approx \cap truth) <= Cardinality(truth)
  BY <1>1, FS_Subset
<1>3. Cardinality(truth) \in Nat /\ Cardinality(approx \cap truth) \in Nat
  BY <1>1, <1>2, FS_CardinalityType
<1>4. truth # {} => Cardinality(truth) # 0
  BY <1>1, FS_EmptySet
<1> QED
  BY <1>2, <1>3, <1>4 DEF CalculateRecall

LEMMA InitSInv == SInit => SInv
<1> SUFFICES ASSUME SInit PROVE SInv
  OBVIOUS
<1>1. PICK ok \in BOOLEAN : prevTotal = StatTotal(ok) /\ prevOk = ok
  BY DEF SInit
<1>2. ActualNumSearches \in Nat
  BY DEF ActualNumSearches
<1> QED
  BY <1>1, <1>2 DEF SInit, SInv, StatTotal, IterationDiffExactWhenRead, RecallInRange

LEMMA NextSInv == SInv /\ [SNext]_svars => SInv'
<1> SUFFICES ASSUME SInv, [SNext]_svars PROVE SInv'
  OBVIOUS
<1>1. CASE SearchFailed
  BY <1>1 DEF SearchFailed, SInv, IterationDiffExactWhenRead, RecallInRange
<1>2. CASE SearchOk
  <2>1. PICK hits \in SUBSET Docs, c \in SearchCosts :
          /\ counter' = counter + c
          /\ recalls' = IF Measure
                        THEN Append(recalls, CalculateRecall(hits, gt[it]))
                        ELSE recalls
    BY <1>2 DEF SearchOk
  <2>2. Measure => it < NumQueries
    <3>1. it < ActualNumSearches
      BY <1>2, Zenon DEF SInv, SearchOk
    <3> QED
      BY <3>1, CapBelowQueries DEF SInv
  <2>3. Measure => gt[it] \in SUBSET (0..(ndocs - 1))
    BY <2>2 DEF SInv, GroundTruths
  <2>4. hits \in SUBSET Nat
    BY DEF Docs, SInv
  <2>5. Measure => /\ CalculateRecall(hits, gt[it]) \in [num : Nat, den : Nat]
                   /\ CalculateRecall(hits, gt[it]).den > 0
                   /\ 0 <= CalculateRecall(hits, gt[it]).num
                   /\ CalculateRecall(hits, gt[it]).num <= CalculateRecall(hits, gt[it]).den
    BY <2>3, <2>4, RecallFraction DEF SInv
  <2>6. RecallInRange' /\ recalls' \in Seq([num : Nat, den : Nat])
    <3>1. CASE Measure
      <4> DEFINE r == CalculateRecall(hits, gt[it])
      <4>1. recalls' = Append(recalls, r)
        BY <2>1, <3>1
      <4>2. r \in [num : Nat, den : Nat] /\ r.den > 0 /\ 0 <= r.num /\ r.num <= r.den
        BY <2>5, <3>1
      <4>3. recalls' \in Seq([num : Nat, den : Nat])
        BY <4>1, <4>2 DEF SInv
      <4>4. \A j \in 1..Len(recalls') :
              recalls'[j] = IF j = Len(recalls) + 1 THEN r ELSE recalls[j]
        BY <4>1, <4>2 DEF SInv
      <4>5. Len(recalls') = Len(recalls) + 1
        BY <4>1 DEF SInv
      <4>6. ASSUME NEW j \in 1..Len(recalls')
            PROVE  /\ recalls'[j].den > 0
                   /\ 0 <= recalls'[j].num
                   /\ recalls'[j].num <= recalls'[j].den
        <5>1. CASE j = Len(recalls) + 1
          BY <4>2, <4>4, <5>1
        <5>2. CASE j # Len(recalls) + 1
          <6>1. Len(recalls) \in Nat
            BY DEF SInv
          <6>2. j \in 1..Len(recalls)
            BY <4>5, <5>2, <6>1
          <6>3. recalls'[j] = recalls[j]
            BY <4>4, <5>2
          <6> QED
            BY <6>2, <6>3 DEF SInv, RecallInRange
        <5> QED
          BY <5>1, <5>2
      <4> QED
        BY <4>3, <4>6 DEF RecallInRange
    <3>2. CASE ~Measure
      BY <2>1, <3>2 DEF SInv, RecallInRange
    <3> QED
      BY <3>1, <3>2
  <2> QED
    BY <1>2, <2>1, <2>6 DEF SearchOk, SInv, IterationDiffExactWhenRead
<1>3. CASE IterationStats
  <2>1. PICK ok \in BOOLEAN :
          /\ diffs' = Append(diffs, StatTotal(ok) - prevTotal)
          /\ readsOk' = Append(readsOk, prevOk /\ ok)
          /\ prevTotal' = StatTotal(ok)
          /\ prevOk' = ok
    BY <1>3 DEF IterationStats
  <2>2. (prevOk /\ ok) => StatTotal(ok) - prevTotal = counter - atPrev
    BY DEF SInv, StatTotal
  <2>3. IterationDiffExactWhenRead'
    BY <1>3, <2>1, <2>2 DEF IterationStats, SInv, IterationDiffExactWhenRead
  <2>4. prevOk' => prevTotal' = atPrev'
    BY <1>3, <2>1 DEF IterationStats, SInv, StatTotal
  <2>5. /\ diffs' \in Seq(Int) /\ trueDiffs' \in Seq(Int) /\ readsOk' \in Seq(BOOLEAN)
        /\ Len(trueDiffs') = Len(diffs') /\ Len(readsOk') = Len(diffs')
        /\ prevTotal' \in Nat /\ atPrev' \in Nat /\ it' \in Nat
    BY <1>3, <2>1 DEF IterationStats, SInv, StatTotal
  <2>6. spc' \in {"search", "stats", "final", "done"}
        /\ (spc' \in {"search", "stats"} => it' < ActualNumSearches)
    BY <1>3, CapBelowQueries DEF IterationStats, SInv
  <2>7. UNCHANGED <<ndocs, gt, counter, recalls>> /\ prevOk' \in BOOLEAN
    BY <1>3, <2>1 DEF IterationStats
  <2> QED
    BY <2>3, <2>4, <2>5, <2>6, <2>7, Zenon DEF SInv, RecallInRange
<1>4. CASE FinalSummary
  BY <1>4 DEF FinalSummary, SInv, IterationDiffExactWhenRead, RecallInRange
<1>5. CASE UNCHANGED svars
  BY <1>5 DEF svars, SInv, IterationDiffExactWhenRead, RecallInRange
<1> QED
  BY <1>1, <1>2, <1>3, <1>4, <1>5 DEF SNext

(***************************************************************************)
(* For every num_searches and num_recall_queries: with a tracker, the      *)
(* search loop never calls get_query_vector(i) for a query the tracker     *)
(* does not hold, because main caps the searches (lines 651-653).          *)
(***************************************************************************)
THEOREM QueryIndexInRangeHolds == SSpec => []QueryIndexInRange
<1>1. SInv => QueryIndexInRange
  <2> SUFFICES ASSUME SInv, Measure, spc = "search" PROVE it < NumQueries
    BY DEF QueryIndexInRange
  <2>1. it < ActualNumSearches
    BY DEF SInv
  <2> QED
    BY <2>1, CapBelowQueries DEF SInv
<1> QED
  BY <1>1, InitSInv, NextSInv, PTL DEF SSpec

(***************************************************************************)
(* For every index size and k: every recall calculate_recall records is a  *)
(* fraction in [0, 1] with a positive denominator, the empty ground truth  *)
(* of an empty index included (lines 312-313).                             *)
(***************************************************************************)
THEOREM RecallInRangeHolds == SSpec => []RecallInRange
<1>1. SInv => RecallInRange
  BY DEF SInv
<1> QED
  BY <1>1, InitSInv, NextSInv, PTL DEF SSpec

(***************************************************************************)
(* For every search cost and every pattern of failed calls: the difference *)
(* printed for an iteration whose two stats calls succeeded is exactly the *)
(* work of that iteration, because line 439 carries prev_totals forward.   *)
(***************************************************************************)
THEOREM IterationDiffExactWhenReadHolds == SSpec => []IterationDiffExactWhenRead
<1>1. SInv => IterationDiffExactWhenRead
  BY DEF SInv
<1> QED
  BY <1>1, InitSInv, NextSInv, PTL DEF SSpec
====
