------------------------------ MODULE SearchStats ------------------------------
(***************************************************************************)
(* test_search_with_stats (src/scripts/create_and_test_large_index.py,     *)
(* lines 365-497) with test_search (323-363), calculate_recall (302-321),  *)
(* the tracker's get_ground_truth and get_query_vector (284-300), and the  *)
(* cap main puts on the number of searches (lines 649-656).                *)
(*                                                                         *)
(* The engine keeps a cumulative counter, knn_query_visited_nodes (the two *)
(* other metrics of jvector_metrics are handled by the same lines).  Every *)
(* HTTP call may fail: a failed stats call leaves the totals dict empty,   *)
(* and .get(metric, 0) then reads 0.  The ground truth of query q is the   *)
(* set of min(n, k) ids the tracker holds after n documents (TopKExact).   *)
(***************************************************************************)
EXTENDS Naturals, Integers, Sequences, FiniteSets

CONSTANTS
  NumSearches, \* args.num_searches
  NumQueries,  \* args.num_recall_queries, the tracker's number of queries
  Measure,     \* a tracker was built (--measure-recall without --skip-indexing)
  DocCounts,   \* the numbers of documents the index may hold
  KS,          \* k of the searches and of the tracker
  SearchCosts, \* the nodes a search may visit
  MaxCounter   \* bound on the counter, for TLC

ASSUME SearchAssumption ==
  /\ NumSearches \in Nat
  /\ NumQueries \in Nat
  /\ Measure \in BOOLEAN
  /\ DocCounts \subseteq Nat
  /\ KS \in Nat \ {0}
  /\ SearchCosts \subseteq Nat
  /\ MaxCounter \in Nat

VARIABLES
  ndocs,      \* the documents in the index: ids 0 .. ndocs - 1
  gt,         \* per query, the doc ids get_ground_truth returns
  it,         \* the loop variable i of line 398
  spc,        \* "search", "stats", "final" or "done"
  counter,    \* the engine's cumulative knn_query_visited_nodes
  prevTotal,  \* prev_totals.get(metric, 0)
  initTotal,  \* initial_totals.get(metric, 0)
  recalls,    \* recall_values
  diffs,      \* the per-iteration differences printed at line 436
  atPrev,     \* history: the counter when prev_totals was read
  prevOk,     \* history: the stats call prev_totals came from succeeded
  trueDiffs,  \* history: per iteration, how much the counter really rose
  readsOk     \* history: per iteration, both of its stats calls succeeded

svars == <<ndocs, gt, it, spc, counter, prevTotal, initTotal, recalls, diffs,
           atPrev, prevOk, trueDiffs, readsOk>>

Docs == 0..(ndocs - 1)
MinOf(a, b) == IF a < b THEN a ELSE b

\* Fault: main without the cap of lines 651-653.
ActualNumSearchesUncapped == NumSearches

\* actual_num_searches (lines 650-653); a tracker object is always truthy.
ActualNumSearches ==
  IF Measure /\ NumSearches > NumQueries THEN NumQueries ELSE NumSearches

\* Fault: calculate_recall without the guard of lines 312-313.
CalculateRecallUnguarded(approx, truth) ==
  [num |-> Cardinality(approx \cap truth), den |-> Cardinality(truth)]

\* calculate_recall (lines 302-321) as the fraction [num, den]; the ids in
\* a ground-truth list are distinct, so its len is the size of its set.
CalculateRecall(approx, truth) ==
  IF truth = {} THEN [num |-> 0, den |-> 1]
  ELSE [num |-> Cardinality(approx \cap truth), den |-> Cardinality(truth)]

\* get_knn_stats followed by the totals loop (lines 418-428): the counter,
\* or 0 when the call failed.
StatTotal(ok) == IF ok THEN counter ELSE 0

\* Ground truth the tracker can hold: min(n, k) of the n ids.
GroundTruths(n) ==
  [0..(NumQueries - 1) ->
     {S \in SUBSET (0..(n - 1)) : Cardinality(S) = MinOf(n, KS)}]

\* Lines 371-395: the initial stats, read into prev_totals and, from the
\* same response, initial_totals (lines 445-452).
SInit ==
  /\ ndocs \in DocCounts
  /\ gt \in GroundTruths(ndocs)
  /\ it = 0
  /\ counter = 0
  /\ \E ok \in BOOLEAN :
       /\ prevTotal = StatTotal(ok)
       /\ initTotal = StatTotal(ok)
       /\ prevOk = ok
  /\ atPrev = 0
  /\ spc = IF 0 < ActualNumSearches THEN "search" ELSE "final"
  /\ recalls = << >>
  /\ diffs = << >>
  /\ trueDiffs = << >>
  /\ readsOk = << >>

(***************************************************************************)
(* Lines 401-415 and test_search: get_query_vector(i), the search, and    *)
(* with a tracker the recall of its hits against get_ground_truth(i).  A   *)
(* failed search is skipped.                                               *)
(***************************************************************************)
SearchFailed ==
  /\ spc = "search"
  /\ spc' = "stats"
  /\ UNCHANGED <<ndocs, gt, it, counter, prevTotal, initTotal, recalls, diffs,
                 atPrev, prevOk, trueDiffs, readsOk>>

SearchOk ==
  /\ spc = "search"
  /\ \E hits \in SUBSET Docs, c \in SearchCosts :
       /\ Cardinality(hits) <= KS
       /\ counter + c <= MaxCounter
       /\ counter' = counter + c
       /\ recalls' = IF Measure
                     THEN Append(recalls, CalculateRecall(hits, gt[it]))
                     ELSE recalls
  /\ spc' = "stats"
  /\ UNCHANGED <<ndocs, gt, it, prevTotal, initTotal, diffs, atPrev, prevOk,
                 trueDiffs, readsOk>>

\* Fault: prev_totals never replaced (line 439 missing).
IterationStatsNoCarry ==
  /\ spc = "stats"
  /\ \E ok \in BOOLEAN :
       /\ diffs' = Append(diffs, StatTotal(ok) - prevTotal)
       /\ readsOk' = Append(readsOk, prevOk /\ ok)
  /\ trueDiffs' = Append(trueDiffs, counter - atPrev)
  /\ atPrev' = counter
  /\ it' = it + 1
  /\ spc' = IF it + 1 < ActualNumSearches THEN "search" ELSE "final"
  /\ UNCHANGED <<ndocs, gt, counter, prevTotal, initTotal, recalls, prevOk>>

\* Lines 417-439: the stats after the search and the printed difference.
IterationStats ==
  /\ spc = "stats"
  /\ \E ok \in BOOLEAN :
       /\ diffs' = Append(diffs, StatTotal(ok) - prevTotal)
       /\ readsOk' = Append(readsOk, prevOk /\ ok)
       /\ prevTotal' = StatTotal(ok)
       /\ prevOk' = ok
  /\ trueDiffs' = Append(trueDiffs, counter - atPrev)
  /\ atPrev' = counter
  /\ it' = it + 1
  /\ spc' = IF it + 1 < ActualNumSearches THEN "search" ELSE "final"
  /\ UNCHANGED <<ndocs, gt, counter, initTotal, recalls>>

\* Lines 441-497: the final stats and the summary, printed only.
FinalSummary ==
  /\ spc = "final"
  /\ spc' = "done"
  /\ UNCHANGED <<ndocs, gt, it, counter, prevTotal, initTotal, recalls, diffs,
                 atPrev, prevOk, trueDiffs, readsOk>>

SNext ==
  \/ SearchFailed \/ SearchOk \/ IterationStats
  \/ FinalSummary

SSpec == SInit /\ [][SNext]_svars

-----------------------------------------------------------------------------
(* Properties *)

(***************************************************************************)
(* The loop never asks the tracker for a query it does not have: main caps *)
(* num_searches at num_recall_queries (lines 651-653) whenever a tracker   *)
(* exists; get_query_vector(i) would otherwise raise IndexError.           *)
(***************************************************************************)
QueryIndexInRange == Measure /\ spc = "search" => it < NumQueries

(***************************************************************************)
(* Spec 4.2 and 8: every recall sample is a fraction in [0, 1], including *)
(* a search against an empty index, where the ground truth is empty.       *)
(***************************************************************************)
RecallInRange ==
  \A j \in 1..Len(recalls) :
    /\ recalls[j].den > 0
    /\ 0 <= recalls[j].num
    /\ recalls[j].num <= recalls[j].den

(***************************************************************************)
(* When both stats calls around a search succeed, the printed difference   *)
(* is exactly the work of that iteration: prev_totals must be the totals   *)
(* of the previous iteration (line 439).                                   *)
(***************************************************************************)
IterationDiffExactWhenRead ==
  \A j \in 1..Len(diffs) : readsOk[j] => diffs[j] = trueDiffs[j]

(***************************************************************************)
(* The printed difference of every iteration ("+{diff}", line 436) is the  *)
(* work of that iteration, whatever the stats calls returned.              *)
(***************************************************************************)
IterationDiffExact ==
  \A j \in 1..Len(diffs) : diffs[j] = trueDiffs[j]
=============================================================================
