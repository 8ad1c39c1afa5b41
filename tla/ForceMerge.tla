------------------------------- MODULE ForceMerge -------------------------------
(***************************************************************************)
(* force_merge (src/scripts/create_and_test_large_index.py, lines 127-169) *)
(* and get_knn_stat_value (lines 499-506).                                 *)
(*                                                                         *)
(* The engine keeps a cumulative counter, knn_graph_merge_time (the        *)
(* quantization counter is handled by the same lines and behaves alike).   *)
(* Every HTTP call may fail: get_knn_stats then returns None, and          *)
(* get_knn_stat_value(None, ...) returns 0.  Merges the engine runs in the *)
(* background (the index is still being written) also raise the counter.  *)
(***************************************************************************)
EXTENDS Naturals, Integers

CONSTANTS
  StartCounters, \* the values the counter may have when force_merge starts
  MergeCosts,    \* the time a forced merge may add to the counter
  MaxCounter     \* bound on the counter, for TLC

ASSUME MergeAssumption ==
  /\ StartCounters \subseteq Nat
  /\ MergeCosts \subseteq Nat \ {0}
  /\ MaxCounter \in Nat

VARIABLES
  fmpc,       \* "initial", "refresh", "merge", "final" or "done"
  counter,    \* the engine's cumulative knn_graph_merge_time
  initial,    \* initial_graph_merge_time
  returned,   \* what force_merge returned: "none" yet, "False" or "dict"
  graphMergeDiff, \* graph_merge_diff, the dict's graph_merge_time
  atInitial,  \* history: the counter when the initial stats were read
  atFinal,    \* history: the counter when the final stats were read
  cost,       \* history: what the forced merge itself added
  readsOk     \* history: both stats calls succeeded

fmvars == <<fmpc, counter, initial, returned, graphMergeDiff, atInitial, atFinal,
           cost, readsOk>>

\* get_knn_stat_value(stats, "knn_graph_merge_time") of a call that
\* succeeded (ok) or returned None.
StatValue(ok) == IF ok THEN counter ELSE 0

FMInit ==
  /\ fmpc = "initial"
  /\ counter \in StartCounters
  /\ initial = 0
  /\ returned = "none"
  /\ graphMergeDiff = 0
  /\ atInitial = 0
  /\ atFinal = 0
  /\ cost = 0
  /\ readsOk = TRUE

\* Lines 130-132.
InitialStats ==
  /\ fmpc = "initial"
  /\ \E ok \in BOOLEAN :
       /\ initial' = StatValue(ok)
       /\ readsOk' = ok
  /\ atInitial' = counter
  /\ fmpc' = "refresh"
  /\ UNCHANGED <<counter, returned, graphMergeDiff, atFinal, cost>>

\* Lines 134-138: a failed refresh is only printed.
Refresh ==
  /\ fmpc = "refresh"
  /\ fmpc' = "merge"
  /\ UNCHANGED <<counter, initial, returned, graphMergeDiff, atInitial, atFinal,
                 cost, readsOk>>

\* Lines 140-148: the _forcemerge request fails and force_merge returns
\* False, or the merge runs and adds its cost to the counter.
MergeFailed ==
  /\ fmpc = "merge"
  /\ returned' = "False"
  /\ fmpc' = "done"
  /\ UNCHANGED <<counter, initial, graphMergeDiff, atInitial, atFinal, cost,
                 readsOk>>

MergeOk ==
  /\ fmpc = "merge"
  /\ \E c \in MergeCosts :
       /\ counter + c <= MaxCounter
       /\ counter' = counter + c
       /\ cost' = c
  /\ fmpc' = "final"
  /\ UNCHANGED <<initial, returned, graphMergeDiff, atInitial, atFinal, readsOk>>

\* Fault: the final stats read with the initial ones, before the merge.
FinalStatsEarly ==
  /\ fmpc = "final"
  /\ \E ok \in BOOLEAN :
       /\ graphMergeDiff' = (IF ok THEN atInitial ELSE 0) - initial
       /\ readsOk' = (readsOk /\ ok)
  /\ atFinal' = atInitial
  /\ returned' = "dict"
  /\ fmpc' = "done"
  /\ UNCHANGED <<counter, initial, atInitial, cost>>

\* Lines 153-169: the final stats and the differences returned.
FinalStats ==
  /\ fmpc = "final"
  /\ \E ok \in BOOLEAN :
       /\ graphMergeDiff' = StatValue(ok) - initial
       /\ readsOk' = (readsOk /\ ok)
  /\ atFinal' = counter
  /\ returned' = "dict"
  /\ fmpc' = "done"
  /\ UNCHANGED <<counter, initial, atInitial, cost>>

\* A merge the engine starts on its own, at any time before force_merge returns.
BackgroundMerge ==
  /\ fmpc # "done"
  /\ counter < MaxCounter
  /\ counter' = counter + 1
  /\ UNCHANGED <<fmpc, initial, returned, graphMergeDiff, atInitial, atFinal,
                 cost, readsOk>>

FMNext ==
  \/ InitialStats \/ Refresh \/ MergeFailed \/ MergeOk \/ FinalStats
  \/ BackgroundMerge

FMSpec == FMInit /\ [][FMNext]_fmvars

-----------------------------------------------------------------------------
(* Properties *)

(***************************************************************************)
(* When both stats calls succeed, the merge time force_merge reports (and  *)
(* index_vectors writes to the CSV) covers the merge it forced: it is at   *)
(* least that merge's cost, and no more than the counter rose between the  *)
(* two reads.  Reading the stats in the wrong order breaks it.             *)
(***************************************************************************)
ReportCoversMerge ==
  returned = "dict" /\ readsOk =>
    /\ cost <= graphMergeDiff
    /\ graphMergeDiff = atFinal - atInitial

(***************************************************************************)
(* The merge time reported is what the counter rose between the two reads, *)
(* whatever the stats calls returned: the line 162 output "+{diff} ms" and *)
(* the CSV column graph_merge_time_ms are read as that increase.           *)
(***************************************************************************)
MergeTimeReported ==
  returned = "dict" => graphMergeDiff = atFinal - atInitial
=============================================================================
