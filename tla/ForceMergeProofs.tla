---------------------------- MODULE ForceMergeProofs ----------------------------
(***************************************************************************)
(* Proofs about force_merge for every set of start values and merge costs  *)
(* that satisfies MergeAssumption.                                         *)
(***************************************************************************)
EXTENDS ForceMerge, TLAPS

USE MergeAssumption

(***************************************************************************)
(* The inductive invariant.  ReportCoversMerge speaks of the state after   *)
(* the final read; to carry it there the invariant records, for each point *)
(* of the function, what the reads so far say: a successful initial read   *)
(* saw the counter at atInitial, the counter never goes down, and after    *)
(* the merge it has risen by at least the merge's cost.                    *)
(***************************************************************************)
FInv ==
  /\ fmpc \in {"initial", "refresh", "merge", "final", "done"}
  /\ counter \in Nat /\ initial \in Nat /\ atInitial \in Nat
  /\ atFinal \in Nat /\ cost \in Nat /\ graphMergeDiff \in Int
  /\ readsOk \in BOOLEAN
  /\ readsOk => initial = atInitial
  /\ atInitial <= counter
  /\ fmpc \in {"initial", "refresh", "merge"} => cost = 0 /\ returned = "none"
  /\ fmpc = "final" => atInitial + cost <= counter /\ returned = "none"
  /\ returned = "dict" => /\ atInitial + cost <= atFinal
                          /\ readsOk => graphMergeDiff = atFinal - initial

LEMMA InitFInv == FMInit => FInv
  BY DEF FMInit, FInv

LEMMA NextFInv == FInv /\ [FMNext]_fmvars => FInv'
<1> SUFFICES ASSUME FInv, [FMNext]_fmvars PROVE FInv'
  OBVIOUS
<1>1. CASE InitialStats
  <2>1. PICK ok \in BOOLEAN : initial' = StatValue(ok) /\ readsOk' = ok
    BY <1>1 DEF InitialStats
  <2> QED
    BY <1>1, <2>1 DEF InitialStats, StatValue, FInv
<1>2. CASE Refresh
  BY <1>2 DEF Refresh, FInv
<1>3. CASE MergeFailed
  BY <1>3 DEF MergeFailed, FInv
<1>4. CASE MergeOk
  BY <1>4 DEF MergeOk, FInv
<1>5. CASE FinalStats
  <2>1. PICK ok \in BOOLEAN : /\ graphMergeDiff' = StatValue(ok) - initial
                              /\ readsOk' = (readsOk /\ ok)
    BY <1>5 DEF FinalStats
  <2> QED
    BY <1>5, <2>1 DEF FinalStats, StatValue, FInv
<1>6. CASE BackgroundMerge
  BY <1>6 DEF BackgroundMerge, FInv
<1>7. CASE UNCHANGED fmvars
  BY <1>7 DEF fmvars, FInv
<1> QED
  BY <1>1, <1>2, <1>3, <1>4, <1>5, <1>6, <1>7 DEF FMNext

(***************************************************************************)
(* For every start value and merge cost: when both stats reads succeed,    *)
(* the graph merge time force_merge returns (lines 159-169) is the         *)
(* counter's rise between the reads and at least the forced merge's cost,  *)
(* whatever background merges ran and whether the refresh failed.          *)
(***************************************************************************)
THEOREM ReportCoversMergeHolds == FMSpec => []ReportCoversMerge
<1>1. FInv => ReportCoversMerge
  BY DEF FInv, ReportCoversMerge
<1> QED
  BY <1>1, InitFInv, NextFInv, PTL DEF FMSpec
====
