---------------------------- MODULE MC_ForceMerge ----------------------------
(***************************************************************************)
(* force_merge on a node whose merge-time counter is already non-zero,    *)
(* with merges of one or two time units and background merges.           *)
(***************************************************************************)
EXTENDS ForceMerge

MCStartCounters == 0..2
MCMergeCosts == {1, 2}
=============================================================================
