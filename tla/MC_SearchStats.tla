---------------------------- MODULE MC_SearchStats ----------------------------
(***************************************************************************)
(* Three searches asked for, two recall queries, k = 2, and an index that  *)
(* is empty or holds three documents.                                      *)
(***************************************************************************)
EXTENDS SearchStats

MCDocCounts == {0, 3}
MCSearchCosts == {1, 2}
=============================================================================
