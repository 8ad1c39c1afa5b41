---------------------------- MODULE MC_HeapTracker ----------------------------
(***************************************************************************)
(* Small instances of HeapTracker for TLC.  k = 3 gives the lists a right  *)
(* child, so both branches of _siftup's child test are taken.              *)
(***************************************************************************)
EXTENDS HeapTracker

\* Cosine queries, one of them of norm zero.
MCQueriesZero == << <<0, 0>>, <<1, 0>> >>
\* Every vector of dimension 2 over -1..1.
MCVectors2D == [1..2 -> -1..1]
\* One l2 query on a line, with a far and a near point: ties at both distances.
MCQueryLine == << <<0>> >>
MCVectorsLine == {<<2>>, <<1>>}
=============================================================================
