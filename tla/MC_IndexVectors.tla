--------------------------- MODULE MC_IndexVectors ---------------------------
(***************************************************************************)
(* Small instances of index_vectors feeding the tracker.  Five documents  *)
(* in batches of two leave a partial last batch; frequencies 3 and 4 put  *)
(* a multiple inside a batch and at the end of one.                       *)
(***************************************************************************)
EXTENDS IndexVectors

\* One l2 query at the origin, as main() builds the tracker (line 602).
MCQueries1 == << <<0, 0>> >>
\* Three vectors, two of them at the same distance from the query.
MCVectors3 == {<<1, 0>>, <<0, 1>>, <<1, 1>>}
\* ... and a farther one, so that a full heap can hold two distances that a
\* new candidate beats.
MCVectors4 == {<<1, 0>>, <<0, 1>>, <<1, 1>>, <<2, 0>>}
=============================================================================
