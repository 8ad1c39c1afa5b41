------------------------- MODULE MC_GroundTruthTracker -------------------------
(***************************************************************************)
(* Small instances of GroundTruthTracker for TLC.  Vectors of the wrong  *)
(* dimension reach the broadcasting and error paths of update.           *)
(***************************************************************************)
EXTENDS GroundTruthTracker

\* Two queries of dimension 2: the origin and a corner.
MCQueries2D == << <<0, 0>>, <<1, 1>> >>
\* Vectors of the wrong dimension next to well-formed ones.
MCVectorsMixed == {<<1, 0>>, <<0, 1>>, <<1>>, <<1, 1, 1>>}
=============================================================================
