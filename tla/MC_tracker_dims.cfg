\* Vectors of the wrong dimension passed to update under l2 (spec 7).
CONSTANTS
  QueryVectors <- MCQueries2D
  Vectors <- MCVectorsMixed
  K = 2
  SpaceType = "l2"
  MaxDocs = 3
SPECIFICATION Spec
\* The stream ends after MaxDocs calls, or at a ValueError; the program then stops.
CHECK_DEADLOCK FALSE
INVARIANT
  DimensionMismatchRejected
