\* The heap lists under cosine, k = 3, five updates of grid vectors.
CONSTANTS
  QueryVectors <- MCQueriesZero
  Vectors <- MCVectors2D
  K = 3
  SpaceType = "cosine"
  MaxDocs = 5
SPECIFICATION HSpec
\* The stream ends after MaxDocs calls, or at a ValueError; the program then stops.
CHECK_DEADLOCK FALSE
INVARIANTS
  GroundTruthSorted
PROPERTIES
  TrackerRefined
