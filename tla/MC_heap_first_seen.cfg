\* The heap lists under l2, k = 3, four updates on a line (spec 4.1, 8, 9).
CONSTANTS
  QueryVectors <- MCQueryLine
  Vectors <- MCVectorsLine
  K = 3
  SpaceType = "l2"
  MaxDocs = 4
SPECIFICATION HSpec
\* The stream ends after MaxDocs calls; the program then stops.
CHECK_DEADLOCK FALSE
INVARIANT
  GroundTruthFirstSeen
