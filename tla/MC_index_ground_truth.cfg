\* Bulk items rejected inside a 200 response, with a tracker: 5 documents, batches of 2.
CONSTANTS
  QueryVectors <- MCQueries1
  Vectors <- MCVectors3
  K = 2
  SpaceType = "l2"
  MaxDocs = 5
  NumVectors = 5
  BatchSize = 2
  ForceMergeFrequency = 3
  Tracking = TRUE
SPECIFICATION IndexSpec
\* index_vectors returns, or sys.exit ends the program; nothing follows here.
CHECK_DEADLOCK FALSE
INVARIANT
  GroundTruthIndexed
