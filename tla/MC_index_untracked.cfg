\* index_vectors without a tracker: 7 documents, batches of 3, merge every 2.
CONSTANTS
  QueryVectors <- MCQueries1
  Vectors <- MCVectors3
  K = 2
  SpaceType = "l2"
  MaxDocs = 7
  NumVectors = 7
  BatchSize = 3
  ForceMergeFrequency = 2
  Tracking = FALSE
SPECIFICATION IndexSpec
\* index_vectors returns, or sys.exit ends the program; nothing follows here.
CHECK_DEADLOCK FALSE
INVARIANTS
  IndexTypeOK
  BatchesCoverAll
  MergeEveryMultiple
