\* The force-merge trigger on the last, partial batch: 5 documents, batches of 2, merge every 4.
CONSTANTS
  QueryVectors <- MCQueries1
  Vectors <- MCVectors3
  K = 2
  SpaceType = "l2"
  MaxDocs = 5
  NumVectors = 5
  BatchSize = 2
  ForceMergeFrequency = 4
  Tracking = TRUE
SPECIFICATION IndexSpec
\* index_vectors returns, or sys.exit ends the program; nothing follows here.
CHECK_DEADLOCK FALSE
INVARIANT
  MergeOnlyAtMultiples
