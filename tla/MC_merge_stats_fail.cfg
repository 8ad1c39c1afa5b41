\* The merge time reported when a stats call fails.
CONSTANTS
  StartCounters <- MCStartCounters
  MergeCosts <- MCMergeCosts
  MaxCounter = 6
SPECIFICATION FMSpec
\* force_merge has returned; index_vectors or main continues elsewhere.
CHECK_DEADLOCK FALSE
INVARIANT
  MergeTimeReported
