\* force_merge with any of its HTTP calls failing and background merges.
CONSTANTS
  StartCounters <- MCStartCounters
  MergeCosts <- MCMergeCosts
  MaxCounter = 6
SPECIFICATION FMSpec
\* force_merge has returned; index_vectors or main continues elsewhere.
CHECK_DEADLOCK FALSE
INVARIANTS
  ReportCoversMerge
