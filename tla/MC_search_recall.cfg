\* The search loop with a tracker, more searches asked for than queries exist.
CONSTANTS
  NumSearches = 3
  NumQueries = 2
  Measure = TRUE
  DocCounts <- MCDocCounts
  KS = 2
  SearchCosts <- MCSearchCosts
  MaxCounter = 6
SPECIFICATION SSpec
\* test_search_with_stats has returned; main prints and plots.
CHECK_DEADLOCK FALSE
INVARIANTS
  QueryIndexInRange
  RecallInRange
  IterationDiffExactWhenRead
