\* The per-iteration stats when a stats call fails, without a tracker.
CONSTANTS
  NumSearches = 3
  NumQueries = 2
  Measure = FALSE
  DocCounts <- MCDocCounts
  KS = 2
  SearchCosts <- MCSearchCosts
  MaxCounter = 6
SPECIFICATION SSpec
\* test_search_with_stats has returned; main prints and plots.
CHECK_DEADLOCK FALSE
INVARIANT
  IterationDiffExact
