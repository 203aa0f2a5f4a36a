SPECIFICATION FairSpec
CONSTANTS
  Span = 3
  MaxLag = 4
  MaxDelay = 1
  Horizon = 9
  Requests = {1, 3}
  search_file_count_max = 2
INVARIANT NewestFirst
PROPERTIES NothingSkipped LoadingEnds
CHECK_DEADLOCK FALSE
