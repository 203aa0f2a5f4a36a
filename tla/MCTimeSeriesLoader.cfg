SPECIFICATION FairSpec
CONSTANTS
  Span = 3
  MaxLag = 4
  MaxDelay = 1
  Horizon = 9
  Ends = {4, 9}
PROPERTIES InOrder Complete LoadingEnds
CHECK_DEADLOCK FALSE
