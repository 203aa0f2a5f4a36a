SPECIFICATION WatchdogSpec
CONSTANTS
  Timeouts = {0, 3, 5}
  MaxGap = 2
  MaxHandling = 1
  MaxLag = 2
  Horizon = 20
INVARIANTS WatchdogTypeOK SilentIsKilled
PROPERTIES WorkingIsSpared
CHECK_DEADLOCK FALSE
