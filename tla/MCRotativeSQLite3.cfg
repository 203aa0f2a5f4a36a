SPECIFICATION SQLiteFairSpec
CONSTANTS
  Span = 5
  Early = 1
  Latency = 1
  Horizon = 22
  MaxCrashes = 2
  NoFile = NoFile
  Memory = Memory
  NoConn = NoConn
INVARIANTS SQLiteTypeOK FreezeIsShort LagsOnePeriod LockfreePurpose NoLostConnection EmployedOnCurrentFile
PROPERTIES NeverBackwards DueTimerRotates
CHECK_DEADLOCK FALSE
