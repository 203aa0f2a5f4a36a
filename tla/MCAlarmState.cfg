SPECIFICATION JournalSpec
CONSTANTS
  Span = 5
  Early = 1
  Latency = 1
  Horizon = 11
  MaxCrashes = 1
  NoFile = NoFile
  Memory = Memory
  NoConn = NoConn
  Index = {a1}
  NoRow = NoRow
  Delivering = {"running"}
  MaxFlips = 3
  MaxUuids = 9
INVARIANTS StateIsUpdated
CHECK_DEADLOCK FALSE
