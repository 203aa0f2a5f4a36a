SPECIFICATION FairJournalSpec
CONSTANTS
  Span = 4
  Early = 0
  Latency = 1
  Horizon = 9
  MaxCrashes = 1
  NoFile = NoFile
  Memory = Memory
  NoConn = NoConn
  Index = {a1}
  NoRow = NoRow
  Delivering = {"getting", "starting", "running"}
  MaxFlips = 2
  MaxUuids = 2
INVARIANTS JournalTypeOK MapIsAlertsDB  FixedIsAnswered
PROPERTIES HistoryIsKept LedgerSpec ClearedIsFixed
CHECK_DEADLOCK FALSE
