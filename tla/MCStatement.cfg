SPECIFICATION PromptSpec
CONSTANTS
  Span = 5
  Early = 1
  Latency = 1
  Horizon = 12
  MaxCrashes = 0
  NoFile = NoFile
  Memory = Memory
  NoConn = NoConn
INVARIANTS StatementIsSafe
CHECK_DEADLOCK FALSE
