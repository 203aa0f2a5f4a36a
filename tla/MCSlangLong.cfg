SPECIFICATION MessageSpec
CONSTANTS
  Base = 16
  Magic <- MCMagic
  Types = {0, 15}
  Transactions = {0, 255}
  Ports = {0, 5, 240}
  Payloads <- LongPayloads
  Damages = {0, 1, 8, 15}
  Foreign <- ShortForeign
  Memories <- MCMemories
  NoMessage = NoMessage
INVARIANTS CastIsApplied
CHECK_DEADLOCK FALSE
