SPECIFICATION MessageSpec
CONSTANTS
  Base = 16
  Magic <- MCMagic
  Types = {0, 15}
  Transactions = {0, 255}
  Ports = {0, 5, 240}
  Payloads <- ShortPayloads
  Damages = {0, 1, 8, 15}
  Foreign <- ShortForeign
  Memories <- MCMemories
  NoMessage = NoMessage
INVARIANTS CastIsApplied FieldsReturn SpanSuffices DamageIsNoticed NothingBeyond
CHECK_DEADLOCK FALSE
