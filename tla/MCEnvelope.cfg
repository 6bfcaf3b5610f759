CONSTANTS
  HalfRange = 32
  TicksPerSecond = 3
  Hour = 2
  Scopes <- SmallScopes
  Amounts <- SmallAmounts
SPECIFICATION Spec
INVARIANTS TiersAgree TTLsBounded
