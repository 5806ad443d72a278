SPECIFICATION FairSpec
CONSTANTS
  c1 = c1
  c2 = c2
  None = None
  Callers = {c1, c2}
  Amounts = {1500}
  RateLimitMs = 500
  MaxLevel = 2
  BaseDelayMs = 500
  CapMs = 1000
  CalmMs = 500
  TickMs = 500
  MaxCalls = 2
INVARIANTS
  TypeOK
  TokensConserved
  RefillLosesNothing
  LevelIsRemembered
PROPERTIES
  CallsReturn
