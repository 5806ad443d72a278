SPECIFICATION FairSpec
CONSTANTS
  c1 = c1
  c2 = c2
  None = None
  Callers = {c1, c2}
  Period = 2
  Refresh = 3
  Life = 6
  MaxKeys = 2
  MaxCalls = 3
INVARIANTS
  TypeOK
  AgeIsHonest
  KeyKeptAlive
  StreamKeyHonoured
PROPERTIES
  CallsReturn
