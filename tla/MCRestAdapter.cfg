SPECIFICATION Spec
CONSTANTS
  c1 = c1
  c2 = c2
  None = None
  Callers = {c1, c2}
  Margin = 1
  Life = 3
  MaxListing = 2
  MaxTokens = 3
  MaxClock = 2
  MaxCalls = 4
SYMMETRY Symmetry
INVARIANTS
  TypeOK
  MapsAgree
  TokenHonoured
  NoncesServe
