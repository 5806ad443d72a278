SPECIFICATION FairSpec
CONSTANTS
  l1 = l1
  l2 = l2
  c1 = c1
  c2 = c2
  k1 = k1
  k2 = k2
  k3 = k3
  NoLoop = NoLoop
  NoKey = NoKey
  Loops = {l1}
  Keys = {k1}
  RawKeys = {}
  UnsubKeys = {k1}
  Callers = {c1}
  Touches <- OneCaller
  Configs <- LiveConfig
  MaxQueue = 2
PROPERTIES
  CloseEndsTask
  SubscribeReturns
  MapGetsServed
CHECK_DEADLOCK FALSE
