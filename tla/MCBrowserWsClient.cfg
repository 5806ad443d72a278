SPECIFICATION Spec
CONSTANTS
  k1 = k1
  k2 = k2
  None = None
  Keys = {k1, k2}
  UnsubKeys = {k1}
  MaxSockets = 3
  MaxFailures = 2
INVARIANTS
  TypeOK
  ConnectedMeansOpen
  MapIsServed
PROPERTY
  EventsInOrder
