SPECIFICATION Spec
CONSTANTS
  None = None
  MaxPrice = 3
  MaxAmount = 2
  MaxBatch = 2
INVARIANTS
  TypeOK
  LibraryFollows
  ProbitFollows
  ExmoFollows
