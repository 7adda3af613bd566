SPECIFICATION FairSpec
CONSTANTS
  Size = 2
  Items = {i1, i2}
  MaxOutstanding = 2
  NULL = NULL
INVARIANTS
  ChecksSuffice
  RefusedHasReason
  ResponsesMove
PROPERTIES
  IsFIFO
  RefusedAreServed
