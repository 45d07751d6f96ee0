SPECIFICATION Spec
CONSTANTS
  Timestamp = {1, 2, 3}
  Capacity = 3
  IntMax = 8
  MaxPush = 8
  NoResult = NoResult
INVARIANTS
  TypeOK
  WindowFits
PROPERTY
  AbsSpec
