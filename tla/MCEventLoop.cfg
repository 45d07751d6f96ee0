SPECIFICATION Spec
CONSTANTS
  CPUs = {c1, c2}
  Size = 3
  M = 6
  None = None
INVARIANTS
  TypeOK
  RecordIntact
PROPERTIES
  AbsSpec
  EventsAreRead
  ExitsWhenQuiet
CHECK_DEADLOCK FALSE
