SPECIFICATION Spec
CONSTANTS
  MaxFd = 15
  MaxProbes = 3
  Doublings = 2
  Configs <- MCConfigs
  OtherRuns = {"second", "third"}
INVARIANTS
  TypeOK
  FdsHeld
  ClosesOwn
  EventsAreLinks
  CleanReturn
  HeaderMended
PROPERTIES
  LifeSpec
  StartsOrEnds
  StopsWhenTold
CHECK_DEADLOCK FALSE
VIEW MCView
