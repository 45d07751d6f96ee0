SPECIFICATION Spec
CONSTANTS
  Word = 16
  stages_ <- MCStages
  AllStages = {0, 1, 2}
  Tids = {4, 5}
  TID_SLOTS = 3
  MaxTs = 6
INVARIANTS
  TypeOK
  FirstIsEarliest
  GroupsDoNotOverlap
  DrainedOnce
PROPERTY
  AbsSpec
