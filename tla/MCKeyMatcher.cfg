SPECIFICATION Spec
CONSTANTS
  Word = 16
  stages_ <- MCStages
  AllStages = {0, 1, 2}
  Tids = {7, 8}
  Keys = {k1, k2}
  MaxTs = 5
INVARIANTS
  TypeOK
  RecordsInFlight
  GroupsAreOfOneRequest
PROPERTY
  AbsSpec
SYMMETRY Symmetry
