SPECIFICATION Spec
CONSTANTS
  Word = 64
  matchers <- TightMatchers
  reports <- PipelineReports
  SeqOrder <- PipelineOrder
  probes <- PipelineProbes
  Lanes <- PipelineLanes
  DefaultQueue = 2
  Tids = {11, 12}
  Keys = {0, 1, 2, 3}
  Items = 2
  KeyOf <- NoKeys
  StrictFifo = TRUE
  RingCap = 2
  MayFail = TRUE
CHECK_DEADLOCK FALSE
INVARIANTS
  TypeOK
  CountedOnce
PROPERTIES
  ExitFinishes
