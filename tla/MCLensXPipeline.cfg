SPECIFICATION Spec
CONSTANTS
  Word = 64
  matchers <- PipelineMatchers
  reports <- PipelineReports
  SeqOrder <- PipelineOrder
  probes <- PipelineProbes
  Lanes <- PipelineLanes
  DefaultQueue = 2
  Tids = {11, 12}
  Keys = {0, 1, 2, 3}
  Items = 3
  KeyOf <- NoKeys
  StrictFifo = TRUE
  RingCap = 12
  MayFail = FALSE
CHECK_DEADLOCK FALSE
CONSTRAINT Lossless
INVARIANTS
  PairsSameItem
  QuietFifosEmpty
  EveryItemReported
