SPECIFICATION Spec
CONSTANTS
  Word = 64
  matchers <- PipelineMatchers
  reports <- PipelineReports
  SeqOrder <- PipelineOrder
  probes <- PipelineProbes
  Lanes <- PipelineLanes
  DefaultQueue = 2
  Tids = {11, 12}
  Keys = {0, 1, 2, 3}
  Items = 1
  KeyOf <- NoKeys
  StrictFifo = TRUE
  RingCap = 4
  MayFail = FALSE
CHECK_DEADLOCK FALSE
INVARIANT
  SeqCountedOnce
