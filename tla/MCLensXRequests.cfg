SPECIFICATION Spec
CONSTANTS
  Word = 64
  matchers <- RequestMatchers
  reports <- RequestReports
  SeqOrder <- RequestOrder
  probes <- RequestProbes
  Lanes <- RequestLanes
  DefaultQueue = 2
  Tids = {11, 12}
  Keys = {0, 1, 2, 3}
  Items = 3
  KeyOf <- ReusedKeys
  StrictFifo = FALSE
  RingCap = 3
  MayFail = TRUE
CHECK_DEADLOCK FALSE
INVARIANTS
  KeyRowsSameItem
  LossStaysWithKey
  CountedOnce
  EveryItemReported
