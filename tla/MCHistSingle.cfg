SPECIFICATION Spec
CONSTANTS
  HIST_BUCKETS = 4
  Bits = 6
  Values = {0, 1, 3, 4, 16, 40}
  MaxSamples = 2
INVARIANT
  PctHasSamples
CHECK_DEADLOCK FALSE
