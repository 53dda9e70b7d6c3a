SPECIFICATION Spec
CONSTANTS
  Sizes = {0, 1, 2, 3, 4, 5, 6}
  MAX_BUF = 2
  LongMax = 4
INVARIANTS TypeOK SuccessIsWhole ProgressTruthful AbortStops
PROPERTY CopyEnds
CHECK_DEADLOCK FALSE
