CONSTANTS
  Argvs <- MCArgvs
  Methods <- MCMethods
  MULTITHREAD = 3
  TOTAL_DATA_SIZE = 2000
  Ticks <- MCTicks
  TICKS_PER_SEC = 5
SPECIFICATION MainSpec
INVARIANT ValidatedMeansKnown
CHECK_DEADLOCK FALSE
