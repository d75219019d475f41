CONSTANTS
  Argvs <- MCArgvs
  Methods <- MCMethods
  MULTITHREAD = 3
  TOTAL_DATA_SIZE = 2000
  Ticks <- MCTicks
  TICKS_PER_SEC = 5
SPECIFICATION MainFairSpec
INVARIANTS
  BlocksDisjoint
  
  ValidatedMeansComputed
  CompleteRunValidates
PROPERTIES
  CalibratedRun
  MainEnds
CHECK_DEADLOCK FALSE
