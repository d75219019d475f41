CONSTANT Inputs <- MCInputs
SPECIFICATION ListFairSpec
INVARIANTS
  NothingLost
  Restored
  KnownAnswers
PROPERTIES
  SortIsStable
  BenchEnds
