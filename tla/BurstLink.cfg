CONSTANTS
  Tags <- MCTags
  Sets <- MCSets
  Words <- MCWords
  Bytes <- MCBytes
  Values <- MCValues
  Image <- MCImage
  MaxCount = 3
  WordsPerBeat = 1
  DELAY_MEM = 2
  DELAY_PAGE_HIT = 1
  TagsPerPage = 1
  LineRequests <- MCLineRequests
SPECIFICATION FairSpec
INVARIANTS
  IInv
PROPERTIES
  OnlyAddressed
  AtomicLines
  BurstEnds
