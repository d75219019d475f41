CONSTANTS
  Tags <- MCTags
  Sets <- MCSets
  Words <- MCWords
  Bytes <- MCBytes
  Values <- MCValues
  MaxCount = 3
  WordsPerBeat = 1
  DELAY_MEM = 2
  DELAY_PAGE_HIT = 1
  TagsPerPage = 2
  Fetches <- MCFetches
  DataRequests <- MCDataRequests
  Image <- MCImage
  NoLoad = NoLoad
SPECIFICATION FairSpec
INVARIANTS
  MemoryProtocol
  AnsweredFills
PROPERTIES
  FetchesImage
  ImplementsCacheSystem
  PipelineMoves
