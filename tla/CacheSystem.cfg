CONSTANTS
  Tags <- MCTags
  Sets <- MCSets
  Words <- MCWords
  Bytes <- MCBytes
  Values <- MCValues
  Requests <- MCRequests
  Image <- MCImage
  NoLoad = NoLoad
SPECIFICATION FairSpec
INVARIANT IInv
PROPERTIES
  ImplementsShadow
  RequestsAnswered
