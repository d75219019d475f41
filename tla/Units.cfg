CONSTANTS
  Tags <- MCTags
  Sets <- MCSets
  Words <- MCWords
  Bytes <- MCBytes
  Values <- MCValues
  Image <- MCImage
  MaxCount = 2
  WordsPerBeat = 1
  DELAY_MEM = 3
  DELAY_PAGE_HIT = 1
  TagsPerPage = 1
  word_t = {val1, val2}
  cap = 4
  X = X
  key1 = key1
  key2 = key2
  key3 = key3
  key4 = key4
  key5 = key5
  val1 = val1
  val2 = val2
  key_t = {key1, key2, key3, key4, key5}
  val_t = {val1, val2}
  Writes <- MCWrites
  camsize = 4
  Undriven = Undriven
  width_p = 4
  Threads = {a, b, c}
  Calls = 3
  exec_notification <- MCNotifications
  check_every = 3
  check_stride = 2
  stride = 3
  Numbers <- MCNumbers
  Decimals <- MCDecimals
  Widths <- MCWidths
  Precisions <- MCPrecisions
  tag1 = tag1
  tag2 = tag2
  tag3 = tag3
  set1 = set1
  set2 = set2
  Tag = {tag1, tag2, tag3}
  Index = {set1, set2}
  Offset = {word1}
  Val = {old}
  Unset = Unset
  Booted = old
SPECIFICATION UnitsSpec
INVARIANTS
  MemoryAnswers
  CamInv
  MultiplierInv
  TwoWayInv
  CountedOnce
  StatusRight
  NumbersPrinted
PROPERTIES
  ImplementsQueue
  ImplementsLru
  ImplementsRendezvous
  BarrierReturns
  UnitsFinish
CHECK_DEADLOCK FALSE
