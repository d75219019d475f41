CONSTANTS
  Tag = {tag1, tag2}
  Index = {set1}
  Offset = {word1}
  Val = {new, old}
  Unset = Unset
  Booted = old
SPECIFICATION TwoWaySpec
INVARIANT ShadowAgrees
CHECK_DEADLOCK FALSE
