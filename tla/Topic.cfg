SPECIFICATION FairSpec
CONSTANTS
  N = 3
  BufferSize = 3
  Subscribers = {s1, s2}
  Null = Null
  MaxPublished = 6
INVARIANT WindowIntact
PROPERTIES Implements NewestIsSeen
CHECK_DEADLOCK FALSE
