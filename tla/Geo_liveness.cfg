CONSTANTS
  k4 = k4
  n4 = n4
  k6 = k6
  l1 = l1
  l2 = l2
  d1 = d1
  None = None
  V4 <- Two4
  V6 = {}
  InLocal = {n4}
  Lookups <- TwoLookups
  Deleters = {}
  HasProvider = TRUE
  TTL = 1
  MaxClock = 2
  MaxCalls = 2
SPECIFICATION FairSpec
PROPERTIES Answered MemoryReclaimed
