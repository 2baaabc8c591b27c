CONSTANTS
  k4 = k4
  n4 = n4
  k6 = k6
  l1 = l1
  l2 = l2
  d1 = d1
  None = None
  V4 <- One4
  V6 <- One6
  InLocal = {}
  Lookups <- OneLookup
  Deleters = {}
  HasProvider = TRUE
  TTL = 1
  MaxClock = 2
  MaxCalls = 2
SPECIFICATION FairSpec
PROPERTY MemoryReclaimed
