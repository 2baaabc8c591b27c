CONSTANTS
  k4 = k4
  n4 = n4
  k6 = k6
  l1 = l1
  l2 = l2
  d1 = d1
  None = None
  V4 <- One4
  V6 <- One6
  InLocal = {}
  Lookups <- TwoLookups
  Deleters <- OneDeleter
  HasProvider = TRUE
  TTL = 1
  MaxClock = 1
  MaxCalls = 2
SPECIFICATION Spec
SYMMETRY LookupSymmetry
INVARIANTS AnswerForKey NoStaleAnswer SingleFlight DeletedV4Gone
