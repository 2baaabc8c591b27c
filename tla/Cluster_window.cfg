CONSTANTS
  h1 = h1
  h2 = h2
  s1 = s1
  p1 = p1
  p2 = p2
  c1 = c1
  c2 = c2
  None = None
  Handlers <- OneHandler
  Slaves <- OneSlave
  Patterns <- OnePattern
  Configs <- OneConfig
  MaxRequests = 1
  MaxStarts = 1
SPECIFICATION Spec
INVARIANTS NothingLingers
CHECK_DEADLOCK FALSE
