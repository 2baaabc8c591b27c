CONSTANTS
  h1 = h1
  h2 = h2
  s1 = s1
  p1 = p1
  p2 = p2
  c1 = c1
  c2 = c2
  None = None
  Handlers <- TwoHandlers
  Slaves <- OneSlave
  Patterns <- TwoPatterns
  Configs <- TwoConfigs
  MaxRequests = 3
  MaxStarts = 2
SPECIFICATION Spec
SYMMETRY ClusterSymmetry
INVARIANT InSync
CHECK_DEADLOCK FALSE
