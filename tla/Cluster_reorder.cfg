CONSTANTS
  h1 = h1
  h2 = h2
  s1 = s1
  p1 = p1
  p2 = p2
  c1 = c1
  c2 = c2
  None = None
  Handlers <- TwoHandlers
  Slaves <- OneSlave
  Patterns <- OnePattern
  Configs <- TwoConfigs
  MaxRequests = 2
  MaxStarts = 1
SPECIFICATION Spec
INVARIANT ForwardsSuffice
CHECK_DEADLOCK FALSE
