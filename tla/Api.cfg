\* Two requests may run at once, saves may fail, the process may be restarted.
CONSTANTS
  p1 = p1
  p2 = p2
  h1 = h1
  h2 = h2
  r1 = r1
  r2 = r2
  None = None
  Patterns <- MCPatterns
  Sorted <- MCSorted
  Names <- MCNames
  Matching <- MCMatching
  RTypes <- MCRTypes
  BootZones <- MCBootZones
  BootDefaults <- MCBootDefaults
  Configs <- MCConfigs
  Handlers <- TwoHandlers
  Requests <- MCRequests
  SaveMayFail = TRUE
  MaxRequests = 3
  MaxRestarts = 1
SPECIFICATION Spec
SYMMETRY HandlerSymmetry
INVARIANTS NoDuplicatePatterns PromisedInForce Agreed FailureLeavesNoTrace
CHECK_DEADLOCK FALSE
