CONSTANTS
  p1 = p1
  p2 = p2
  h1 = h1
  h2 = h2
  r1 = r1
  r2 = r2
  None = None
  Patterns <- MCPatterns
  Sorted <- MCSorted
  Names <- MCNames
  Matching <- MCMatching
  RTypes <- MCRTypes
  BootZones <- MCBootZones
  BootDefaults <- MCBootDefaults
  Configs <- MCConfigs
  Handlers <- OneHandler
  Requests <- MCBadRequests
  SaveMayFail = FALSE
  MaxRequests = 2
  MaxRestarts = 0
SPECIFICATION Spec
INVARIANT RefusedChangesNothing
CHECK_DEADLOCK FALSE
