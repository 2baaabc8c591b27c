CONSTANTS
  p1 = p1
  p2 = p2
  h1 = h1
  h2 = h2
  None = None
  Patterns <- MCPatterns
  Sorted <- MCSorted
  Names <- MCNames
  Matching <- MCMatching
  RTypes <- MCRTypes
  Handlers <- TwoHandlers
  Queries <- MCQueries
  Countries = {"JP"}
  HasGeo = TRUE
  HasRecorder = TRUE
  StartZones <- MCStartZones
  StartConfig <- MCStartConfig
  ZoneConfigs <- MCZoneConfigs
  ServerConfigs <- MCServerConfigs
  MaxEdits = 2
  MaxQueries = 2
SPECIFICATION Spec
SYMMETRY HandlerSymmetry
INVARIANTS AnswerConsistent EnrichedOrDeferred
CHECK_DEADLOCK FALSE
