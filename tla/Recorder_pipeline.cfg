CONSTANTS
  e1 = e1
  e2 = e2
  e3 = e3
  w1 = w1
  w2 = w2
  None = None
  Entries <- MCEntries
  GeoFailed <- MCGeoFailed
  WithEcs <- MCWithEcs
  Workers <- MCWorkers
  ChCap = 1
  TaskCap = 1
  RetryCap = 1
  MaxAttempts = 2
  MaxRestarts = 1
SPECIFICATION FairSpec
INVARIANTS ExactlyOnce CloseFlushes CloseIsQuiet RetryOnlyStored
PROPERTIES ImplementsLog Settled CloseTerminates RetrySettles
CHECK_DEADLOCK FALSE
