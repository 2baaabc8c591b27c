CONSTANTS
  c1 = c1
  c2 = c2
  w1 = w1
  w2 = w2
  d1 = d1
  d2 = d2
  None = None
  EcsGeo = EcsGeo
  DbTypes = {"sqlite", "postgres"}
  Clients <- MCClients
  WithEcs <- OneEcs
  Workers <- MCWorkers
  Deleters <- MCDeleters
  MaxId = 2
  MaxDeletes = 2
SPECIFICATION Spec
SYMMETRY WorkerDeleterSymmetry
INVARIANTS NoOrphanEdns EdnsKept UpdatesOwnRow
CHECK_DEADLOCK FALSE
