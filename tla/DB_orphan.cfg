CONSTANTS
  c1 = c1
  c2 = c2
  w1 = w1
  w2 = w2
  d1 = d1
  d2 = d2
  None = None
  EcsGeo = EcsGeo
  DbTypes = {"postgres"}
  Clients <- MCClients
  WithEcs <- OneEcs
  Workers <- MCWorkers
  Deleters <- MCDeleters
  MaxId = 2
  MaxDeletes = 1
SPECIFICATION Spec
SYMMETRY WorkerDeleterSymmetry
INVARIANTS AssociatedEdnsDeleted
CHECK_DEADLOCK FALSE
