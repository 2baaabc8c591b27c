\* Rows of the same created_at come in any order: a walk may miss one.
SPECIFICATION ReaderSpec
CONSTANTS
  Arriving <- SameTime
  Countries <- JP
  DefaultLimit = 1
  MaxLimit = 2
  Limits = {0, 3}
  MaxPages = 5
  Null = Null
INVARIANT WalkMissesNothing
