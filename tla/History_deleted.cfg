\* A deletion between two pages makes a walk miss a row that stays.
SPECIFICATION ReaderSpec
CONSTANTS
  Arriving <- FourTimes
  Countries <- JP
  DefaultLimit = 1
  MaxLimit = 2
  Limits = {0, 3}
  MaxPages = 5
  Null = Null
INVARIANT WalkMissesNothingAtAll
