\* More cache hits than queries in one answer of GetStats.
SPECIFICATION ReaderSpec
CONSTANTS
  Arriving <- FourTimes
  Countries <- JP
  DefaultLimit = 1
  MaxLimit = 2
  Limits = {0, 3}
  MaxPages = 5
  Null = Null
INVARIANT HitsArePart
