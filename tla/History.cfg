\* One reader walks the pages, or asks for the statistics, while rows come and go.
SPECIFICATION ReaderSpec
CONSTANTS
  Arriving <- FourTimes
  Countries <- JP
  DefaultLimit = 1
  MaxLimit = 2
  Limits = {0, 3}
  MaxPages = 5
  Null = Null
INVARIANTS WalkMissesNothing TotalFits
