CONSTANTS
  v1 = v1
  v2 = v2
  l1 = l1
  l2 = l2
  None = None
  Bad = Bad
  Closed = Closed
  Valid <- TwoVersions
  Lookups <- TwoLookups
  Ids <- FourIds
  Mmap = TRUE
  Interval = 1
  Retry = 1
SPECIFICATION Spec
INVARIANTS AnswerOfActive AlwaysStarts IndexFollowsFile NothingLeaks
PROPERTIES OnlyWhenDue Refreshed CloseReturns
