CONSTANTS
  Pushes = {p1, p2, p3}
  Queries = {q1, q2}
  Capacity = 2
SPECIFICATION FairSpec
INVARIANTS
  NothingDiscarded
  ReturnedIsWithQueries
  MutexIsHandedOn
PROPERTIES
  RefinesOrderedFeed
  ReturnedIsProcessed
  NoPushStarves
CHECK_DEADLOCK FALSE
