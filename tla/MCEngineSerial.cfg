CONSTANTS
  q1 = q1
  q2 = q2
  r1 = r1
  None = None
  Callers = {c1, c2}
  Queries = {q1}
  Reactions = {r1}
  Watches <- WatchesFirst
  Ops <- EveryOp
  Cancellable = {"start", "stop", "close"}
  SerialIds = TRUE
  SerialLifecycle = TRUE
SPECIFICATION Spec
SYMMETRY Symmetric
INVARIANTS
  QuietWhileStopped
  StartNeverTrips
  NoneLeftBehind
  HeldReactionsFollowQueries
CHECK_DEADLOCK FALSE
