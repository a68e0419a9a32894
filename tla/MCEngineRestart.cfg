CONSTANTS
  q1 = q1
  q2 = q2
  r1 = r1
  None = None
  Callers = {c1}
  Queries = {q1}
  Reactions = {r1}
  Watches <- WatchesFirst
  Ops = {"add", "start", "stop"}
  Cancellable = {}
  SerialIds = TRUE
  SerialLifecycle = TRUE
SPECIFICATION Spec
INVARIANT StartStartsReactions
CHECK_DEADLOCK FALSE
