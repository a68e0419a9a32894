CONSTANTS
  q1 = q1
  q2 = q2
  r1 = r1
  None = None
  Callers = {c1, c2}
  Queries = {q1}
  Reactions = {}
  Watches <- WatchesFirst
  Ops <- EveryOp
  Cancellable = {"start", "stop", "close"}
  SerialIds = TRUE
  SerialLifecycle = FALSE
SPECIFICATION FairSpec
INVARIANTS
  TypeOK
  ExactlyOneStarter
PROPERTY CallsReturn
CHECK_DEADLOCK FALSE
