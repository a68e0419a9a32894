CONSTANTS
  MaxResults = 3
  Capacity = 2
  Callbacks = {"coroutine"}
  Policies = {"strict", "auto_reset", "skip_gap", "unknown"}
SPECIFICATION FairSpec
PROPERTIES
  AsyncCallbacksRun
CHECK_DEADLOCK FALSE
