CONSTANTS
  MaxResults = 3
  Capacity = 2
  Callbacks = {"coroutine", "plain", "object", "blocking", "none"}
  Policies = {"strict", "auto_reset", "skip_gap", "unknown"}
SPECIFICATION FairSpec
INVARIANTS
  NothingLost
PROPERTIES
  RedeliveryExplained
  RefinesResultDelivery
  KeepsUp
CHECK_DEADLOCK FALSE
