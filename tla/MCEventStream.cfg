CONSTANTS
  History = 1
  Ring = 2
  Buffer = 2
  MaxItems = 6
  MaxCancels = 2
SPECIFICATION FairSpec
INVARIANT TypeOK
PROPERTIES
  RefinesAccountedStream
  EveryItemAccounted
  StreamEnds
  PumpStopsAfterDrop
CHECK_DEADLOCK FALSE
