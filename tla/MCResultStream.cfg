CONSTANTS
  Buffer = 2
  OpensOn = {"stopped", "running", "closed"}
  MaxItems = 4
  MaxRestarts = 2
SPECIFICATION FairResultSpec

  
PROPERTIES
  EndIsFinal
  ReaderGetsAll
  StartedStreamEnds
CHECK_DEADLOCK FALSE
