CONSTANTS
  Policy = "Disconnect"
  PauseThreshold = 2
  ResumeThreshold = 1
  BatchSizes = {1, 2}
  MaxRecords = 3
SPECIFICATION FairSpec
INVARIANTS WireInOrder CleanEndDrains
PROPERTIES ClosingIsFinal CloseCompletes
CHECK_DEADLOCK FALSE
