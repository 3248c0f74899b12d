CONSTANTS
  Connections = {"a", "b", "c"}
  MaxSessions = 2
  MaxBatches = 1
SPECIFICATION FairSpec
INVARIANTS SlotsConserved OpenSessionsMissNothing NothingOpenAfterStop
PROPERTIES StopCompletes LedgerSettles
CHECK_DEADLOCK FALSE
