CONSTANTS
  Symbols = {"a", "c"}
  Unknown = {"c"}
  NoSymbol = "none"
  Requests = {}
  MaxSockets = 3
  MaxDrops = 2
  MaxLimits = 1
  MaxRetries = 1
  MaxPending = 1
SPECIFICATION FairPagesSpec
INVARIANTS CarriesSubscriptions OneConnection TimersGuardCurrent DetailCarried
PROPERTIES Recovers
CHECK_DEADLOCK FALSE
