CONSTANTS
  Symbols = {"a", "b"}
  Unknown = {"b"}
  None = None
  MaxTrades = 2
  MaxInFlight = 1
  MaxEvents = 1
  MaxMounts = 2
  MaxRequests = 2
  FirstStream = "LIVE"
SPECIFICATION FairSpec
INVARIANTS NothingCoalescedAway PaneDiscardsOldTicks
PROPERTIES NewerWins ScreenCatchesUp
CHECK_DEADLOCK FALSE
