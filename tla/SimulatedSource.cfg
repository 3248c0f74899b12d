SPECIFICATION SimSpec
CONSTANTS
  SpringAt = 1052
  AutumnAt = 2058
  Symbols = {s1}
  Unlisted = unlisted
  Users = {user1, user2}
  DelayedUser = user2
  Reference = 3
  LiveSteps = 1
  BackfillSteps = 2
  SampleInterval = 2
  DelayOffset = 1
  Instants = {15, 16, 18, 25, 160}
  MaxTicks = 2
  MaxRequests = 1
  MaxDrops = 1
  MaxSwitches = 1
INVARIANTS EngineFollowsMarket DelayIsKept HistoryIsASession
CHECK_DEADLOCK FALSE
