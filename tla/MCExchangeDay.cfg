CONSTANTS
  Interval = 2
  MaxCatchUp = 1
  Unit = 3
  Rates = {0, 1, 2, 3, 4, 5, 6, 7}
  IntMax = 30
  Steps = {1, 5}
  StepsBack = {2}
  Horizon = 7
  Settings <- ThreeSettings
  Windows <- ShortDay
  One = 2
  BaseRate = 1
  Cycle = 5
  ClosedTicks = 1
  DayLength = 8
  Offset = 0
  MinBatchCapacity = 1
  MaxBatchCapacity = 6
  Patient = TRUE
SPECIFICATION FairDay
INVARIANTS ScheduledIsPublished TimePaidOnce OnePass
PROPERTIES StaleForOneBatch StopReleasesListener
CHECK_DEADLOCK FALSE
