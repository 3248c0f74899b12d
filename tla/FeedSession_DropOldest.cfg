CONSTANTS
  Policy = "DropOldest"
  PauseThreshold = 3
  ResumeThreshold = 2
  BatchSizes = {1, 2}
  MaxRecords = 3
SPECIFICATION FairSpec
INVARIANTS TapeAccounted
PROPERTIES ImplementsTape DiscardWithinEpisode EpisodeResolves
CHECK_DEADLOCK FALSE
