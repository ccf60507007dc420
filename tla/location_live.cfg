SPECIFICATION FairSpec
CONSTANTS
  TicksPerSec = 2
  TIMEOUT_PROTPNT = 1
  EdgeSets <- OneEdgeSet
  ConfigRace = FALSE
  MaxDelay = 1
  MaxTrig = 3
  LastStamp = 4
  MaxTime = 9
PROPERTIES
  StartsUsed
  WindowKept
CHECK_DEADLOCK FALSE
