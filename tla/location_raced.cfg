SPECIFICATION Spec
CONSTANTS
  TicksPerSec = 2
  TIMEOUT_PROTPNT = 1
  EdgeSets <- ManyEdgeSets
  ConfigRace = TRUE
  MaxDelay = 1
  MaxTrig = 3
  LastStamp = 6
  MaxTime = 9
INVARIANTS
  TypeOK
  TasksListed
  OneLocating
  OwnSignalKept
  EarlierStartsUsed
  GroupWhole
CHECK_DEADLOCK FALSE
