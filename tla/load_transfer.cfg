SPECIFICATION Spec
CONSTANTS
  Scenes <- AllScenes
  Points = 2
  MaxSamples = 1
  MaxRefused = 1
INVARIANTS
  TypeOK
  SourcesApart
  WithinCapacity
  Resupplied
CHECK_DEADLOCK FALSE
