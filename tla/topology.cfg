SPECIFICATION Spec
CONSTANTS
  lv_nd = 4
  Networks <- AllNetworks
  BsSize = 5
  IslandSize = 2
  g_mxnbr = 4
INVARIANTS
  TypeOK
  BusesAreComponents
  EnergisedFromSource
  IslandsTrue
  FailsOnlyFull
CHECK_DEADLOCK FALSE
