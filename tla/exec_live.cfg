SPECIFICATION FairSpec
CONSTANTS
  i1 = i1
  i2 = i2
  t1 = t1
  r1 = r1
  Breakers <- MCBreakers
  Stage <- MCStage
  Plans <- TinyPlans
  InRegion = {i1}
  USER2AUTO = TRUE
  Clients = {c1}
  Ops = {"auto", "stop", "finish", "pass", "control", "recalc", "evict"}
  Crashes = FALSE
  ReadFails = {"left"}
  MaxRows = 2
  MaxControls = 2
PROPERTIES
  ControlsResolve
CHECK_DEADLOCK FALSE
