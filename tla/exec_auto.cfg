SPECIFICATION Spec
CONSTANTS
  i1 = i1
  i2 = i2
  t1 = t1
  r1 = r1
  Breakers <- MCBreakers
  Stage <- MCStage
  Plans <- FullPlans
  InRegion = {i1, t1, r1}
  USER2AUTO = TRUE
  Clients = {}
  Ops = {}
  Crashes = TRUE
  ReadFails = {"breaker", "failed"}
  MaxRows = 4
  MaxControls = 1
INVARIANTS
  TypeOK
PROPERTIES
  PlanCarriedOut
CHECK_DEADLOCK FALSE
