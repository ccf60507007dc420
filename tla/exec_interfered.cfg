SPECIFICATION Spec
CONSTANTS
  i1 = i1
  i2 = i2
  t1 = t1
  r1 = r1
  Breakers <- MCBreakers
  Stage <- MCStage
  Plans <- ShortPlans
  InRegion = {i1, t1, r1}
  USER2AUTO = FALSE
  Clients = {c1, c2}
  Ops = {"stop", "pass", "plan", "evict"}
  Crashes = FALSE
  ReadFails = {"left"}
  MaxRows = 4
  MaxControls = 1
INVARIANTS
  OneInFlight
  ExecControlled
PROPERTIES
  RestoreAfterIsolate
SYMMETRY Consoles
CHECK_DEADLOCK FALSE
