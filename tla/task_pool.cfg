SPECIFICATION Spec
CONSTANTS
  version = "study"
  MAX_FAULT = 2
  Consoles = {c1, c2}
  c1 = c1
  c2 = c2
  Requests = {"auto", "step", "pass", "stop", "study"}
  StudySize = 1
  MaxStart = 2
  MaxControls = 1
SYMMETRY ConsolesAlike
INVARIANTS TypeOK ProcessorsOwned LoadedOnce
CHECK_DEADLOCK FALSE
