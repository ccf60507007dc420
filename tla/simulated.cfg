SPECIFICATION Spec
CONSTANTS
  Consoles = {1}
  Plans = {"temp", "saved"}
  TempPlans = {"temp"}
  SignalsOf <- TwoPlans
  StartSignals = {"trip"}
  Forbidden = {"barred"}
  CheckRecords <- Checks
  TIMEOUT_PROTPNT = 1
  MaxThreads = 2
  MaxNow = 4
  MaxStamps = 2
  MaxRequests = 3
INVARIANTS TypeOK AnswerWhole AnswerSignalsWritten MutexReleased
CHECK_DEADLOCK FALSE
