SPECIFICATION Spec
CONSTANTS
  Networks <- Nets
  MaxSignals = 2
  MaxFaults = 2
  Unreadable = TRUE
INVARIANTS TypeOK SuppliedOverClosed TreeIsNetwork TwoWalksAgree FaultIsolated
CHECK_DEADLOCK FALSE
