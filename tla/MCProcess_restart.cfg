SPECIFICATION Spec
CONSTANTS
  c1 = c1
  c2 = c2
  Callers <- OneCaller
  MaxRuns = 2
  MaxWaits = 1
  MaxPending = 1
  MaxLimits = 0
  Ops <- StartKillWait
  Reconnect = TRUE
  Stale = TRUE
  Limits = FALSE
INVARIANTS TypeOK AtMostOneAlive RestartTokens RestartInv
CHECK_DEADLOCK FALSE
