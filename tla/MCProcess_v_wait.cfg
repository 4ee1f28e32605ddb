SPECIFICATION FairSpec
CONSTANTS
  c1 = c1
  c2 = c2
  Callers <- OneCaller
  MaxRuns = 2
  MaxWaits = 2
  MaxPending = 1
  MaxLimits = 0
  Ops <- StartKillWait
  Reconnect = TRUE
  Stale = FALSE
  Limits = FALSE
PROPERTIES CallsReturn
CHECK_DEADLOCK FALSE
