SPECIFICATION FairSpec
CONSTANTS
  c1 = c1
  c2 = c2
  Callers <- OneCaller
  MaxRuns = 2
  MaxWaits = 1
  MaxPending = 1
  MaxLimits = 0
  Ops <- StartStopWait
  Reconnect = FALSE
  Stale = FALSE
  Limits = FALSE
PROPERTIES FinishingEnds
CHECK_DEADLOCK FALSE
