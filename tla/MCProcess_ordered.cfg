SPECIFICATION Spec
CONSTANTS
  c1 = c1
  c2 = c2
  Callers <- TwoCallers
  MaxRuns = 2
  MaxWaits = 1
  MaxPending = 1
  MaxLimits = 0
  Ops <- StartStop
  Reconnect = TRUE
  Stale = FALSE
  Limits = FALSE
PROPERTIES OnlyLateRestarts
