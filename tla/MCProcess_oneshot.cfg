SPECIFICATION FairSpec
CONSTANTS
  c1 = c1
  c2 = c2
  Callers <- OneCaller
  MaxRuns = 1
  MaxWaits = 1
  MaxPending = 1
  MaxLimits = 2
  Ops <- StartKill
  Reconnect = FALSE
  Stale = TRUE
  Limits = TRUE
INVARIANTS RunningWhileAlive NoPanic
PROPERTIES KillOnlyFinishing StaleEnds FinishingEnds CallsReturn
