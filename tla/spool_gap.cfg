SPECIFICATION Spec
CONSTANTS
  Events = {e1, e2, t}
  Terminal = t
  Flushers = {f1, main}
  Main = main
  BatchSize = 2
  MaxAttempts = 1
  MaxCrashes = 1
  MaxFaults = 0
CHECK_DEADLOCK FALSE
INVARIANT NoEventSkipped
