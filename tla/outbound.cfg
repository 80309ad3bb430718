SPECIFICATION FairSpec
CONSTANTS
  Events = {e1, t}
  Terminal = t
  Flushers = {f1, f2, main}
  Main = main
  BatchSize = 2
  MaxAttempts = 2
  MaxCrashes = 1
  MaxFaults = 1
CHECK_DEADLOCK FALSE
INVARIANTS TypeOK SkipsOnlyByFlaw OneEventPerSequence ExitZeroLiesOnlyByFlaw
PROPERTIES ImplementsStream JobEnds
