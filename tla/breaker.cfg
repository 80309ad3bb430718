SPECIFICATION FairSpec
CONSTANTS
  Callers = {c1, c2}
  FailureThreshold = 2
  SuccessThreshold = 2
  HalfOpenMax = 3
  WindowSize = 3
  WindowFailures = 1
  MaxRetries = 1
  Burst = 1
INVARIANTS HalfOpenDecides ClosedBelowThreshold
PROPERTIES Recovers SubmitReturns
