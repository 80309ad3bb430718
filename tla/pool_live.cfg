SPECIFICATION FairSpec
CONSTANTS
  Instances = 2
  Clients = {c1, c2}
  Provider = "process"
  HeldWorldsMayFail = TRUE
  MaxAttempts = 2
  MaxLeases = 1
  MaxFaults = 1
CHECK_DEADLOCK FALSE
INVARIANT EveryWorldAccounted
PROPERTIES LeaseReturns CloseCompletes
