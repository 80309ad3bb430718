SPECIFICATION Spec
CONSTANTS
  Instances = 2
  Clients = {c1, c2}
  Provider = "process"
  HeldWorldsMayFail = FALSE
  MaxAttempts = 2
  MaxLeases = 2
  MaxFaults = 1
CHECK_DEADLOCK FALSE
SYMMETRY Symmetry
INVARIANTS LeaseExclusive RecoveryOwed
PROPERTY ImplementsLease
