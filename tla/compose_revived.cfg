SPECIFICATION Spec
CONSTANTS
  Instances = 2
  Clients = {c1, c2}
  Provider = "compose"
  HeldWorldsMayFail = FALSE
  MaxAttempts = 2
  MaxLeases = 2
  MaxFaults = 0
CHECK_DEADLOCK FALSE
SYMMETRY Symmetry
PROPERTY GrantPristine
