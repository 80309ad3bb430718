SPECIFICATION Spec
CONSTANTS
  Instances = 2
  Clients = {c1, c2}
  Provider = "broker"
  HeldWorldsMayFail = FALSE
  MaxAttempts = 2
  MaxLeases = 1
  MaxFaults = 3
CHECK_DEADLOCK FALSE
SYMMETRY Symmetry
INVARIANTS TypeOK EveryWorldAccounted ClosedProviderUntouched
PROPERTY ImplementsView
