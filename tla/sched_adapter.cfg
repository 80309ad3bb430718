SPECIFICATION Spec
CONSTANTS
  Scenarios = {s1, s2, s3}
  Worlds = {w1}
  Port = "adapter"
  MaxFaults = 1
SYMMETRY Symmetry
INVARIANTS OneReceipt LedgerComplete ReceiptNamesLastAttempt
