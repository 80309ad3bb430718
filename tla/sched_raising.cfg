SPECIFICATION FairSpec
CONSTANTS
  Scenarios = {s1, s2}
  Worlds = {w1, w2}
  Port = "raising"
  MaxFaults = 1
INVARIANTS LedgerComplete SkippedNeverRan WorldsReturned
PROPERTIES KeepsPoolProtocol NoLaunchOnceDead RunCompletes
