SPECIFICATION FairSpec
CONSTANTS
  Writers = {1, 2, recorder}
  Threads = {1, 2}
  Direct = {recorder}
  None = none
  MaxRows = 3
  MaxSize = 1
  MaxFaults = 1
CHECK_DEADLOCK FALSE
INVARIANTS BreaksOnlyWhereStale NothingLostOrReordered DropsAccounted FlushIsHonest
PROPERTY FlushReturns
