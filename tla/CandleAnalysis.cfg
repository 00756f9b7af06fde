SPECIFICATION Spec
CONSTANTS
  Last = 3
  Limit = 2
  MaxRuns = 1
  MaxFaults = 0
  MaxQueue = 1
  Ahead = 0
INVARIANT SyncedIsAnalysed
CHECK_DEADLOCK FALSE
