SPECIFICATION Spec
CONSTANTS
  Last = 1
  Limit = 2
  MaxRuns = 1
  MaxFaults = 0
  MaxQueue = 1
  Ahead = 0
INVARIANT ClosedIsFinal
CHECK_DEADLOCK FALSE
