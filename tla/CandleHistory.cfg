SPECIFICATION FairSpec
CONSTANTS
  Last = 2
  Limit = 2
  MaxRuns = 2
  MaxFaults = 1
  MaxQueue = 1
  Ahead = 0
INVARIANTS
  HistoryTypeOK
  CompletedIsCovered
PROPERTIES
  NeverDowngraded
  BackfillEnds
CHECK_DEADLOCK FALSE
