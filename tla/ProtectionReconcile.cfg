SPECIFICATION FairSpec
CONSTANTS
  Stream = Stream
  Admins = {a1}
  Reconcilers = {a1}
  Targets = 2
  Base = 3
  MaxRequests = 1
  MaxFaults = 1
INVARIANT
  PlacedOnce
PROPERTY
  PendingEnds
CHECK_DEADLOCK FALSE
