SPECIFICATION Spec
CONSTANTS
  Stream = Stream
  Admins = {a1}
  Reconcilers = {a1}
  Targets = 3
  Base = 3
  MaxRequests = 1
  MaxFaults = 1
INVARIANT AdvanceOncePerTarget
CHECK_DEADLOCK FALSE
