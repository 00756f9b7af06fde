SPECIFICATION Spec
CONSTANTS
  Stream = Stream
  Admins = {a1}
  Reconcilers = {a1}
  Targets = 2
  Base = 3
  MaxRequests = 1
  MaxFaults = 0
INVARIANT ProtectedIsCovered
CHECK_DEADLOCK FALSE
