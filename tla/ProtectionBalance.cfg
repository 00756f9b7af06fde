SPECIFICATION Spec
CONSTANTS
  Stream = Stream
  Admins = {a1}
  Reconcilers = {a1}
  Targets = 2
  Base = 2
  MaxRequests = 1
  MaxFaults = 0
PROPERTY NeverIncreased
CHECK_DEADLOCK FALSE
