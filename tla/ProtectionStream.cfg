SPECIFICATION Spec
CONSTANTS
  Stream = Stream
  Admins = {a1}
  Reconcilers = {}
  Targets = 3
  Base = 3
  MaxRequests = 1
  MaxFaults = 1
INVARIANTS
  ProtectionTypeOK
  PlacedOnce
  SoldIsSold
  AdvanceOncePerTarget
  ProtectedIsCovered
CHECK_DEADLOCK FALSE
