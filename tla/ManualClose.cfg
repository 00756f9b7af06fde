SPECIFICATION CloseSpec
CONSTANTS
  Stream = Stream
  Admins = {}
  Reconcilers = {}
  Targets = 2
  Base = 2
  MaxRequests = 0
  MaxFaults = 1
  Closers = {c1, c2}
  MaxCloses = 2
INVARIANTS
  CloseTypeOK
  OnePreparing
  ManualFillsCountOnce
  SubmittingIsOwned
SYMMETRY Symmetry
CHECK_DEADLOCK FALSE
