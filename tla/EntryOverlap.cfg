SPECIFICATION Spec
CONSTANTS
  s1 = s1
  s2 = s2
  Setups = {s1}
  SymbolOf <- SameSymbol
  WindowOf <- SameSymbol
  Workers = {w1, w2}
  Executors = {x1}
  MaxOpenPositions = 1
  Lots = 2
  MaxOps = 1
  MaxFaults = 1
INVARIANTS
  EntryTypeOK
  AtMostOneSubmission
  SubmissionInv
  FillsCountOnce
PROPERTY NeverUnsubmitted
CHECK_DEADLOCK FALSE
