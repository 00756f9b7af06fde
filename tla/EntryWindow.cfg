SPECIFICATION FairSpec
CONSTANTS
  s1 = s1
  s2 = s2
  Setups = {s1, s2}
  SymbolOf <- SameSymbol
  WindowOf <- SameSymbol
  Workers = {w1, w2}
  Executors = {}
  MaxOpenPositions = 1
  Lots = 1
  MaxOps = 0
  MaxFaults = 1
PROPERTIES
  SubmitsOnce
  HandoffEnds
CHECK_DEADLOCK FALSE
