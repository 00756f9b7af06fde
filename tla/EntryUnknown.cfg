SPECIFICATION Spec
CONSTANTS
  s1 = s1
  s2 = s2
  Setups = {s1}
  SymbolOf <- SameSymbol
  WindowOf <- SameSymbol
  Workers = {w1}
  Executors = {}
  MaxOpenPositions = 1
  Lots = 1
  MaxOps = 0
  MaxFaults = 0
INVARIANT UnknownOutcomePersisted
CHECK_DEADLOCK FALSE
