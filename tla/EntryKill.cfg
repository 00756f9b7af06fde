SPECIFICATION Spec
CONSTANTS
  s1 = s1
  s2 = s2
  Setups = {s1}
  SymbolOf <- SameSymbol
  WindowOf <- SameSymbol
  Workers = {}
  Executors = {x1}
  MaxOpenPositions = 1
  Lots = 1
  MaxOps = 2
  MaxFaults = 0
PROPERTY KillSwitchBlocksNewOrders
CHECK_DEADLOCK FALSE
