SPECIFICATION Spec
CONSTANTS
  Targets = {1, 3}
  Detected = 1
  Expires = 3
  Bars = 4
  MaxReplays = 1
INVARIANTS
  PaperTypeOK
  QuantityConserved
  StopWins
  NoLossAfterFirstTarget
PROPERTY ResultIsFinal
CHECK_DEADLOCK FALSE
