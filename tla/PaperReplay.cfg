SPECIFICATION Spec
CONSTANTS
  Targets = {1, 2, 3}
  Detected = 1
  Expires = 3
  Bars = 2
  MaxReplays = 1
INVARIANT OneExitPerCandle
CHECK_DEADLOCK FALSE
