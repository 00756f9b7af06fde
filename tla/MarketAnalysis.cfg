SPECIFICATION Spec
CONSTANTS
  LeftBars = 1
  RightBars = 1
  WickBreak = FALSE
  BreakConfidence = 50
  MinGap = 2
  Tolerance = 2
  MinStrength = 30
  MinPenetration = 1
  MaxPenetration = 4
  SameCandle = TRUE
  ConfirmWithin = 1
  SweepExpiry = 2
  Truncation = FALSE
  MaxAlternates = 1
  Recency = 2
  Buffer = 1
  MinReward = 15
  Feeds <- MCFeeds
  Scorings <- MCScorings
  Graded = {"fair", "high"}
  Missing = 1
  Backlog = 1
  MaxExtra = 1
INVARIANTS
  MarketTypeOK
  RowsAreUnique
  PoolFollowsSweep
  OnePrimary
  NoFutureLeak
  AcceptedNotStopped
CHECK_DEADLOCK FALSE
