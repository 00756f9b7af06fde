SPECIFICATION Spec
CONSTANTS
  Structural = {bos}
  PaperOnly = wave3
  Grades = {"ready"}
  Counts = {3}
  Expiry = 2
  Starting = 1000
  Routing = {TRUE}
  Feeds <- MCFeeds
  MaxSetups = 2
  MaxAnalyses = 5
INVARIANTS
  TradingTypeOK
  BalanceIsRealized
  SettledWhenClosed
  OneSetupPerEvent
  PaperOnlyNeverRouted
  BacktestInOrder
PROPERTY EndedStaysEnded
CHECK_DEADLOCK FALSE
