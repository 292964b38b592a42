SPECIFICATION FairRunSpec
CONSTANTS
  s1 = s1
  s2 = s2
  x1 = x1
  MaxContainers = 2
  Symbols <- MCSymbols
  Strategies <- MCStrategies
  Leverage = 2
  RiskLeverage = 2
  Slippage = 1
  StampRate = 100000
  SebiRate = 0
  SttRate = 100000
  Brokerage = 0
  GstPercent = 18
  MaxPosition = 2
  DailyLossLimit = 6
  Borrowed = 25
  Allocations <- MCAllocations
  Closes <- MCCloses
  Quantities <- MCQuantities
  MaxIntents = 1
  MaxBars = 4
  WinnerLists <- MCWinnerLists
  MaxDays = 2
CHECK_DEADLOCK FALSE
INVARIANTS
  RunEndsClean
  WarnedInWindow
PROPERTIES
  WindowSquaresOff
  WinnersAreStarted
  RunEnds
