SPECIFICATION DeskSpec
CONSTANTS
  MaxContainers = 2
  Symbols = {s1}
  Strategies = {x1, x2}
  Leverage = 2
  RiskLeverage = 2
  Slippage = 1
  StampRate = 100000
  SebiRate = 0
  SttRate = 100000
  Brokerage = 0
  GstPercent = 18
  MaxPosition = 2
  DailyLossLimit = 6
  Borrowed = 16
  Allocations <- MCAllocations
  Closes <- MCCloses
  Quantities <- MCQuantities
  MaxIntents = 1
  MaxBars = 2
INVARIANTS
  RunningIsKnown
  NoKeyIsStuck
  LedgerHasTheShares
  HaltedIsFlat
  ResultIsSettled
  RoundingIsSmall
PROPERTIES
  StoppedIsOver
