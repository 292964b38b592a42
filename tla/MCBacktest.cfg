CONSTANTS
  Leverage = 5
  Slippage = 1
  StampRate = 30000
  SebiRate = 0
  SttRate = 50000
  Brokerage = 2
  GstPercent = 50
  OrderQty = 2
  OrbBars = 1
  VwapDev = 5
  EmaFast = 1
  EmaSlow = 3
  EntryUpBars = 1
  AddUpBars = 1
  TakeProfitBps = 1500
  StopBps = 1500
  AddMaxDipBps = 1000
  ClipPaise = 200
  Scale = 1024
  StartingCapital = 100
  Shapes <- MCShapes
  MaxBars = 7
  MaxDays = 3
SPECIFICATION Spec
INVARIANTS
  BookIsLive
  DaysMatchTheLog
  EndsSquare
  ClipKnowsItsEntry
  OneBreakoutADay
CHECK_DEADLOCK FALSE
