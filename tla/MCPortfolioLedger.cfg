SPECIFICATION Spec
CONSTANTS
  MaxContainers = 3
  Borrowed = 3
  Amounts <- MCAmounts
  Values <- MCValues
  Results <- MCResults
INVARIANTS
  SettledMeansEmpty
  SettlementIsTheMoney
PROPERTIES
  OnlyLossesOverdraw
  ImplementsClaims
