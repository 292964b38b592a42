SPECIFICATION Spec
CONSTANTS
  MaxContainers = 1
  MaxBooks = 2
  MaxBorrows = 2
  BookAmounts <- MCBookAmounts
  LoanAmounts <- MCLoanAmounts
  Values <- MCValues
  MaxMain = 2
  MaxPnl = 2
CHECK_DEADLOCK FALSE
INVARIANTS
  BorrowedIsOutstanding
  BooksBalance
  NeverOverdrawn
  ReturnedIsEmpty
  EventsReplay
  OnlyDebtsStayLent
PROPERTIES
  DeletedOnlyWindsUp
