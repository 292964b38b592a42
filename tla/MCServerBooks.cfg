CONSTANTS
  Unset = Unset
  Names = {a, b}
  Passwords = {secret}
  Files = 2
  Capitals = {1}
  MaxBooks = 2
  MaxRuns = 2
  Results <- MCResults
  Processes <- MCProcesses
SYMMETRY MCSymmetry
SPECIFICATION Spec
PROPERTIES
  BooksAreIsolated
