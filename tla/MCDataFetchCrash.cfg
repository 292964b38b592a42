CONSTANTS
  LastDay = 6
  Sessions <- MCSessions
  Tapes <- MCTapes
  ChunkSpan = 2
  Froms <- MCHistory
  MaxAborts = 1
SPECIFICATION Spec
INVARIANTS
  SealedIsFinal
