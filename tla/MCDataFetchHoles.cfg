CONSTANTS
  LastDay = 6
  Sessions <- MCSessions
  Tapes <- MCFullTape
  ChunkSpan = 2
  Froms <- MCAnyStart
  MaxAborts = 0
SPECIFICATION Spec
INVARIANTS
  CoveredIsStored
