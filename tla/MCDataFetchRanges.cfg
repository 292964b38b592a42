CONSTANTS
  LastDay = 6
  Sessions <- MCSessions
  Tapes <- MCTapes
  ChunkSpan = 2
  Froms <- MCAnyStart
  MaxAborts = 1
SPECIFICATION Spec
INVARIANTS
  CoveredUnlessTorn
  AnswerHasEveryDay
  UncutSealedIsFinal
PROPERTIES
  NothingFetchedTwice
  RequestsEnd
