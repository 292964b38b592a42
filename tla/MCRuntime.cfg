CONSTANTS
  Capacity = 2
  LogCapacity = 1
  MaxCalls = 3
SPECIFICATION Spec
INVARIANTS EveryEventCounted StoppedIsPersisted FewBarsFit
PROPERTIES StopEnds
CHECK_DEADLOCK FALSE
