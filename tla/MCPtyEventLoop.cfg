CONSTANTS
  READ_BUFFER_SIZE = 2
  MAX_LOCKED_READ = 1
  PtyLoads <- MCLoads
SPECIFICATION Spec
INVARIANTS
  BytesInOrder
PROPERTIES
  BytesReach
  LoopEnds
  UiServed
CHECK_DEADLOCK FALSE
