CONSTANTS
  Threads = {t1, t2, t3}
  NoThread = none
  PIPE_CAPACITY = 1
  LockedRead = 2
  MaxInput = 1
  MaxPackets = 1
SPECIFICATION SpecSync
INVARIANTS
  NoLostWakeup
PROPERTIES
  NoBypass
  LeaseExcludes
  ThreadsServed
CHECK_DEADLOCK FALSE
