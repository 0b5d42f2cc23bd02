CONSTANTS
  NWorkers = 2
  QueueSize = 2
  Interval = 1000
  Buffer = 2
  PortChanges = 1
  Wrap = 2
SPECIFICATION FairSpec
INVARIANTS
  TypeOK
  Counted
PROPERTIES
  Drained
  LoopEnds
  KeepsTicking
CHECK_DEADLOCK FALSE
