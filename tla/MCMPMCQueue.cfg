CONSTANTS
  Threads = {t1, t2}
  Items = {x, y}
  QueueSize = 2
  MaxPush = 4
SPECIFICATION FairSpec
INVARIANTS
  TypeOK
  OneOwner
PROPERTIES
  CallsReturn
  ImplementsBoundedQueue
CHECK_DEADLOCK FALSE
