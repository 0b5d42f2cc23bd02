CONSTANTS
  t1 = t1
  t2 = t2
  t3 = t3
  Threads = {t1, t2, t3}
  Producers = {1, 2, 3}
  Hash <- Colliding
  Initial = 2
  Capacities = {2, 4, 8}
  Failures = 1
  Nobody = Nobody
  None = None
SPECIFICATION FairSpec
INVARIANTS
  TypeOK
  HasRoom
  OneProducerEach
PROPERTIES
  CallsReturn
CHECK_DEADLOCK FALSE
