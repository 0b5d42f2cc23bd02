CONSTANTS
  NWorkers = 2
  QueueSize = 2
  Clients = {c1, c2}
  Tasks = {k1, k2, k3}
  Endless = {k1, k2}
  NoTask = NoTask
  NoWorker = NoWorker
SPECIFICATION FairSpec
INVARIANTS
  TypeOK
  ExclusiveTask
  NoThreadAfterFree
PROPERTIES
  SafeTaskPool
  AcceptedRuns
  DestructorReturns
  ImplementsTaskPool
CHECK_DEADLOCK FALSE
