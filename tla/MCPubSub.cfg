CONSTANTS
  Tasks = {1, 2, 3, 4}
  Endless = {1, 2, 3, 4}
  NWorkers = 3
  QueueSize = 2
  Subs = {s1, s2}
  Topics = {t1}
  Clients = {c1, c2}
  Publishing = {s1}
  Registering = {s2}
  MayThrow = {s1}
  Serialised = TRUE
  NoSub = NoSub
  NoTopic = NoTopic
  NoJob = NoJob
SPECIFICATION FairSpec
INVARIANTS
  TypeOK
  JobCount
  SafeReclaim
  NoLostSubscription
PROPERTIES
  UnsubscribeReturns
CHECK_DEADLOCK FALSE
