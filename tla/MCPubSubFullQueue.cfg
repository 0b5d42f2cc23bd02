CONSTANTS
  Tasks = {1, 2, 3, 4}
  Endless = {1, 2, 3, 4}
  NWorkers = 2
  QueueSize = 2
  Subs = {s1, s2}
  Topics = {t1}
  Clients = {c1, c2}
  Publishing = {s1}
  Registering = {}
  MayThrow = {}
  Serialised = TRUE
  NoSub = NoSub
  NoTopic = NoTopic
  NoJob = NoJob
SPECIFICATION Spec
INVARIANTS
  WaitsOnlyForJobs
CHECK_DEADLOCK FALSE
