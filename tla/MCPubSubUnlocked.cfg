CONSTANTS
  Tasks = {1, 2, 3, 4}
  Endless = {1, 2, 3, 4}
  NWorkers = 2
  QueueSize = 4
  Subs = {s1, s2}
  Topics = {t1}
  Clients = {c1, c2}
  Publishing = {s1}
  Registering = {}
  MayThrow = {}
  Serialised = FALSE
  NoSub = NoSub
  NoTopic = NoTopic
  NoJob = NoJob
SPECIFICATION Spec
INVARIANTS
  SafeReclaim
CHECK_DEADLOCK FALSE
