CONSTANTS
  Tasks = {1, 2, 3, 4}
  Endless = {}
  NWorkers = 2
  QueueSize = 2
  Receivers = {r1, r2}
  Names = {n1}
  Writers = {w1, w2}
  Items = {x1, x2, x3}
  NoReceiver = NoReceiver
  NoItem = NoItem
SPECIFICATION FairSpec
INVARIANTS
  TypeOK
  Accounting
PROPERTY Delivery
CHECK_DEADLOCK FALSE
