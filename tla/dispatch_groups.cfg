SPECIFICATION Spec
CONSTANTS
  n1 = n1
  probe = probe
  timer = timer
  Nodes = {n1}
  Subscriptions = {probe}
  Timers = {timer}
  NodeOf <- OneNode
  Threads = {t1, t2}
  CallbackGroups <- AllGroups
  TimerPeriod = 1
  CallbackWork = 1
  QosDepth = 1
  Idle = Idle
  MaxClock = 4
  MaxPublished = 2
SYMMETRY Symmetry
INVARIANTS
  TypeOK
  GroupMembersNeverOverlap
  TimerRowsChain
  ProbeRowsInOrder
CHECK_DEADLOCK FALSE
