SPECIFICATION Spec
CONSTANTS
  n1 = n1
  probe = probe
  timer = timer
  Nodes = {n1}
  Subscriptions = {}
  Timers = {timer}
  NodeOf <- TimerOnly
  Threads = {t1, t2}
  CallbackGroups <- AllGroups
  TimerPeriod = 1
  CallbackWork = 1
  QosDepth = 1
  Idle = Idle
  MaxClock = 5
  MaxPublished = 2
SYMMETRY Symmetry
INVARIANTS
  TimerLatencyIsIntervalError
CHECK_DEADLOCK FALSE
