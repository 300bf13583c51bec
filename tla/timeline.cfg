SPECIFICATION Spec
CONSTANTS
  Configs <- AllConfigs
  NumTopics = 2
  Second = 8
  WarmUp = 3
  Duration = 8
  Overshoot = 1
  Jitter = 1
INVARIANTS
  TypeOK
  HeardFromTheStart
  PublishingFits
  ThroughputMeasured
CHECK_DEADLOCK FALSE
