SPECIFICATION Spec
CONSTANTS
  Configs <- AllConfigs
  Overshoot = 1
INVARIANTS
  TypeOK
  SubscribersMatchTopics
  EntitiesNamedApart
  BuffersHoldTheRun
CHECK_DEADLOCK FALSE
