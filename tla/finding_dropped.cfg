SPECIFICATION Spec
CONSTANTS
  NumTopics = 1
  PublishModes <- MultiRate
  MaxSeq = 4
  MaxPublished = 5
  Threads = {t1, t2}
  CallbackGroups <- OnlyReentrant
  QosDepth = 1
  Capacity = 2
  DurationS = 9
  Idle = Idle
  NoReport = NoReport
SYMMETRY Symmetry
INVARIANTS
  DroppedNeverReachedCallback
CHECK_DEADLOCK FALSE
