SPECIFICATION Spec
CONSTANTS
  NumTopics = 2
  PublishModes <- AllModes
  MaxSeq = 4
  MaxPublished = 6
  Threads = {t1, t2}
  CallbackGroups <- BothGroups
  QosDepth = 1
  Capacity = 2
  DurationS = 9
  Idle = Idle
  NoReport = NoReport
SYMMETRY Symmetry
INVARIANTS
  PathTypeOK
  EveryMessageAccounted
  DroppedIsQueueLoss
  WindowCoversRows
  SummaryAgreesWithRows
PROPERTIES
  ImplementsLog
CHECK_DEADLOCK FALSE
