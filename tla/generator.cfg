SPECIFICATION FairGeneratorSpec
CONSTANTS
  NumTopics = 3
  PublishModes <- AllModes
  MaxSeq = 5
  MaxPublished = 15
INVARIANTS
  GeneratorTypeOK
  TopicsStayLevel
PROPERTIES
  EveryTopicPublished
CHECK_DEADLOCK FALSE
