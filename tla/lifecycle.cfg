SPECIFICATION FairSpec
CONSTANTS
  BenchNodes = {n1, n2}
  Writer = writer
  Names = {"multi_threaded", "events_cbg", "callback_isolated"}
  Built = {"multi_threaded"}
  External = {"callback_isolated"}
  MaxSamples = 2
INVARIANTS
  TypeOK
  ResultsComplete
PROPERTIES
  NothingAfterDrain
  EveryRunEnds
CHECK_DEADLOCK FALSE
