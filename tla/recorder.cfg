SPECIFICATION OneThreadSpec
CONSTANTS
  Threads = {t1, t2, t3}
  Recorders = {r1, r2}
  Calls = {c1, c2, c3}
  Capacity = 2
  NoCall = NoCall
  NoSlot = NoSlot
  NoRun = NoRun
  NoJob = NoJob
  NoReport = NoReport
INVARIANTS
  TypeOK
  EveryCallAccounted
  RowsTellThreadsApart
PROPERTIES
  StoredRowsStable
  ImplementsLog
  WaitFree
CHECK_DEADLOCK FALSE
