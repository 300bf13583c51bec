SPECIFICATION FairSpec
CONSTANTS
  Main = main
  Workers = {main, w1, w2}
  WalkEvery = 2
  MaxSwitches = 1
  MaxTicks = 2
  MaxSamples = 4
INVARIANTS
  SamplerTypeOK
  StatsAreFinal
  CpuTicksCountedOnce
  SwitchesWithinRun
PROPERTIES
  StopReturns
CHECK_DEADLOCK FALSE
