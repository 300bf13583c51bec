SPECIFICATION Spec
CONSTANTS
  Main = main
  Workers = {main, w1}
  WalkEvery = 2
  MaxSwitches = 1
  MaxTicks = 0
  MaxSamples = 4
INVARIANTS
  WalkedSwitchesReported
CHECK_DEADLOCK FALSE
