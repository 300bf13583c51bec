SPECIFICATION Spec
CONSTANTS
  Matrices <- SmallMatrices
  Fixed <- ProcessGenerator
  Scheme <- WideScheme
  Entity = "subscription"
  MaxRuns = 4
  Second = 2
  RunTimes = {2}
  SetBacks = {1, 3}
  MaxSetBacks = 1
  NoMeta = NoMeta
  NoPlot = NoPlot
INVARIANTS
  TypeOK
  MatrixCovered
  CompleteRunsPlotted
PROPERTIES
  ResultsKept
CHECK_DEADLOCK FALSE
