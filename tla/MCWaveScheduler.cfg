SPECIFICATION Spec
CONSTANTS
  a = a  b = b  c = c  d = d
  Targets = {a, b, c, d}
  Graphs <- MCGraphs
  MaxWorkers = 2
  MaxIterations = 3
INVARIANTS CalleesFirst NothingReadyLeft EveryWaveIsNew
PROPERTY EveryRunEnds
CHECK_DEADLOCK FALSE
