SPECIFICATION Spec
CONSTANTS
  Inf = 1000
  start <- MCStart
  V <- MCV
  H <- MCH
  Graphs <- MCGraphs
INVARIANT DistancesAreShortest
CHECK_DEADLOCK FALSE
