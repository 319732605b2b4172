SPECIFICATION Spec
CONSTANTS
  MainThread = FALSE
  RAMMappers = {FALSE, TRUE}
  F = 4
  TotalLines = 4
  Displays = {2, 3}
  Compares = {0}
  MaxNest = 2
  MaxDebt = 1
  Runaway = 2
  Ops <- HandlerOps
  Costs = {1, 5}
  MaxCyc = 14
  MaxFrames = 3
INVARIANTS
  InterruptsAreFrames
  RunawayStops
  NoBurst
