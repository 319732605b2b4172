SPECIFICATION Spec
CONSTANTS
  MainThread = TRUE
  RAMMappers = {FALSE}
  F = 3
  TotalLines = 3
  Displays = {2}
  Compares = {0, 1}
  MaxNest = 2
  MaxDebt = 0
  Runaway = 9
  Ops <- GameOps
  Costs = {1, 4}
  MaxCyc = 10
  MaxFrames = 3
INVARIANTS
  HandlersSettle
  RequestsTakenOnce
  FramesKeepPace
PROPERTIES
  LineSchedule
