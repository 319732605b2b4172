CONSTANTS
  ByteSize = 8
  MaxStack = 2
  Images <- MCImages
  CellAt <- MCCellAt
  Cells = 32
  BankCells = 8
  Pages <- MCPages
  Initial <- MCInitial
  Selects <- MCSelects
  RamFrom = 32
  HookArea <- MCHookArea
  Entries <- MCEntries
  Tables <- MCTables
  ForceData = {15}
  StopAfterCall = {}
  MaxStates = 28
  Reports <- MCReports
  Rounds = 3
  Traces = 3
  Discoveries = 2
  Junk = {3, 6}
  Free <- AllFree
  Fewer <- SomeFree
  Kinds = {"paging", "dispatch", "pushing", "hooking"}
SPECIFICATION Spec
INVARIANTS
  WalksAreSound
  Closed
PROPERTIES
  Terminates
CHECK_DEADLOCK FALSE
