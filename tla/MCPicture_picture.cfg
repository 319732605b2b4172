CONSTANTS
  Programs <- MCPrograms
  Does <- MCDoes
  Pages = {0, 1}
  Columns = {0, 1, 2, 3}
  Rows = {0, 1, 2, 255}
  Across = {0, 8, 23, 60, 247, 255}
  Down = {0, 20, 35, 191}
SPECIFICATION MCSpec
INVARIANTS
  SeenAsDrawn
PROPERTIES
  IsACanvas
  StatusAsShown
CHECK_DEADLOCK FALSE
