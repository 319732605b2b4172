SPECIFICATION Spec
CONSTANTS
  NImages = 2
  Room <- TwoAndOne
  Blocks = {x, y}
  Names = {A, B}
  Values = {2}
  Positions = {0}
  Patterns <- Listing
  DriveSets = {1, 2}
  Habits <- Careful
  x = x
  y = y
  A = A
  B = B
SYMMETRY Interchangeable
INVARIANTS
  ContentsAreKept
  OpenOnMounted
  SearchFindsAll
PROPERTIES
  ImplementsFloppies
  WritesLandWhereNamed
