SPECIFICATION Spec
CONSTANTS
  Segments = 4
  Values = {0, 1}
  HasMapper = TRUE
  SoundCart = TRUE
  RomPages = {}
  MapPages = {1, 2, 3}
  Habits <- Careful
INVARIANTS
  MemoryIsShared
PROPERTIES
  ImplementsPagedRam
