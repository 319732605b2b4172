SPECIFICATION SnapSpec
CONSTANTS
  Segments = 4
  Values = {1}
  HasMapper = TRUE
  SoundCart = TRUE
  RomPages = {}
  MapPages = {2}
  Habits <- Careful
INVARIANTS
  SameRAMLoaded
PROPERTIES
  LoadRestores
