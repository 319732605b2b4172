SPECIFICATION Spec
CONSTANTS
  NClusters = 3
  Spc = 2
  NDir = 2
  Names = {"A", "B"}
  Contents <- Several
  Values = {1, 2}
  RawSectors <- OneSector
  Subdirs = {0, 1}
INVARIANTS
  SoundUntilTorn
  NothingLost
PROPERTIES
  ImplementsFileStore
