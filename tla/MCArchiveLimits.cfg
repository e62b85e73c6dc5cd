SPECIFICATION Spec
CONSTANTS
  MaxU64 = 9
  MaxArchive = 8
  MaxEntries = 3
  MaxEntry = 3
  MaxTotal = 5
  MaxRatio = 2
  Small = 1
  MaxActual = 5
  Archives <- MCArchives
INVARIANTS
  ArchiveTypeOK
  WorkBounded
CHECK_DEADLOCK FALSE
