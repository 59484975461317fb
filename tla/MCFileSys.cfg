SPECIFICATION Spec
CONSTANTS
  Name = {a, b}
  Handle = {h1, h2}
  NULL = NULL
  NSectors = 8
  DirSize = 2
  BLOCK_SECTOR_SIZE = 2
  Length = {1, 3}
  Offset = {0, 1, 2, 4}
  Byte = {1}
  ShortReads = FALSE
SYMMETRY Symmetry
INVARIANTS
  DiskIsSound
  FreeMapExact
  OpenCountsExact
PROPERTIES
  ImplementsFileStore
