SPECIFICATION FsSpec
CONSTANTS
  Name = {a, b}
  Byte = {x, y}
  Garbage = Garbage
  MaxNodes = 4
  PageSize = 2
  MemPages = 7
  ScratchPaths = 1
  MaxPath = 3
  MaxChunk = 2
  MaxFile = 5
SYMMETRY NameAndByteSymmetry
INVARIANTS
  NothingLost
PROPERTIES
  ImplementsStore
