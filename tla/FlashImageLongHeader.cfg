SPECIFICATION Spec
CONSTANTS
  Files <- LongChunkHeader
  SectorSize = 2
  BigSize = 4
  SparseHeaderLen = 2
  WordSize = 1024
INVARIANT ChunkCursor
