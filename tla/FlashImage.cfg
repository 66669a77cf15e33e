SPECIFICATION FairSpec
CONSTANTS
  Files <- ImageFiles
  SectorSize = 2
  BigSize = 4
  SparseHeaderLen = 2
  WordSize = 1024
INVARIANTS
  TypeOK
  TransmitInRange
  NoStray
  FlushedPrefix
  SuccessComplete
  ChunkCursor
PROPERTIES
  ImplementsImageWrite
  FileCompletes
