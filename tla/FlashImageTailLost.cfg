SPECIFICATION Spec
CONSTANTS
  Files <- OneTail
  SectorSize = 2
  BigSize = 4
  SparseHeaderLen = 2
  WordSize = 1024
INVARIANT SuccessMeansWritten
