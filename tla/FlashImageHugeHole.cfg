SPECIFICATION Spec
CONSTANTS
  Files <- HugeHole
  SectorSize = 2
  BigSize = 4
  SparseHeaderLen = 2
  WordSize = 16
INVARIANT NoStray
