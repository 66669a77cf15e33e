\* Real sizes of the stacks; a small word, and a buffer a little longer than
\* the stacks.
CONSTANTS
  BufferSize = 24
  PostfixSize = 16
  NumberListSize = 8
  OperatorSize = 16
  CalculationSize = 8
  DigitLimit = 4
  WordSize = 32768
  DiskDigits <- MCDiskDigits
  Documents <- MCDocuments
  Files <- MCFiles
  Present <- MCPresent
  TooLong <- MCTooLong
  SimlockOptions = {"", "simlock", "other"}
  Garbage = Garbage
SPECIFICATION Spec
CHECK_DEADLOCK FALSE
INVARIANTS
  TypeOK
  ValueMatches
  UsualOrder
  ShortTextsFit
  LineDecides
PROPERTIES
  FileEnds
