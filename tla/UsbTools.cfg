SPECIFICATION FairSpec
CONSTANTS
  Phones <- TwoPhones
  SerialIn <- TheirSerials
  Serials <- CommandLines
  MaxAddress = 3
  MaxRetry = 2
  Faults = {FALSE, TRUE}
INVARIANTS
  TypeOK
  RefsCover
  AllReturned
  HandleTells
  SamePhone
  SuccessMeansGone
PROPERTIES
  ToolEnds
