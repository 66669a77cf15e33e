SPECIFICATION Spec
CONSTANTS
  Phones <- TwoPhones
  SerialIn <- TheirSerials
  Serials <- CommandLines
  MaxAddress = 3
  MaxRetry = 2
  Faults = {TRUE}
INVARIANT GoneMeansGone
