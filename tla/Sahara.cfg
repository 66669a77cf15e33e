SPECIFICATION FairSpec
CONSTANTS
  header = header
  table = table
  body = body
  Segments <- Parts
  Plans <- EveryPlan
  PipeDepth = 2
  Faults = {FALSE, TRUE}
INVARIANTS
  TypeOK
  ImageIntact
  AnswersInTime
PROPERTY Delivered
