SPECIFICATION Spec
CONSTANTS
  header = header
  table = table
  body = body
  Segments <- Parts
  Plans <- ElfPlans
  PipeDepth = 2
  Faults = {TRUE}
INVARIANT AnswersRequest
