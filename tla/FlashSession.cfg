SPECIFICATION FairSpec
CONSTANTS
  Runs <- SomeRuns
  Pieces = 2
  PowerTries = 2
INVARIANTS
  TypeOK
  NoMisread
  AnswersMatch
  DoneMeansDone
PROPERTIES
  Termination
  HealthyRunSucceeds
