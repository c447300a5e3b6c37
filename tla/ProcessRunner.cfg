SPECIFICATION FairSpec
CONSTANTS
  Steps = 3
  StreamMax = 2
INVARIANTS
  TypeOK
  StreamIsInOrder
  AnswersAreTrue
  CallCoversWorker
PROPERTIES
  CallEnds
CHECK_DEADLOCK FALSE
