SPECIFICATION Spec
CONSTANTS
  Steps = 3
  StreamMax = 2
PROPERTIES
  DeadlineHolds
CHECK_DEADLOCK FALSE
