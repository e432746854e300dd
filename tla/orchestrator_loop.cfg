SPECIFICATION Spec
CONSTANTS
  Step <- Steps3
  ReadOnly <- ReadTools
  MaxPlan = 2
  MaxSteps = 3
  FailClosed = TRUE
INVARIANTS LoopReadOnly KeepsResults TrailComplete
PROPERTIES BlockedStops
CHECK_DEADLOCK FALSE
