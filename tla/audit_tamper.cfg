SPECIFICATION Spec
CONSTANTS
  w1 = w1
  w2 = w2
  t1 = t1
  t2 = t2
  t3 = t3
  Process <- TwoProcesses
  Thread <- TwoThreads
  Home <- HomeOfTwo
  Trace = {r}
  NoThread = NoThread
  NoEvent = NoEvent
  FailClosed = FALSE
  MaxEvents = 3
  MaxVerify = 2
  MaxCrashes = 1
  MaxTampers = 1
PROPERTIES  AlarmExplained
CHECK_DEADLOCK FALSE
