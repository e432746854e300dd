SPECIFICATION Spec
CONSTANTS
  w1 = w1
  w2 = w2
  t1 = t1
  t2 = t2
  t3 = t3
  Process <- TwoProcesses
  Thread <- TwoThreads
  Home <- HomeOfTwo
  Trace = {r}
  NoThread = NoThread
  NoEvent = NoEvent
  FailClosed = TRUE
  MaxEvents = 2
  MaxVerify = 1
  MaxCrashes = 0
  MaxTampers = 0
PROPERTIES NoFalseAlarm
CHECK_DEADLOCK FALSE
