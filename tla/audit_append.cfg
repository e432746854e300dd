SPECIFICATION FairSpec
CONSTANTS
  w1 = w1
  w2 = w2
  t1 = t1
  t2 = t2
  t3 = t3
  Process <- TwoProcesses
  Thread <- ThreeThreads
  Home <- HomeOfThree
  Trace = {r}
  NoThread = NoThread
  NoEvent = NoEvent
  FailClosed = TRUE
  MaxEvents = 3
  MaxVerify = 0
  MaxCrashes = 1
  MaxTampers = 0
INVARIANTS ChainIntact ReturnedIsStored
PROPERTIES Refines CallsEnd
CHECK_DEADLOCK FALSE
