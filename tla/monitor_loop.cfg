SPECIFICATION FairSpec
CONSTANTS
  Thread = {t1, t2}
  NoThread = NoThread
  MaxAlerts = 2
  FailClosed = TRUE
INVARIANTS OneLoop
PROPERTIES AlertsKept StopEnds LoopLives
