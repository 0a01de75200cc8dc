SPECIFICATION Spec
CONSTANTS
  Threads = {t1, t2}
  Values = {v1, v2}
  NoList = NoList
  NoThread = NoThread
  Parts = 2
  AnyGeneration = TRUE
  MaxOps = 2
  MaxFaults = 1
PROPERTY RestoreWins
CHECK_DEADLOCK FALSE
