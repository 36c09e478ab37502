SPECIFICATION RFairSpec
CONSTANTS
  Tasks = {t1, t2}
  WorkerIds = {w1, w2}
  None = None
  MaxWorkers = 1
  MaxQueueSize = 6
  Continuing = {t2}
  DependOnFinished = FALSE
  SpawnCanFail = TRUE
  MaxStops = 2
CHECK_DEADLOCK FALSE
INVARIANTS NothingLost
PROPERTIES RowsNeverReopen EveryTaskEnds
