SPECIFICATION Spec
CONSTANTS
  Tasks = {t1, t2, t3}
  WorkerIds = {w1, w2}
  None = None
  MaxWorkers = 2
  MaxQueueSize = 3
  Continuing = {}
  DependOnFinished = TRUE
  SpawnCanFail = FALSE
CHECK_DEADLOCK FALSE
INVARIANTS TerminalIsResolved
