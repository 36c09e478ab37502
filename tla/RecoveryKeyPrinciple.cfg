SPECIFICATION RSpec
CONSTANTS
  Tasks = {t1, t2}
  WorkerIds = {w1, w2}
  None = None
  MaxWorkers = 1
  MaxQueueSize = 6
  Continuing = {}
  DependOnFinished = FALSE
  SpawnCanFail = FALSE
  MaxStops = 1
CHECK_DEADLOCK FALSE
INVARIANTS KeyPrinciple
