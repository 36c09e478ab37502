SPECIFICATION Spec
CONSTANTS
  Tasks = {t1, t2, t3}
  WorkerIds = {w1, w2}
  None = None
  MaxWorkers = 2
  MaxQueueSize = 3
  Continuing = {t3}
  DependOnFinished = FALSE
  SpawnCanFail = TRUE
CHECK_DEADLOCK FALSE
INVARIANTS TypeOK KeyPrinciple RowsMatchOutcome
           NoDuplicateProcessing PoolAgrees NotForgotten
PROPERTIES ResolutionIsFinal TerminalIsFinal
