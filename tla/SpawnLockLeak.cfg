SPECIFICATION FairSpec
CONSTANTS
  Runs = {r1, r2, r3}
  Tasks = {t1, t2}
  None = None
  MinSpawnDelay = 1
  MaxQueueSize = 2
  SpawnCanFail = TRUE
CHECK_DEADLOCK FALSE
PROPERTIES LockAlwaysReleased
