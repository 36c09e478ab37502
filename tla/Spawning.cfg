SPECIFICATION FairSpec
CONSTANTS
  Runs = {r1, r2, r3, r4}
  Tasks = {t1, t2, t3}
  None = None
  MinSpawnDelay = 2
  MaxQueueSize = 2
  SpawnCanFail = TRUE
CHECK_DEADLOCK FALSE
INVARIANTS TypeOK OneSpawnAtATime NoLostWakeup
PROPERTIES SpawnGap LockSpec EveryTaskSpawned
