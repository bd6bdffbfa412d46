CONSTANTS
  Workers = {w1, w2}
  Main = main
  None = none
  a = a
  b = b
  k1 = k1
  k2 = k2
  k3 = k3
  Tasks <- SoloTasks
  Batches <- SoloBatches
  Kids <- NoKids
  IdleTasks = {i}
  CAPACITY = 2
  max_threads = 2
  WarmCount = 0
  MaxSpawnFails = 0
  DropEarly = FALSE
SPECIFICATION FairSpec
PROPERTY IdleTasksRun
