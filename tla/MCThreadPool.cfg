SPECIFICATION FairSpec
CONSTANTS
  t1 = t1
  t2 = t2
  t3 = t3
  t4 = t4
  NoTask = NoTask
  Task <- FourTasks
  MAX_THREADS = 3
  MAX_QUEUE = 3
  DefaultThreads = 2
  DefaultQueue = 2
  CreateArgs <- EveryPool
  CreateMayFail = TRUE
INVARIANTS
  RingConsistent
  ExactlyOnce
  NoSleeperNeeded
  JoinedAllStopped
  DrainedWhenFreed
PROPERTIES
  ImplementsTaskQueue
  AcceptedIsServed
  ShutdownEnds
CHECK_DEADLOCK FALSE
