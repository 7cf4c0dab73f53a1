SPECIFICATION FairSpec
CONSTANTS
  f1 = f1
  f2 = f2
  w1 = w1
  w2 = w2
  None = None
  FD <- OneFD
  Worker <- TwoWorkers
  QueueSize = 1
  MaxBacklog = 1
  AddMayFail = FALSE
INVARIANTS
  OneOwner
  NoLeak
PROPERTIES
  DataIsRead
  ResetIsClosed
