SPECIFICATION Spec
CONSTANTS
  f1 = f1
  f2 = f2
  w1 = w1
  w2 = w2
  None = None
  FD <- TwoFDs
  Worker <- OneWorker
  QueueSize = 1
  MaxBacklog = 1
  AddMayFail = TRUE
INVARIANTS
  NoTimerWhileServed
  ArmedIsWatched
SYMMETRY ReactorSymmetry
