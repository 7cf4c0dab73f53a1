SPECIFICATION FairSpec
CONSTANTS
  r1 = r1
  r2 = r2
  n1 = n1
  n2 = n2
  n3 = n3
  None = None
  Request <- TwoRequests
  Node <- ThreeNodes
  Timeouts <- ThreeTimeouts
  TIMER_TIME_OUT = 1
INVARIANTS
  OnlyLinkedNodeCounts
PROPERTIES
  ClosedOnlyWhenExpired
  SweepTakesAllExpired
  DeletedNodeGoes
  ExpiredIsReaped
