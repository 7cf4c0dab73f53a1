SPECIFICATION FrontSpec
CONSTANTS
  w1 = w1
  w2 = w2
  a = a
  b = b
  None = None
  Worker <- TwoWorkers
  Value <- TwoValues
  IdText <- TwoIds
  MaxId = 2
  Careful = TRUE
  Messages <- Sent
INVARIANTS
  UniqueIds
  
  ReadIsServed
PROPERTIES
  
  ImplementsCollection
SYMMETRY FrontSymmetry
