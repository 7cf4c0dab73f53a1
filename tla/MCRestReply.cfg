SPECIFICATION Spec
CONSTANTS
  w1 = w1
  w2 = w2
  a = a
  None = None
  Worker <- TwoWorkers
  Value <- OneValue
  IdText <- TwoIds
  MaxId = 2
  Careful = FALSE
INVARIANT
  ReplyIsOwn
