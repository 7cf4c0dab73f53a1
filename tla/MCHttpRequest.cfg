SPECIFICATION Spec
CONSTANTS
  Token <- Tokens
  Requests <- Mixed
  MaxRequests = 3
  Cuts = "safe"
INVARIANTS
  HeadersKept
  
  
  CompleteIsServed
CHECK_DEADLOCK FALSE
