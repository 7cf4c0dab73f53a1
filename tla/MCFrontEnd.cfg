CONSTANTS
    w1 = w1
    w2 = w2
    c1 = c1
    c2 = c2
    Worker <- TwoWorkers
    Conn <- TwoConns
    Nothing = Nothing
    Question <- TwoQuestions
    Request <- SomeRequests
    MaxRequests = 2
    QueueSize = 1
    Pipelining = FALSE
SPECIFICATION FairSpec
INVARIANTS AnswersInOrder
PROPERTIES AnsweredOrClosed
CHECK_DEADLOCK FALSE
