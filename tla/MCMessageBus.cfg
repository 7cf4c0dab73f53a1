CONSTANTS
    w1 = w1
    w2 = w2
    s1 = s1
    s2 = s2
    Worker <- TwoWorkers
    Service <- TwoServices
    Nothing = Nothing
    Question <- TwoQuestions
    MaxCrashes = 1
SPECIFICATION FairSpec
INVARIANTS MessageInOnePlace
PROPERTIES ImplementsRequestReply AnswerComes
CHECK_DEADLOCK FALSE
