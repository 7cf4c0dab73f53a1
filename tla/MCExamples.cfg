CONSTANTS
    t1 = t1
    t2 = t2
    t3 = t3
    o1 = o1
    o2 = o2
    Key <- Keys
    INT_MIN = 0
    MaxSize = 4
    MaxLevel = 3
    Value <- Values
    MaxLength = 4
    Byte <- Bytes
    MaxText = 3
    Caller <- Callers
    None = None
    Watcher <- Observers
    SubjectState <- TwoStates
    Unset = "unset"
    LastOnly = TRUE
SPECIFICATION Spec
INVARIANTS SearchFindsWhatIsThere SortedAndSame RoundTrip OneInstance EveryoneIsTold
CHECK_DEADLOCK FALSE
