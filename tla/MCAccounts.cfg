CONSTANTS
    t1 = t1
    t2 = t2
    u1 = u1
    p1 = p1
    p2 = p2
    Thread <- TwoThreads
    User <- OneUser
    Passwd <- TwoPasswds
    BadUser = BadUser
    BadPasswd = BadPasswd
    Nothing = Nothing
    MaxRows = 2
    Careful = TRUE
SPECIFICATION Spec
INVARIANTS NamesAreUnique
 
CHECK_DEADLOCK FALSE
