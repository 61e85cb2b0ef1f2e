SPECIFICATION FsSpec
CONSTANTS
    c1 = c1
    p1 = p1
    k1 = k1
    Clients = {c1}
    Paths = {p1}
    Containers = {k1}
    HomeOf <- MCHomeOf
    TargetOf <- MCTargetOf
    MaxChunks = 2
    MaxAttempts = 2
INVARIANTS   CancelSticks RangeServed
 
CHECK_DEADLOCK FALSE
