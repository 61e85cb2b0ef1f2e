SPECIFICATION Spec
CONSTANTS
    Actors = {a1, a2}
    Conns = {c1, c2}
    Calls = {q1, q2}
    MaxI32 = 1
    MaxI64 = 2
    MaxLen = 2
    None = None
INVARIANTS InUseIsLinked 
PROPERTY WaitersServed
CHECK_DEADLOCK FALSE
