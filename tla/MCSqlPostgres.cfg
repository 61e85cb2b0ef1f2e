SPECIFICATION Spec
CONSTANTS
    Actors = {a1, a2}
    Pools = {p1, p2}
    Calls = {q1, q2}
    LinkValues <- MCLinkValues
    ResultSets <- MCResultSets
    None = None
INVARIANT ConnectionsAccounted
PROPERTIES WaitersServed LinksKept
CHECK_DEADLOCK FALSE
