SPECIFICATION Spec
CONSTANTS
    Actors = {a1, a2}
    Addrs <- MCAddrs
    LinkValues <- MCLinkValues
    Inputs <- MCInputs
    Servers = {s1, s2, s3}
    Requests = {r1}
    None = None
INVARIANTS ServersAccounted 
PROPERTIES  UnlinkedStops LinksKept
CHECK_DEADLOCK FALSE
