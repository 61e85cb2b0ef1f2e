SPECIFICATION Spec
CONSTANTS
    t1 = t1
    t2 = t2
    HostConfig <- MCHostConfig
    LinkValues <- MCLinkValues
    HostConfigs <- MCHostConfigs
    Inputs <- MCInputs
    Actors = {a1, a2}
    Topics = {t1, t2}
    QueueTopics = {}
    Bundles = {b1, b2}
    Calls = {}
    Permits = 1
    None = None
INVARIANTS LinksListen LastHandlerWins ConfigLayered
PROPERTIES UnlinkedCloses LinksKept
CHECK_DEADLOCK FALSE
