SPECIFICATION Spec
CONSTANTS
    t1 = t1
    t2 = t2
    HostConfig <- MCHostConfig
    LinkValues <- MCDeliveryValues
    HostConfigs = {}
    Inputs = {}
    Actors = {a1}
    Topics = {t1}
    QueueTopics = {t1}
    Bundles = {b1, b2}
    Calls = {q1, q2}
    Permits = 1
    None = None
INVARIANT TypeOK
PROPERTIES CallsProceed TakenDispatched
CHECK_DEADLOCK FALSE
