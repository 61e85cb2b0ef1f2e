SPECIFICATION Spec
CONSTANTS
    Actors = {a1, a2}
    Consumers = {c1, c2}
    Calls = {q1}
    MaxLog = 2
    None = None
 
PROPERTIES UnlinkedStops 
CHECK_DEADLOCK FALSE
