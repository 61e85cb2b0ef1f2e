SPECIFICATION Spec
CONSTANTS
    Actors = {a1, a2}
    Clients = {c1, c2}
    Calls = {q1, q2}
    None = None
INVARIANTS LinkedRenews 
PROPERTY RenewalStops
CHECK_DEADLOCK FALSE
