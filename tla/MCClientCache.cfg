SPECIFICATION CSpec
CONSTANTS
    l1 = l1
    q1 = q1
    q2 = q2
    Lattices = {l1}
    Operations = {q1, q2}
    LatticeOf <- MCLatticeOf
    MaxVersions = 3
    Period = 2
INVARIANT FreshOnCreate
PROPERTY IdleEvacuated
CHECK_DEADLOCK FALSE
