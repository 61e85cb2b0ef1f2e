SPECIFICATION Spec
CONSTANTS
    Actors = {a1, a2}
    Links = {k1, k2}
    Calls = {q1}
    LinkValues <- MCLinkValues
    Environment <- MCEnvironment
    ParameterEnds <- MCParameterEnds
    RowEnds <- MCRowEnds
    None = None
INVARIANTS  ValuesKept
PROPERTY LinksKept
CHECK_DEADLOCK FALSE
