SPECIFICATION Spec
CONSTANTS
    MaxLen = 4
    max_chunk_size = 2
    MaxVersions = 1
    LinkValues <- MCLinkValues
    Names <- MCNames
INVARIANTS ChunksMatchObject DoneIsWhole LastIsLast
PROPERTY StreamEnds
CHECK_DEADLOCK FALSE
