\* Three requests over two models, one after the other or crowding each other.
SPECIFICATION Spec
CONSTANTS
    None = None
    Requests = {r1, r2, r3}
    Models = {m1, m2}
    Conversations = {v1}
    SessionIds = {s1, s2, s3}
    MaxTurns = 4
SYMMETRY Symmetric
INVARIANTS
    KeysAreKept
    CalmClientIsServed
\* All requests may have been answered.
CHECK_DEADLOCK FALSE
