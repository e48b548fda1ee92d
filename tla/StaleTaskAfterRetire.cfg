\* A task cancelled before its dispatch outlives the retirement of its session.
SPECIFICATION Spec
CONSTANTS
    None = None
    Sessions = {s1, s2}
    Invocations = {i1}
    CreateOps = {c1, c2}
    PromptOps = {p1, p2}
    CancelOps = {x1}
    RetireOps = {r1}
    MaxSessions = 2
    MaxOperations = 6
    MaxQueued = 1
PROPERTIES
    TombstonesStay
\* A lost generation stops for good.
CHECK_DEADLOCK FALSE
