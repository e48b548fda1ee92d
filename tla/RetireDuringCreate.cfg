\* A session retired while it is being created.
SPECIFICATION Spec
CONSTANTS
    None = None
    Sessions = {s1}
    Invocations = {i1}
    CreateOps = {c1}
    PromptOps = {p1}
    CancelOps = {}
    RetireOps = {r1}
    MaxSessions = 1
    MaxOperations = 4
    MaxQueued = 0
PROPERTIES
    RetirementRejectsLaterWork
\* A lost generation stops for good.
CHECK_DEADLOCK FALSE
