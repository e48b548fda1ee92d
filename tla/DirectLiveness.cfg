\* Every operation settles, a lost generation drains, and both look to a caller
\* like the abstract ledger.
SPECIFICATION FairSpec
CONSTANTS
    None = None
    Sessions = {s1, s2}
    Invocations = {i1}
    CreateOps = {c1, c2}
    PromptOps = {p1, p2}
    CancelOps = {x1}
    RetireOps = {}
    MaxSessions = 2
    MaxOperations = 5
    MaxQueued = 1
PROPERTIES
    
    EveryOperationSettles
    LedgerImplemented
\* A lost generation stops for good.
CHECK_DEADLOCK FALSE
