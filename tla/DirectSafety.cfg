\* Three prompts, two cancellations, a retirement, deadlines and losses over two
\* sessions and two invocations.
SPECIFICATION Spec
CONSTANTS
    None = None
    Sessions = {s1, s2}
    Invocations = {i1, i2}
    CreateOps = {c1, c2}
    PromptOps = {p1, p2, p3}
    CancelOps = {x1, x2}
    RetireOps = {r1}
    MaxSessions = 2
    MaxOperations = 6
    MaxQueued = 1
SYMMETRY Symmetric
INVARIANTS
    OutstandingIsOwned
    ReservationsAreExact
    SettledTruthfully
    CancelHitsItsTarget
    LossSettlesEverything
    StableSubmittedOnce
PROPERTIES
    DispatchIsFresh
    SettledForever
    DeltaContinuesActiveInvocation
\* A lost generation stops for good.
CHECK_DEADLOCK FALSE
