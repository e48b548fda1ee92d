\* Both modes: requests, callbacks, losses and overlapping stops.
SPECIFICATION FairSpec
CONSTANTS
    Calls = {c1, c2}
    Callbacks = {k1, k2}
    Owners = {o1, o2}
    MaxTasks = 1
INVARIANTS
    NoRequestOutlivesTransport
    StopLeavesNothingRunning
PROPERTIES
    NoResponseIsDropped
    StopEndsEveryCall
\* A stopped transport stops for good.
CHECK_DEADLOCK FALSE
