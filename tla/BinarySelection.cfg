\* Three paths and two replacements anywhere between the first look and the start.
SPECIFICATION Spec
CONSTANTS
    Paths <- MCPaths
    Versions <- MCVersions
    Minimum = 2
    MaxChanges = 2
    Absent = Absent
    Broken = Broken
    None = None
INVARIANTS
    NotOlderThanASteadyOne
    GivesUpRightly
\* The child runs, or the start failed.
CHECK_DEADLOCK FALSE
