\* Two terminals, one of whose commands leaves a descendant behind.
SPECIFICATION FairTerminalsSpec
CONSTANTS
    Terms = {t1, t2}
    Leaving = {t2}
    Free = Free
    PipeSize = 1
    MaxWrites = 2
    MaxWaits = 2
INVARIANTS
    TerminalsAgree
PROPERTIES
    CallsComeBack
\* The commands end and their terminals are released.
CHECK_DEADLOCK FALSE
