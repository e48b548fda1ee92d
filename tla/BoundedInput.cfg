\* A probe that writes up to four bytes against a limit of two, then a body of
\* up to five pieces, empty ones included, around a limit of four bytes.
SPECIFICATION ProcessSpec
CONSTANTS
    Limit = 2
    PipeSize = 2
    MaxBytes = 4
    MaxRequestBytes = 4
    ChunkSizes = {0, 1, 2, 3}
    MaxMessages = 5
INVARIANTS
    VersionIsWhole
    TreeIsDead
    BodyIsWhole
PROPERTIES
    ProbeEnds
\* The probe and the request end.
CHECK_DEADLOCK FALSE
