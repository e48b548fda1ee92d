\* Every start and every shutdown, for every combination of options.
SPECIFICATION FairSpec
INVARIANTS
    LossReachesService
    ShutdownIsOrderly
PROPERTIES
    ReadinessIsTrue
    LossOrSignalEnds
\* The process ends.
CHECK_DEADLOCK FALSE
