\* Two tasks negotiate and a third creates a session over one client, which is
\* aborted and stopped meanwhile; the child may mix up the identities.
SPECIFICATION Spec
CONSTANTS
    None = None
    Probes = {p1, p2}
    Creators = {c1}
    SessionIds = {s1, s2, s3}
    Models = {m1, m2}
    MaxTeardowns = 2
SYMMETRY Symmetric
INVARIANTS
    IdentitiesAgree
    BoundModelIsUncontradicted
    NothingSurvivesTeardown
PROPERTIES
    StrategyIsFrozen
\* Every task may have ended and the transport may be closed for good.
CHECK_DEADLOCK FALSE
