CONSTANTS
    t1 = t1
    t2 = t2
    r1 = r1
    r2 = r2
    None = None
    Conns = {t1, t2}
    Replicas = {r1, r2}
    MaxRotations = 1
    StoreFails = TRUE
SPECIFICATION FairLifeSpec
INVARIANTS
    RegistryExact
PROPERTIES
    ClosedForCause
    TunnelsEnd
CHECK_DEADLOCK FALSE
