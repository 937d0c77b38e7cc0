CONSTANTS
    Calls = {c1, c2, c3}
    BodyLimit = 3
    Budget = 5
    MaxChunk = 2
    Streams = {s1}
    Callers = {b1, b2}
    UrgentQueue = 2
    BulkQueue = 1
    UrgentBurst = 2
    Numbers = 3
    Uids = {n1, n2, n3}
    BufferSize = 2
    PageSize = 1
    MaxChanges = 4
SPECIFICATION PartsSpec
INVARIANTS
    TableExact
    WithinBounds
    LanesBounded
    RingWhole
PROPERTIES
    FramesInTurn
    RingCatchesUp
CHECK_DEADLOCK FALSE
