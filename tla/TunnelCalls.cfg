CONSTANTS
    c1 = c1
    c2 = c2
    Calls <- MCCalls
    BodyLimit = 6
    Budget = 4
    MaxChunk = 2
    Slice = 2
    AgentCap = 4
    Sizes = {0, 3, 4, 5}
    MaxConcurrent = 1
    CutBodies = FALSE
    RequestQueue = 1
    BulkQueue = 2
SPECIFICATION DeadlineSpec
INVARIANTS
    CallsTypeOK
    HonestAgentAccepted
PROPERTY KeepsContract
CHECK_DEADLOCK FALSE
