CONSTANTS
    c1 = c1
    c2 = c2
    Calls <- MCCalls
    BodyLimit = 6
    Budget = 4
    MaxChunk = 2
    Slice = 2
    AgentCap = 4
    Sizes = {3}
    MaxConcurrent = 1
    CutBodies = TRUE
    RequestQueue = 1
    BulkQueue = 2
SPECIFICATION FairCallsSpec
INVARIANT WholeBodies
PROPERTIES
    AnsweredUnlessLost
    SlotsComeBack
CHECK_DEADLOCK FALSE
