CONSTANTS
    Kinds = {"relay", "exec"}
    BufferChunks = 1
    BufferBytes = 3
    ChunkSizes = {1, 2}
    MaxChunks = 3
SPECIFICATION FairStreamSpec
INVARIANTS
    BudgetExact
PROPERTIES
    NothingLost
    StreamsEnd
CHECK_DEADLOCK FALSE
