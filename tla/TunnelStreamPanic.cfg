CONSTANTS
    Kinds = {"relay", "exec", "events"}
    BufferChunks = 1
    BufferBytes = 3
    ChunkSizes = {1, 2}
    MaxChunks = 3
SPECIFICATION StreamSpec
INVARIANT LoopSurvivesStreams
CHECK_DEADLOCK FALSE
