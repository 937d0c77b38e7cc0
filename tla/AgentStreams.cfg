CONSTANTS
    session = session
    body = body
    Ids = {session, body}
    Upgrades = {session}
    Sizes = {1}
    InputFrames = 1
    InputBytes = 2
    MinBackoff = 1
    MaxBackoff = 2
SPECIFICATION FairAgentSpec
INVARIANTS
    InputExact
    NoStreamOutlivesTunnel
    CutBodyIsTold
PROPERTIES
    GoroutinesEnd
CHECK_DEADLOCK FALSE
