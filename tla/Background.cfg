CONSTANTS
    p1 = p1
    p2 = p2
    e1 = e1
    e2 = e2
    Former = Former
    Replicas = {p1, p2}
    Ahead <- MCAhead
    Skew = 2
    ClusterAhead = 1
    LeaseTTL = 2
    MaxAge = 1
    Events = {e1, e2}
    Late = 1
    Records = {v1, v2, v3}
    Ordinary = {v1}
    Collectors = {w1}
    QueueSize = 2
    BatchSize = 2
    q1 = q1
    q2 = q2
    q3 = q3
    here = here
    there = there
    Clusters = {here, there}
    Keys = {q1, q2, q3}
    ClusterOf <- MCClusterOf
    Life <- MCLife
    DefaultTTL = 1
    MaxEntries = 2
    Readers = {k1, k2}
    Writers = {y1}
    MaxWrites = 1
SPECIFICATION BackgroundSpec
INVARIANTS
    OneWatcher
    EachOffersOnce
    TrailKept
    EntriesSound
PROPERTIES
    WatchTakenUp
    SinkDelivers
    CacheSettles
CHECK_DEADLOCK FALSE
