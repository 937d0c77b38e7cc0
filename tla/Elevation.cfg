CONSTANTS
    r1 = r1
    r2 = r2
    c1 = c1
    c2 = c2
    p1 = p1
    p2 = p2
    asker = asker
    admin = admin
    None = None
    Requests = {r1, r2}
    Users = {asker, admin}
    Admins = {asker, admin}
    Requester = asker
    Calls = {c1, c2}
    Replicas = {p1, p2}
    Lasts <- MCLasts
    MaxTime = 2
    Blanket = TRUE
SPECIFICATION MCSpec
INVARIANTS
    GrantBacked
    TrailAgrees
PROPERTIES
    KeepsElevationContract
    LivePageSettles
CHECK_DEADLOCK FALSE
