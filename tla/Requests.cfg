CONSTANTS
    x1 = x1
    x2 = x2
    ann = ann
    bob = bob
    lan = lan
    wan = wan
    Checks = {x1, x2}
    Accounts = {ann, bob}
    Sources = {lan, wan}
    Free <- MCFree
    Base = 1
    MaxLock = 2
    Forget = 1
    Limit = 2
    MaxFrames = 4
    r1 = r1
    h1 = h1
    Replicas = {r1}
    Handlers = {h1}
    Where <- MCWhere
    Kubeconfigs = {kc}
    Sessions = {cli}
    RowLife = 3
    Retention = 1
    AccessTTL = 2
    HoursPerDay = 2
    MinutesPerHour = 2
    YearLimit = 2
    Schedules <- MCSchedules
    Starts <- MCStarts
    Lasts = {0, 2, 9}
SPECIFICATION RequestsSpec
INVARIANTS
    CountsExact
    AllowanceKept
    PublicationsWhole
PROPERTIES
    HandshakeSettles
    GuessesDelay
    RevocationHolds
    NextIsFirst
CHECK_DEADLOCK FALSE
