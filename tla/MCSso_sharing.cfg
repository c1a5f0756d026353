SPECIFICATION Spec
CONSTANTS
    Handlers = {h1}
    Portals = {p1}
    Slots = {1, 2}
    Id = {i1, i2}
    Obj = {o1, o2, o3, o4, o5}
    Timeout = 1
    MemTime = 1
    Latency = 1
    MaxClock = 2
    Internal = 1
    TimeoutActivity = 0
    RefreshDelay = 1
    UpdateInserts = TRUE
    Faulty = TRUE
    Crashing = {}
    Requests = {}
    NoId = NoId
    NoRef = NoRef
    NoSession = NoSession
    Waiting = Waiting
INVARIANTS
    OwnSession
    CookieImpliesStored
CHECK_DEADLOCK FALSE
