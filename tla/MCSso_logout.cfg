SPECIFICATION Spec
CONSTANTS
    Handlers = {h1}
    Portals = {p1}
    Slots = {1}
    Id = {i1}
    Obj = {o1, o2, o3}
    Timeout = 4
    MemTime = 2
    Latency = 1
    MaxClock = 9
    Internal = 2
    TimeoutActivity = 0
    RefreshDelay = 1
    UpdateInserts = TRUE
    Faulty = FALSE
    Crashing = {p1}
    Requests = {"menu", "logout"}
    NoId = NoId
    NoRef = NoRef
    NoSession = NoSession
    Waiting = Waiting
INVARIANTS
    TypeOK
    LogoutTakesEffect
PROPERTIES
    PromiseKept
CHECK_DEADLOCK FALSE
