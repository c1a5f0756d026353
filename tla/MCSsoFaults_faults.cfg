SPECIFICATION Spec
CONSTANTS
    Handlers = {h1}
    Portals = {p1}
    Slots = {1}
    Id = {i1}
    Obj = {o1, o2, o3}
    Timeout = 1
    MemTime = 1
    Latency = 1
    Internal = 1
    NoId = NoId
    NoRef = NoRef
    NoSession = NoSession
    Waiting = Waiting
PROPERTIES
    RequestsAnswered
    PromiseKept
CHECK_DEADLOCK FALSE
