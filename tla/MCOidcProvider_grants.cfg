SPECIFICATION Spec
CONSTANTS
    Slot = {k1, k2}
    Client = {c1}
    Rotating = {c1}
    Offline = {c1}
    Token = {1, 2, 3, 4, 5}
    TtlCode = 0
    TtlAccess = 0
    TtlRefresh = 0
    Scenarios <- GrantsAndFailures
    Nothing = Nothing
    None = None
SYMMETRY Symmetry
INVARIANTS
    TypeOK
    HeldIsStored
    CodeOnce
    SpentStaysSpent
    GrantKept
CHECK_DEADLOCK FALSE
