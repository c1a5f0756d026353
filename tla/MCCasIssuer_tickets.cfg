SPECIFICATION Spec
CONSTANTS
    Slot = {k1, k2}
    Session = {s1}
    Service = {a, b}
    Registered = {a, b}
    AllowProxy = {a}
    LogoutApps = {a, b}
    StepUp = {}
    Strong = {}
    Policy = "error"
    Ticket = {t1, t2, t3}
    TtlST = 0
    TtlPT = 0
    TtlPGT = 1
    Scenarios <- TicketsAndLogouts
    NoTicket = NoTicket
    None = None
SYMMETRY Symmetry
INVARIANTS
    TypeOK
    SpentStaysSpent
    PgtsDelivered
    NoAppForgotten
CHECK_DEADLOCK FALSE
