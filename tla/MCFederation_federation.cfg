SPECIFICATION Spec
CONSTANTS
    Attempts = {1, 2}
    Calls = {1, 2, 3}
    Users = {u1, u2}
    Confs <- Configurations
    Timeout = 1
    MaxClock = 2
    Slots = {o1, o2}
    None = None
SYMMETRY Symmetry
INVARIANTS
    AcceptedOnce
    OwnAnswer
    SpNotForgotten
CHECK_DEADLOCK FALSE
