SPECIFICATION Spec
CONSTANTS
    Slot = {k1, k2}
    Client = {"c1", "c2", "c3"}
    Confs <- Configurations
    Uris <- Places
    Requests <- Registrations
    MaxKey = 2
    EncPems <- Rotations
    Ttl = 1
    AssertionTtl = 1
    MaxClock = 2
    Faulty = TRUE
    None = None
    Never = Never
    NoKey = NoKey
SYMMETRY Symmetry
INVARIANTS
    KeyFresh
    RegistrationKept
    AllAreTold
    JwksDecrypts
    ReturnsHome
CHECK_DEADLOCK FALSE
