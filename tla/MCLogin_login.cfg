SPECIFICATION Spec
CONSTANTS
    Slot = {k1, k2}
    User = {u1}
    Password = {p1, p2}
    Braced = {p2}
    CryptLike = {}
    MixedNames = {"userPassword"}
    UpperNames = {}
    Secret = {s1}
    Token = {t1}
    Confs <- Configurations
    UserCanRemove = TRUE
    Interval = 0
    DeviceTtl = 1
    Timeout = 0
    RegTimeout = 1
    MaxClock = 2
    Lists <- DeviceLists
    Enrolment = {e1, e2}
    Object = {o1}
    Changes = TRUE
    Faulty = TRUE
    None = None
    Absent = Absent
    WrongCode = WrongCode
    Malformed = Malformed
    Gone = Gone
SYMMETRY Symmetry
INVARIANTS
    VerifiedIsSpent
    SecondFactorKept
    AcknowledgedPasswordDecides
    AcknowledgedTokenIsSpent
    AcknowledgedDevicesStay
CHECK_DEADLOCK FALSE
