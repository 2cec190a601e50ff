\* The engineer asks for a new number.
SPECIFICATION Spec
CONSTANTS
    Session = {s1}
    User = {u1}
    Operator = {o1, o2}
    Admin = {}
    Category = {it}
    Skill <- AllSkills
    Code = {n1, n2}
    NoCode = NoCode
    None = None
    Request = {q1}
    Decision = {d1}
    Call = {e1, e2}
    Keeper = {}
    Socket = {}
    PendingTTL = 1
    ActiveMaxAge = 2
    SweepEvery = 1
    MaxNMAttempts = 2
    Faults = FALSE
    Horizon = 0
PROPERTIES HolderMayReconnect
CHECK_DEADLOCK FALSE
