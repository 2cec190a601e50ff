\* Two devices of one user ask while sweeps run.
SPECIFICATION Spec
CONSTANTS
    Session = {s1, s2, s3}
    User = {u1}
    Operator = {o1}
    Admin = {o1}
    Category = {it}
    Skill <- AllSkills
    Code = {n1}
    NoCode = NoCode
    None = None
    Request = {q1, q2}
    Decision = {d1}
    Call = {e1}
    Keeper = {k1}
    Socket = {}
    PendingTTL = 1
    ActiveMaxAge = 1
    SweepEvery = 1
    MaxNMAttempts = 2
    Faults = TRUE
    Horizon = 2
SYMMETRY Sym
INVARIANTS TypeOK OneLiveSession
PROPERTIES OverdueNeverBlocks
CHECK_DEADLOCK FALSE
