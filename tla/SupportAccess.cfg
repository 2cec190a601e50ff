\* Two engineers connect, the owner decides twice, anybody ends, a socket listens.
SPECIFICATION FairSpec
CONSTANTS
    Session = {s1}
    User = {u1}
    Operator = {o1, o2}
    Admin = {}
    Category = {it}
    Skill <- AllSkills
    Code = {n1, n2}
    NoCode = NoCode
    None = None
    Request = {q1}
    Decision = {d1, d2}
    Call = {e1, e2}
    Keeper = {}
    Socket = {w1}
    PendingTTL = 1
    ActiveMaxAge = 2
    SweepEvery = 1
    MaxNMAttempts = 1
    Faults = FALSE
    Horizon = 0
INVARIANTS ActiveWasConfirmed EngineerKeepsSession
PROPERTIES TerminalIsFinal  EndedSocketCloses
CHECK_DEADLOCK FALSE
