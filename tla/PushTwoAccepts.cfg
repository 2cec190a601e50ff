\* Two requests wait for the same push.
SPECIFICATION Spec
CONSTANTS
    Challenge = {c1, c2}
    Code = {}
    NoCode = NoCode
    None = None
    Request = {r1, r2}
    Tab = {}
    Tap = {a1}
    Prefer <- PreferApp
    RadiusApp = TRUE
    RadiusTg = TRUE
    AppErrors = {FALSE}
    CodeTTL = 2
    PushCooldown = 1
    PushWait = 1
    Hour = 4
    PushPerHour = 2
    MaxGetFails = 2
    Horizon = 2
INVARIANT OneAcceptPerApproval
CHECK_DEADLOCK FALSE
