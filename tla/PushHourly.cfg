\* One request after another, the janitor forgetting the early pushes.
SPECIFICATION SerialSpec
CONSTANTS
    Challenge = {c1, c2, c3}
    Code = {}
    NoCode = NoCode
    None = None
    Request = {r1, r2, r3}
    Tab = {}
    Tap = {}
    Prefer <- PreferApp
    RadiusApp = TRUE
    RadiusTg = TRUE
    AppErrors = {FALSE}
    CodeTTL = 2
    PushCooldown = 1
    PushWait = 1
    Hour = 8
    PushPerHour = 2
    MaxGetFails = 2
    Horizon = 6
SYMMETRY Sym
INVARIANT HourlyLimitKept
CHECK_DEADLOCK FALSE
