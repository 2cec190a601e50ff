\* A web login from two tabs with two answers; a RADIUS request beside a web
\* login that may fall back to Telegram.
SPECIFICATION MeetingSpec
CONSTANTS
    Challenge = {1, 2, 3}
    Code = {}
    NoCode = NoCode
    None = None
    Request = {r1}
    Tab = {1, 2}
    Tap = {1, 2}
    Prefer <- PreferBoth
    RadiusApp = TRUE
    RadiusTg = TRUE
    AppErrors = {FALSE, TRUE}
    CodeTTL = 2
    PushCooldown = 1
    PushWait = 1
    Hour = 4
    PushPerHour = 2
    MaxGetFails = 2
    Horizon = 1
INVARIANTS TypeOK SessionOncePerPush GrantWasApproved PurposeIsolation
PROPERTIES NoSessionAfterMiss WebGrantSpec RequestAnswered LoginSettled
CHECK_DEADLOCK FALSE
