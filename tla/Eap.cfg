\* One supplicant and a network that repeats, delays and loses.
SPECIFICATION MCSpec
CONSTANTS
    Client = {1, 2}
    Sess = {1, 2, 3}
    Handler = {1, 2}
    None = None
    Anon = Anon
    Method = {"peap", "ttls", "other"}
    Pieces = 2
    IdSpace = 16
    Cap = 2
    TTL = 2
    EvictIdle = 2
    PushWait = 1
    MaxDups = 1
    MaxLate = 1
    MaxLoss = 1
    MaxEarly = 1
    Horizon = 3
INVARIANTS TypeOK AcceptIsEarned SparedClientGetsVerdict
PROPERTIES ExchangeEnds
CHECK_DEADLOCK FALSE
