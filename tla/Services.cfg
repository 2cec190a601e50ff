SPECIFICATION ServicesSpec
CONSTANTS
  Themes = {"lists", "bans", "rate", "trust", "locks", "hub", "device", "limit", "grace", "start", "edit"}
  None = None
  Guest = x
  Lone = m
  Server = p1
  Horizon = 4
  Visit = {v, w}
  Curator = {k}
  Address = {x, y, z}
  Loopback = {}
  Trusted = {y}
  Forged = z
  Header <- Headers
  Net = {{x}}
  ListTTL = 1
  BanWindow = 2
  BanTime = 2
  MaxFail = 2
  MaxTables = 2
  Caller = {c, d}
  Keys <- KeyLists
  TokenRate = 1
  TokenBurst = 2
  BucketIdle = 2
  SweepEvery = 1
  MaxKeys = 1
  Attempt = {a, b}
  Station = {s1}
  Days = {0, 1}
  RequireMA = TRUE
  FailWindow = 1
  LockTime = 1
  MaxFails = 2
  RadiusWindow = 1
  MaxFailPerUser = 2
  Retention = 1
  Socket = {c1}
  Stream = {t1}
  Place = {u}
  Sender = {r1, r2}
  QueueCap = 1
  Nowhere = Nowhere
  Device = {d1}
  Client = {a1, a2}
  DeviceLife = 2
  RenewWindow = 1
  Posture = {p}
  Licences <- Files
  FreeUserLimit = 1
  LicenceGrace = 0
  OverGrace = 2
  Creator = {m, n}
  MaxUsers = 2
  Process = {p1, p2}
  Task = {k1, k2}
  Secret = {h0, h1, h2, h3, h4, h5, h6, h7, h8}
  Typed = h0
  FirstToken = h1
  Plain = {g}
  Default = g
  Mask = Mask
  Broken = Broken
CHECK_DEADLOCK FALSE

  
  
PROPERTIES
  
  
  BroadcastEnds
  NothingLingers
  RevokedStaysOut
  
