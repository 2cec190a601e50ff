SPECIFICATION ScopedSpec
CONSTANTS
  Themes = {"account"}
  Call = {a}
  Flow = {f}
  Session = {1}
  Device = {11}
  Challenge = {1}
  Code = {k}
  NoCode = NoCode
  Password = {p, q}
  None = None
  OtherFactor = FALSE
  SessionTTL = 1
  DeviceTTL = 1
  CeremonyTTL = 1
  WindowTTL = 1
  MaxTime = 0
  Client = {k1, k2}
  Main = k1
  AuthCode = {1}
  Token = {1}
  CodeLife = 1
  TokenLife = 1
CHECK_DEADLOCK FALSE
INVARIANT DisabledStays
