SPECIFICATION ScopedSpec
CONSTANTS
  Themes = {"account", "passkey", "cookies", "consent"}
  Call = {a, b}
  Flow = {f, g}
  Session = {1, 2}
  Device = {11}
  Challenge = {1, 2, 3, 4}
  Code = {k}
  NoCode = NoCode
  Password = {p, q}
  None = None
  OtherFactor = FALSE
  SessionTTL = 1
  DeviceTTL = 1
  CeremonyTTL = 1
  WindowTTL = 1
  MaxTime = 1
  Client = {k1, k2}
  Main = k1
  AuthCode = {1}
  Token = {1, 2}
  CodeLife = 1
  TokenLife = 1
SYMMETRY Sym
CHECK_DEADLOCK FALSE
INVARIANTS
  TypeOK
  OnlyEnabledEnter
  
  DeletedLeavesNothing
PROPERTIES
  PasskeyGrantSpec
  TokenGrantSpec
  
