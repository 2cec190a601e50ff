\* Logins, verifications and cabinet operations in two goroutines at once.
SPECIFICATION ScopedSpec
CONSTANTS
    k1 = k1
    k2 = k2
    Challenge = {c1, c2}
    Code = {k1, k2}
    NoCode = NoCode
    None = None
    Request = {r1, r2}
    BackupCode = {b1, b2}
    BatchSize = 1
    TotpCode <- AlternatingCode
    Skew = 1
    CodeTTL = 1
    ResendCooldown = 1
    MaxAttempts = 2
    MaxSecrets = 2
    MaxTime = 2
SYMMETRY Sym
INVARIANTS TypeOK FactorSpentOnce 
PROPERTIES PurposeKept 
CHECK_DEADLOCK FALSE
