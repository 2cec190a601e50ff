\* A second enrolment beside the confirmation of the first secret.
SPECIFICATION Spec
CONSTANTS
    k1 = k1
    k2 = k2
    Challenge = {}
    Code = {k1, k2}
    NoCode = NoCode
    None = None
    Request = {r1, r2}
    BackupCode = {b1}
    BatchSize = 1
    TotpCode <- AlternatingCode
    Skew = 1
    CodeTTL = 1
    ResendCooldown = 1
    MaxAttempts = 1
    MaxSecrets = 2
    MaxTime = 1
INVARIANTS ConfirmedWasProven
CHECK_DEADLOCK FALSE
