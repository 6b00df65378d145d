SPECIFICATION Spec
CONSTANTS
    r1 = r1
    r2 = r2
    Logins = {l1}
    Requests = {r1, r2}
    Passwords = {old, new}
    Lifetime = 4
    Idle = 3
    Touch = 2
    MaxSessions = 2
    MaxResets = 1
    MaxTime = 4
SYMMETRY Symmetry
INVARIANT ResetEndsEverySession
PROPERTIES RevokedStaysRevoked ExpiryIsJustified
CHECK_DEADLOCK FALSE
