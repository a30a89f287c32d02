SPECIFICATION SerialSpec
CONSTANTS
    None = None
    Users = {u1, u2}
    SessionIds = {s1, s2}
    Tokens = {k1, k2, k3, k4}
    MaxResets = 1
    Requests = {r1, r2}
SYMMETRY Symmetry
INVARIANTS
    TypeOK
    SessionHoldsItsToken
    SerialResetEndsOldSessions
PROPERTIES
    RevocationIsFinal
    OwnSessionsOnly
    SerialRefreshTokenUsedOnce
