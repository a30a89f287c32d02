SPECIFICATION SerialSpec
CONSTANTS
    None = None
    Users = {u1}
    SessionIds = {s1}
    Tokens = {k1, k2}
    MaxResets = 0
    Requests = {r1}
SYMMETRY Symmetry
PROPERTIES
    RevokedSessionRefused
