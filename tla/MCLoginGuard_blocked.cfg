SPECIFICATION Spec
CONSTANTS
    None = None
    Addresses = {a1}
    Workers = {w1}
    LockThreshold = 2
    LockTicks = 1
    RateLimit = 1
    RateTicks = 1
    BlockThreshold = 2
    WindowTicks = 1
    BlockTicks = 1
    AdminTicks = 1
PROPERTIES
    BlockRefusesLogins
