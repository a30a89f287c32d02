SPECIFICATION Spec
CONSTANTS
    None = None
    Addresses = {a1}
    Workers = {w1}
    LockThreshold = 2
    LockTicks = 2
    RateLimit = 2
    RateTicks = 2
    BlockThreshold = 2
    WindowTicks = 2
    BlockTicks = 2
    AdminTicks = 3
INVARIANTS
    TypeOK
    CounterImpliesLock
PROPERTIES
    LockEnds
    RateLimitEnds
    BlockEnds
