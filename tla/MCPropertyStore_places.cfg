SPECIFICATION MCSpec
CONSTANTS
    None = None
    t1 = t1
    g1 = g1
    r1 = r1
    p1 = p1
    p2 = p2
    Tenants = {t1, t2}
    PropertyIds = {p1, p2, p3, p4}
    Places = {g1, g2}
    MaxBatch = 2
    Requests = {r1, r2}
INVARIANTS
    TypeOK
    UniquePlaces
PROPERTIES
    CommittedAsReported
    ChangesAreAudited
    OwnPropertiesOnly
    RequestsEnd
