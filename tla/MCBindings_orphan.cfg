SPECIFICATION SerialSpec
CONSTANTS
    t1 = t1
    t2 = t2
    p1 = p1
    p2 = p2
    None = None
    Tenants = {t1, t2}
    Properties = {p1, p2}
    Connectors = {c1}
    BindingIds = {b1, b2}
    Requests = {r1, r2}
    OwnerOf <- MCOwnerOf
SYMMETRY Symmetry
INVARIANTS
    DeletedHasNoActiveBinding
