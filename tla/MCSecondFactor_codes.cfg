SPECIFICATION MCSpec
CONSTANTS
    e1 = e1
    n1 = n1
    r1 = r1
    None = None
    Emails = {e1, e2}
    Phones = {n1}
    Account = e0
    Secrets = {s1, s2, s3}
    Codes = {k1, k2, k3}
    Links = {l1, l2, l3}
    Requests = {r1, r2}
INVARIANTS
    TypeOK
    VerifiedIsProven
PROPERTIES
    SecretsAcceptedOnce
    OnlyTheAcceptedCodeIsDeleted
    LoginCodeReachesItsUser
