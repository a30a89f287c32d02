SPECIFICATION Spec
CONSTANTS
    None = None
    Requests = {r1, r2}
    Values = {v1, v2}
SYMMETRY Symmetry
INVARIANTS
    TypeOK
PROPERTIES
    OnlySentFieldsChange
    RefreshStoresPayload
    SecretRotationSticks
