SPECIFICATION Spec
CONSTANTS
    None = None
    Requests = {r1}
    Values = {v1, v2}
SYMMETRY Symmetry
PROPERTIES
    UpdateStoresPayload
