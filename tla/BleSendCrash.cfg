SPECIFICATION Spec
CONSTANTS
    Node = {n1}
    MAX_NODES = 1
    PENDING_MAX = 1
    Target = {n1}
    None = None
SYMMETRY Symmetry
PROPERTY SendNeverCrashes
