SPECIFICATION Spec
CONSTANTS
    Node = {n1, n2, n3}
    MAX_NODES = 2
    PENDING_MAX = 1
    Target = {}
    None = None
SYMMETRY Symmetry
INVARIANTS TypeOK NotificationAttributed ClientsNotShared NoOrphanLink NoLateClear StashFindsPlace 
