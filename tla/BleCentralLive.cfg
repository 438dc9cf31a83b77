SPECIFICATION FairSpec
CONSTANTS
    Node = {n1, n2}
    MAX_NODES = 1
    PENDING_MAX = 2
    Target = {n1, n2}
    None = None
INVARIANT PendingDistinct
PROPERTY EventuallyTried
