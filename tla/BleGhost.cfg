SPECIFICATION FairSpec
CONSTANTS
    Node = {n1}
    MAX_NODES = 2
    PENDING_MAX = 1
    Target = {}
    None = None
PROPERTY ReconnectedOnWake
