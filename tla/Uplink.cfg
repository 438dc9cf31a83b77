SPECIFICATION FairSpec
CONSTANTS
    REPORT_QUEUE_MAX = 2
    CMD_PENDING_PER_NODE = 1
    MaxNotes = 3
    None = None
INVARIANTS TypeOK Accounted ConnectedAgrees
PROPERTIES ImplementsRelay ComesBack EventuallyLeaves
