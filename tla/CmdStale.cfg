SPECIFICATION Spec
CONSTANTS
    Node = {n1}
    MAX_NODES = 1
    PerNode = 2
    TTL = 2
    ClockMod = 8
    StartTime = 0
    None = None
    Hub = Hub
    MaxCmds = 1
    MaxTime = 3
    MaxUnanswered = 0
    Kinds = {"reset"}
PROPERTY StaleNeverSent
