SPECIFICATION FairSpec
CONSTANTS
    Node = {n1, n2}
    MAX_NODES = 2
    PerNode = 2
    TTL = 2
    ClockMod = 4
    StartTime = 1
    None = None
    Hub = Hub
    MaxCmds = 2
    MaxTime = 4
    MaxUnanswered = 0
    Kinds = {"plain"}
PROPERTIES HandedOutFresh EventuallyLeaves
