SPECIFICATION Spec
CONSTANTS
    Node = {n1, n2, n3}
    MAX_NODES = 2
    PerNode = 2
    TTL = 2
    ClockMod = 4
    StartTime = 3
    None = None
    Hub = Hub
    MaxCmds = 3
    MaxTime = 3
    MaxUnanswered = 1
    Kinds = {"plain", "bad", "reset"}
SYMMETRY Symmetry
INVARIANTS TypeOK Conservation QueueOrder SlotsSound NoNeedlessRepeat
PROPERTIES  LostToNewer OnlyDirectOvertakes 
