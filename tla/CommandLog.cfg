SPECIFICATION FairSpec
CONSTANTS
    Hub = {h1, h2}
    MaxId = 2
    ClientIds = {}
    Verdict = {"success"}
    MaxBatch = 2
    MaxCmds = 3
    MaxLives = 2
    MaxAcks = 1
    None = None
INVARIANTS TypeOK VerdictGiven RowMeansSent OkMeansLogged
PROPERTIES SettlesByRule ReadyAgain
