CONSTANTS
    None = None
    Row = Row
    Addrs = {a1}
    MaxEdits = 3
    MaxFaults = 1
    MaxKills = 2
SPECIFICATION Spec
INVARIANTS
    TypeOK
    ChangesReachDisk
    KillKeepsPool
    BanSurvivesKill
PROPERTIES
    DrainReturns
CHECK_DEADLOCK FALSE
