CONSTANTS
    Cycle = {c1}
    NoCycle = NoCycle
    Plan = {p1}
    NoPlan = NoPlan
    TaskKey = {k1}
    NoKey = NoKey
    FlagThreshold = 3
    StreakCap = 3
    VersionCap = 2
    StateFaults = FALSE
    LostAcks = FALSE
    MaxRepairs = 0
SPECIFICATION Spec
INVARIANTS
    ReconciledWasConcluded
