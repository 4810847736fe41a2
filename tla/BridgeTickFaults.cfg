CONSTANTS
    Cycle = {c1, c2}
    NoCycle = NoCycle
    Plan = {p1}
    NoPlan = NoPlan
    TaskKey = {k1}
    NoKey = NoKey
    FlagThreshold = 2
    StreakCap = 2
    VersionCap = 2
    StateFaults = TRUE
    LostAcks = TRUE
    MaxRepairs = 0
SPECIFICATION Spec
SYMMETRY Symmetric
INVARIANTS
    TypeOK
    NoAttemptLost
    SingleLineage
    RegisteredWhileRunning
PROPERTIES
    PendingBranchNotDeleted
    ImplementsIncrement
