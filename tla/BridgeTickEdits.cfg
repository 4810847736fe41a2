SPECIFICATION FairSpec
CONSTANTS
    Cycle = {c1}
    NoCycle = NoCycle
    Plan = {p1, p2}
    NoPlan = NoPlan
    TaskKey = {k1}
    NoKey = NoKey
    FlagThreshold = 2
    StreakCap = 2
    VersionCap = 2
    StateFaults = TRUE
    LostAcks = TRUE
    MaxRepairs = 1
INVARIANTS
    PlanMatchesAccepted
    HoldRespected
PROPERTIES
    VersionMonotone
    UnfinishedNeverIntegrates
    AttemptReachesPlanner
