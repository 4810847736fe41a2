SPECIFICATION FairSpec
CONSTANTS
    NoJob = NoJob
    Job = {j1, j2}
    MaxClock = 2
INVARIANTS
    TypeOK
    Watched
PROPERTIES
    ServedOnce
    RemovedNeverStarts
    DueIsRun
