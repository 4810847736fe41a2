SPECIFICATION FairSpec
CONSTANTS
  Candidate = {cand}
  Title = {t1, t2}
  Max = 2
  MaxScan = 3
  MaxRows = 3
  MaxDeaths = 3
  MaxFaults = 1
INVARIANTS TypeOK DeathsAreCounted SuppressedForCause BudgetHolds
PROPERTY OfferedAgain
CHECK_DEADLOCK FALSE
