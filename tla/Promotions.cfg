SPECIFICATION FairSpec
CONSTANTS
  Candidate = {c1, c2}
  Module = {mA}
  ModuleOf <- OneModule
  c1 = c1
  c2 = c2
  mA = mA
  Soak = 2
  MaxEvents = 1
  MaxFaults = 2
INVARIANTS TypeOK OnlySoakedRuns NoEventUnderSoak
PROPERTIES DecidedStaysOut ImplementsTrial FlaggedGoesOut SoakEndsIfKept
CHECK_DEADLOCK FALSE
