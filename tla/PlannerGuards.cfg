SPECIFICATION FairSpec
CONSTANTS
  Main = main
  Input = {main, file}
  DegradedAt = 1
  StopAt = 2
  SupplyAt = 2
  ReviewAt = 2
  MaxHistory = 4
  MaxRests = 2
  MaxFaults = 1
  MaxResumes = 1
  MaxChanges = 1
INVARIANTS TypeOK CountersMatchSessions StoppedInTime
PROPERTY AskedAgain
