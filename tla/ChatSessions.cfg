SPECIFICATION FairSpec
CONSTANTS
  Chat = {chat}
  Cron = {cron}
  Old = 1
  MaxTurn = 3
  MaxFaults = 2
  MaxCron = 2
  MaxStops = 1
  MaxRounds = 2
  RawAfter = 2
INVARIANTS TypeOK HiddenIsArchived NothingLost ArchivedOnce ChatIsTold
CHECK_DEADLOCK FALSE
PROPERTIES StoppedIsSettled TurnsEnd
