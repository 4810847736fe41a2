SPECIFICATION Spec
CONSTANTS
  Chat = {chat}
  Cron = {cron}
  Old = 1
  MaxTurn = 3
  MaxFaults = 0
  MaxCron = 2
  MaxStops = 0
  MaxRounds = 2
  RawAfter = 2
INVARIANT OffsetCountsArchived
CHECK_DEADLOCK FALSE
