CONSTANTS
  main = main
  cron = cron
  e1 = e1
  e2 = e2
  e3 = e3
  w1 = w1
  Lanes = {main, cron}
  Entries = {e1, e2, e3}
  Waiters = {w1}
  LimitBound = 2
  GenerationBound = 1
SPECIFICATION SmallSpec
INVARIANTS TypeOK NoStrandedWork SaysWhatRuns
PROPERTIES QueuedEventuallyLeaves ImplementsService
CHECK_DEADLOCK FALSE
