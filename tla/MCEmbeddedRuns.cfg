CONSTANTS
  a = a
  b = b
  c = c
  s1 = s1
  s2 = s2
  main = main
  cron = cron
  nested = nested
  x = x
  Runs = {a, b, c}
  NoRun = NoRun
  Sessions = {s1, s2}
  GlobalLanes = {main, cron, nested}
  CronLane = cron
  Cases <- MCCases
  Limits <- MCLimits
  Resets = {x}
  ResetOf <- MCResetOf
  MaxAttempts = 2
  JobTimeouts = TRUE
SPECIFICATION Spec
INVARIANTS TypeOK OneTurnPerSession PlacesAreUsed RegistryIsTrue
PROPERTY EveryRunEnds
CHECK_DEADLOCK FALSE
