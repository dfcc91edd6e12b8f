CONSTANTS
  a = a
  b = b
  c = c
  s1 = s1
  s2 = s2
  main = main
  cron = cron
  nested = nested
  x = x
  Runs = {a, b, c}
  NoRun = NoRun
  Sessions = {s1, s2}
  GlobalLanes = {main, cron, nested}
  CronLane = cron
  Cases <- MCTwoJobs
  Limits <- MCLimits
  Resets = {x}
  ResetOf <- MCResetOf
  MaxAttempts = 2
  JobTimeouts = FALSE
SPECIFICATION Spec
PROPERTY ManualJobsSucceed
CHECK_DEADLOCK FALSE
