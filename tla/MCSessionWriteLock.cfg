CONSTANTS
  t1 = t1
  t2 = t2
  t3 = t3
  p1 = p1
  p2 = p2
  p3 = p3
  Tasks = {t1, t2, t3}
  NoTask = NoTask
  Processes = {p1, p2, p3}
  Home <- TwoAndOne
  Pid <- PidUsedAgain
  Gateway = p2
  Reentrant = {t1, t2}
  StartTimes = TRUE
  Disturbances = {"stop", "signal", "old", "watchdog", "cleanup"}
SPECIFICATION FairSpec
INVARIANTS TypeOK UndisturbedExclusion TableIsTrue
PROPERTIES UndisturbedReleaseRemovesOwn AcquireEnds
CHECK_DEADLOCK FALSE
