CONSTANTS
  m1 = m1
  m2 = m2
  m3 = m3
  here = here
  there = there
  Messages = {m1, m2, m3}
  Identity <- WithDuplicate
  Route <- TwoRoutes
  Configs <- MixedConfigs
  ObjectBound = 2
SPECIFICATION FairSpec
PROPERTY WaitingEnds
INVARIANTS TypeOK LossNeedsDisturbance MixedNeedsLateArrival UnclearedDrains AcceptedOnce
CHECK_DEADLOCK FALSE
