CONSTANTS
  m1 = m1
  m2 = m2
  m3 = m3
  here = here
  there = there
  Messages = {m1, m2, m3}
  Identity <- AllDifferent
  Route <- OneRoute
  Configs <- CollectOldConfigs
  ObjectBound = 2
SPECIFICATION Spec
INVARIANT NothingLostUncleared
CHECK_DEADLOCK FALSE
