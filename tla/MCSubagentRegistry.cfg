CONSTANTS
  main = main
  a = a
  b = b
  s1 = s1
  s2 = s2
  MaxRuns = 3
  Sessions = {a, b}
  Top = main
  Steers = {s1}
  MaxRetries = 2
  Cases <- TestedCases
SPECIFICATION FairSpec
INVARIANTS TypeOK ToldOnce
PROPERTIES SteeredSaysNothing ChildrenFirst CleanupEnds
CHECK_DEADLOCK FALSE
