CONSTANTS
  c1 = c1
  c2 = c2
  Callers = {c1, c2}
  Monitor = Monitor
  MaxInstances = 2
  MaxRestarts = 2
  Cases <- MCCases
SPECIFICATION Spec
INVARIANTS TypeOK RecordsAreTrue StoppedStaysDown
PROPERTY ComesBack
CHECK_DEADLOCK FALSE
