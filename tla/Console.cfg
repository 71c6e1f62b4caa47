SPECIFICATION FairSpec
CONSTANTS
  i1 = i1
  i2 = i2
  t1 = t1
  Conns = {1, 2, 3}
  Calls = {i1, i2}
  Tasks = {t1}
  MaxStarts = 1
  MaxRestarts = 1
  None = None
INVARIANTS
  TwinHasCause
  LoneRequestStays
PROPERTIES
  PageConnects
  RequestsAreShown
CHECK_DEADLOCK FALSE
