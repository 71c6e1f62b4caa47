SPECIFICATION FairSpec
CONSTANTS
  c1 = c1
  u1 = u1
  u2 = u2
  u3 = u3
  t1 = t1
  Conns = {c1}
  Uuids = {u1, u2, u3}
  Tasks = {t1}
  ChanCap = 1
  None = None
  Unknown = Unknown
PROPERTIES
  EveryTaskAnswered
  AttentiveRequesterTold
  ImplementsPromise
CHECK_DEADLOCK FALSE
