SPECIFICATION Spec
CONSTANTS
  c1 = c1
  c2 = c2
  u1 = u1
  u2 = u2
  u3 = u3
  t1 = t1
  Conns = {c1, c2}
  Uuids = {u1, u2, u3}
  Tasks = {t1}
  ChanCap = 1
  None = None
  Unknown = Unknown
SYMMETRY Symmetry
INVARIANTS
  TypeOK
  Ownership
  ResultOnlyToRequester
  RequestOnlyToTarget
  AnswerBudget
  RequestedIsTracked
  SubscribedStaysReachable
  DeadSenderHasCause
CHECK_DEADLOCK FALSE
