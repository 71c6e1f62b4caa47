SPECIFICATION Spec
CONSTANTS
  s1 = s1
  s2 = s2
  p1 = p1
  d1 = d1
  here = here
  away = away
  worker = worker
  remote = remote
  Tasks = {s1, s2, p1, d1}
  Workers = {worker, remote}
  Listener = Listener
  Everyone = Everyone
  Home <- MCHome
  Way <- MCWay
  Target <- MCTarget
  Answers <- MCAnswers
INVARIANTS
  WaitsInVainWithCause
  OneMissPerReply
CHECK_DEADLOCK FALSE
