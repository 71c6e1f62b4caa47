SPECIFICATION MembershipSpec
CONSTANTS
  beating = beating
  distant = distant
  Absent = Absent
  Members = {beating, distant}
  Beats = {beating}
  OwnNode = {beating}
  Interval = 2
  Timeout = 6
  Delay = 1
  MaxReturns = 1
INVARIANTS
  SeesAllAgents
CHECK_DEADLOCK FALSE
