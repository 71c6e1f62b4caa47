SPECIFICATION PartsSpec
CONSTANTS
  Turns = 2
  MaxNoise = 1
  MaxRestarts = 1
  None = None
  beating = beating
  distant = distant
  Absent = Absent
  Members = {beating, distant}
  Beats = {beating}
  OwnNode = {beating}
  Interval = 2
  Timeout = 6
  Delay = 1
  MaxReturns = 1
INVARIANTS
  TurnsOwnReply
  StopsForCause
  ToleratesLostBeats
PROPERTIES
  BridgeComesBack
  GoneMembersFade
CHECK_DEADLOCK FALSE
