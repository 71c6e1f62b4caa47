SPECIFICATION ContinuitySpec
CONSTANTS
  h1 = h1
  s1 = s1
  s2 = s2
  ann = ann
  None = None
  NoModel = NoModel
  Nodes = {h1}
  Sessions = {s1, s2}
  Names = {ann}
  Home <- MCHome
  Name <- MCName
  Model <- MCModel
  Pinging = {s1, s2}
  Timeout = 1
  MaxRestarts = 1
INVARIANTS
  TakeoverIsNoticed
PROPERTIES
  GhostsFade
  LiveAgentWinsItsName
CHECK_DEADLOCK FALSE
