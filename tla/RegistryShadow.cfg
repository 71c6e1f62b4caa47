SPECIFICATION Spec
CONSTANTS
  h1 = h1
  h2 = h2
  s1 = s1
  s2 = s2
  ann = ann
  None = None
  Nodes <- OneNode
  Sessions <- Two
  Names <- OneName
  Home <- HomeSame
  Name <- NameSame
  Pinging = {s1, s2}
  Timeout = 1
  MaxRestarts = 0
INVARIANTS
  LiveNotShadowed
CHECK_DEADLOCK FALSE
