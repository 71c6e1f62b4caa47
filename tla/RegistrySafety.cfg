SPECIFICATION Spec
CONSTANTS
  h1 = h1
  h2 = h2
  s1 = s1
  s2 = s2
  ann = ann
  None = None
  Nodes <- TwoNodes
  Sessions <- Two
  Names <- OneName
  Home <- HomeMoves
  Name <- NameSame
  Pinging = {s1}
  Timeout = 1
  MaxRestarts = 1
INVARIANTS
  TypeOK
  PingingStaysListed
  OfflineIsFinal
CHECK_DEADLOCK FALSE
