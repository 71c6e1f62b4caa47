SPECIFICATION ClientsSpec
CONSTANTS
  k1 = k1
  k2 = k2
  k3 = k3
  Calls <- Three
  Rejected = {k1}
  MaxEvents = 2
  Libraries = {"rust", "python", "javascript"}
  None = None
  a1 = a1
  a2 = a2
  r1 = r1
  r2 = r2
  r3 = r3
  Requests <- TheRequests
  Agents <- AgentNames
  Agent <- AgentOf
  MaxRestarts = 2
  NoOne = NoOne
INVARIANTS
  OwnAnswer
  EventsKept
  OneClientPerAgent
PROPERTIES
  EveryCallReturns
  EveryRequestAnswered
CHECK_DEADLOCK FALSE
