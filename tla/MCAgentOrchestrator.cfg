CONSTANTS
  i1 = i1
  i2 = i2
  r1 = r1
  r2 = r2
  Runs = {r1, r2}
  Clients = {r1}
  Delegating <- MCDelegating
  Items = {i1, i2}
  Plans <- MCPlans
  MaxAgents = 1
  MaxDepth = 2
  Overriding <- MCOverriding
  None = None
SPECIFICATION Spec
CHECK_DEADLOCK FALSE
INVARIANTS
  LimitHolds
  AgentsReleased
  VerdictTrue
  SafeForGather
PROPERTIES
  RunsEnd
