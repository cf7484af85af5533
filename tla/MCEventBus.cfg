CONSTANTS
  e1 = e1
  e2 = e2
  e3 = e3
  u1 = u1
  s1 = s1
  s2 = s2
  Sentinel = Sentinel
  Events <- MCEvents
  Priority <- MCPriority
  Matching <- MCMatching
  Subscriptions = {s1, s2}
  OverflowWatchers = {s2}
  MaxQueueDepth = 2
  UrgentThreshold = 5
SPECIFICATION Spec
INVARIANTS
  DepthKept
PROPERTIES
  ImplementsChannel
  AcceptedIsDispatched
  StopReturns
