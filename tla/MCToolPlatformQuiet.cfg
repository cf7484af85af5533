CONSTANTS
  a1 = a1
  c1 = c1
  g1 = g1
  ws1 = ws1
  ws2 = ws2
  agent = agent
  h1 = h1
  w1 = w1
  None = None
  Calls = {a1, c1, g1}
  NeedsApproval = {a1}
  MaxConcurrent = 1
  MaxKills = 2
  Requests = {h1, w1}
  WsRequests = {w1}
  Grace = 1
  Connections = {ws1, ws2}
  Agents = {agent}
  CallerOf <- MCCallerOf
SPECIFICATION Spec
INVARIANTS
  KilledIsQuiet
