CONSTANTS
  h1 = h1
  h2 = h2
  w1 = w1
  None = None
  Requests = {h1, h2, w1}
  WsRequests = {w1}
  Grace = 2
  c1 = c1
  c2 = c2
  prompt = prompt
  linked = linked
  quiet = quiet
  Loop = Loop
  Callers = {c1}
  Messages = {prompt, linked, quiet}
  Kind <- MCKind
  MaxConns = 2
  MaxCuts = 1
  Responses = {m1, m2}
  Replies = {r1}
  MaxLimits = 2
  MaxStarts = 2
  Nothing = Nothing
  Stdio = {p}
  Sse = {s}
  MaxRequests = 3
  MaxConnections = 1

SPECIFICATION SuiteSpec
CHECK_DEADLOCK FALSE
INVARIANTS
  SendsKept
  AnswersReach
PROPERTIES
  ResumeHolds
  EveryCallEnds
