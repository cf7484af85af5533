CONSTANTS
  a1 = a1
  c1 = c1
  c2 = c2
  s1 = s1
  s2 = s2
  Calls = {a1, c1, c2}
  NeedsApproval = {a1}
  MaxConcurrent = 1
  MaxKills = 2
  MaxMsgs = 2
  Accounts = {b1, b2}
  NoOne = NoOne
  Idle = Idle
  MaxChanges = 1
  Sends = {s1, s2}
  Nobody = Nobody
  MaxTexts = 2
  MaxToggles = 2
  MaxExpiries = 1
  Limit = 3
  TemplateCap = 2
  ButtonCap = 1
  ReplyCap = 2
  MaxLen = 5
  MaxActions = 3
  MaxTurns = 6
  SectionCap = 2
  BlockCap = 2
  MaxLines = 4
  Gestures = {g}
  Drags = {d}
  Keys = {}
  Typings = {t}
  Pieces = 2
  Delays = {0, 1}
  Minute = 2
  MaxPerMinute = 3
  Launches = {l1, l2}
  Closes = {x1, x2}
  app = app
  Apps = {app}
  AppOf <- MCAppOf
  Ops = {o1, o2, o3}
  f1 = f1
  f2 = f2
  Files = {f1, f2}
  Catches <- MCCatches
  MaxBackups = 1
  Waits = {w1, w2, w3}
  k = k
  TaskKeys = {k}
  KeyOf <- MCKeyOf
  Queries = {w1, w2}
  MaxAnswers = 3
  ToolCalls = {u1, u2, u3, u4}
  MaxToolCalls = 2
  Clients = {j1}
  Pushes = {p1, p2}
  ClientOf <- MCClientOf
  r1 = r1
  r2 = r2
  r3 = r3
  Chats = {r1, r2, r3}
  Streams = {r1}
  ConnOf <- MCConnOf
  MaxBreaks = 1
  Modes = {"push_to_talk", "auto_detect", "walkie_talkie"}
  SilenceFrames = 2
  MinSpeechFrames = 2
  MaxChunk = 3
  MaxPieces = 18
  MaxReturned = 3
  m1 = m1
  m2 = m2
  m3 = m3
  Watchers = {1, 2}
  Reports = {m1, m2, m3}
  WatcherOf <- MCWatcherOf

SPECIFICATION SuiteSpec
CHECK_DEADLOCK FALSE
INVARIANTS
  PermitsExact
  ApprovedByUser
  AuditAgrees
  InboundSound
  OutboundSound
  FormattingSound
  ControlSound
  AgentsTalk
  HistorySound
  SegmentsSound
