CONSTANTS
  p = p
  q = q
  s1 = s1
  s2 = s2
  s3 = s3
  one = one
  two = two
  chat = chat
  None = None
  Providers = {p, q}
  Requests = {s1, s2, s3, one, two}
  Streams = {one, two}
  Conversation <- MCConversation
  Preferred <- MCPreferred
  FallbackChain <- MCFallbackChain
  Threshold = 2
  Recovery = 1
  RollingWindow = 2
  HalfOpenMax = 1
  Switches = {"telegram", "slack", "signal", "scheduler", "webhooks", "workflows", "learning", "marketplace", "agents"}
  k1 = k1
  k2 = k2
  Users = {one, two}
  Keys = {k1, k2}
  Layouts <- MCLayouts
  Codes = {c1, c2}
  TTL = 0
  old = old
  new = new
  same = same
  shell = shell
  Sources = {old, new, same, shell}
  IdOf <- MCIdOf
  NameOf <- MCNameOf
  Rejected = {}
  Builtins = {"shell"}
  Builtin = Builtin
  Connects = {one, two}
  Disconnects = {d1, d2}
  Commands = {r1}
  MaxSessions = 1
  Accounts = {someone}
  Ids = {i1, i2}
  Presets = {professional}
  Professional = professional
  Names = {name}
  Edits = {e1, e2}
  Chats = {message}
  UserOf <- MCUserOf

SYMMETRY Alike
SPECIFICATION SuiteSpec
CHECK_DEADLOCK FALSE
INVARIANTS
  ChatsSound
  EveryoneReached
  OneToolPerSkill
  PoolCounted
PROPERTIES
  BuiltAndStoppedInOrder
