CONSTANTS
  w1 = w1
  w2 = w2
  a = a
  b = b
  c = c
  e1 = e1
  e2 = e2
  own = own
  None = None
  Workflows = {w1, w2}
  Triggers = {a, b, c}
  TriggersOf <- MCTriggersOf
  Events = {e1, e2, own}
  Own = {own}
  Correlation <- MCCorrelation
  Verdict <- MCVerdict
  MaxPerUser = 2
  MaxActive = 1
  Window = 1
  MaxEntries = 3
  once = once
  often = often
  other = other
  Tasks = {once, often, other}
  OneShot = {once, other}
  MaxTasks = 1
  MaxRuns = 2
  push = push
  mirror = mirror
  alarm = alarm
  DeadLetter = DeadLetter
  Inbound = {push}
  Outbound = {mirror, alarm}
  Hears <- MCHears
  MaxHooks = 3
  MaxRetries = 1
  MaxReceived = 1
  MaxDeliveries = 3

SPECIFICATION SuiteSpec
CHECK_DEADLOCK FALSE
INVARIANTS
  BooksAgree
  BooksKept
PROPERTIES
  EachTriggerOnce
  JobsKept
  HandlingEnds
