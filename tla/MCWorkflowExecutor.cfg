CONSTANTS
  s1 = s1
  s2 = s2
  s3 = s3
  s4 = s4
  gone = gone
  Steps = {s1, s2, s3, s4}
  Unknown = {gone}
  Workflows <- MCWorkflows
  Sorted = {s1, s2, s3}
  Inputs <- MCInputs
SPECIFICATION SuiteSpec
CHECK_DEADLOCK FALSE
INVARIANTS
  DependenciesFirst
  StopsHold
  VerdictTrue
PROPERTIES
  RunsEnd
  SortsExactly
