SPECIFICATION FairWorkSpec
CONSTANTS
  Requests = {1, 2}
  Users = {1, 2}
  Matchers = {m1}
  Callers = {c1}
  Pools = {1}
  Criteria <- SameLevel
  MatchTimeout = 1
  ReconnectGrace = 1
  MaxTime = 2
  MaxFailures = 0
  MaxWork = 1
  MaxBreaks = 1
  MaxDeaths = 1
  None = None
PROPERTIES
  WorkAnswersRequests
CHECK_DEADLOCK FALSE
