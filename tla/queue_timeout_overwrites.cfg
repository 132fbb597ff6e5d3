SPECIFICATION Spec
CONSTANTS
  Requests = {1, 2}
  Users = {1, 2}
  Matchers = {m1, m2}
  Callers = {}
  Pools = {1}
  Criteria <- SameLevel
  MatchTimeout = 2
  ReconnectGrace = 1
  MaxTime = 2
  MaxFailures = 0
  None = None
PROPERTIES
  TimeoutHitsConnectedPendingOnly
SYMMETRY MatcherSymmetry
CHECK_DEADLOCK FALSE
