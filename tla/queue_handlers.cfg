SPECIFICATION Spec
CONSTANTS
  Requests = {1, 2}
  Users = {1, 2}
  Matchers = {m1}
  Callers = {c1}
  Pools = {1, 2}
  Criteria <- HardOrEasy
  MatchTimeout = 2
  ReconnectGrace = 1
  MaxTime = 3
  MaxFailures = 0
  None = None
INVARIANTS
  OnePendingPerUser
PROPERTIES
  OnlyConnectedAreMatched
  GraceIsHonoured
SYMMETRY MatcherSymmetry
CHECK_DEADLOCK FALSE
