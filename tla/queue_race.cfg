SPECIFICATION Spec
CONSTANTS
  Requests = {1, 2, 3}
  Users = {1, 2, 3}
  Matchers = {m1, m2}
  Callers = {}
  Pools = {1}
  Criteria <- SameLevel
  MatchTimeout = 2
  ReconnectGrace = 1
  MaxTime = 2
  MaxFailures = 1
  None = None
INVARIANTS
  TypeOK
  PairsAreMutual
  AnnouncedIsCommitted
  NoEarlyTimeout
PROPERTIES
  PairsLeaveTogether
  LeavesQueueForGood
SYMMETRY MatcherSymmetry
CHECK_DEADLOCK FALSE
