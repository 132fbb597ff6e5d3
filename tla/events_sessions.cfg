SPECIFICATION FairSpec
CONSTANTS
  Matches = {m1}
  Questions = {q1, q2}
  Fallback = Fallback
  None = None
  MaxChannels = 3
  MaxBreaks = 1
  MaxFailures = 1
  MaxCrashes = 1
  MaxPolls = 1
INVARIANTS
  PeersSeeOneQuestion
PROPERTIES
  SessionIsFixed
  EveryRoutedMatchGetsASession
CHECK_DEADLOCK FALSE
