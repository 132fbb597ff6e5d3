SPECIFICATION Spec
CONSTANTS
  Matches = {m1, m2}
  Questions = {q1}
  Fallback = Fallback
  None = None
  MaxChannels = 3
  MaxBreaks = 1
  MaxFailures = 0
  MaxCrashes = 1
  MaxPolls = 0
INVARIANTS
  NoMatchIsForgotten
SYMMETRY EventSymmetry
CHECK_DEADLOCK FALSE
