SPECIFICATION FairSpec
CONSTANTS
  Sockets = {1, 2}
  Users = {"a", "b"}
  Owner <- TwoTabs
  Edits = {"x"}
  Ends = {t1, t2}
  MaxEntries = 2
  MaxFailures = 2
  MaxCrashes = 0
PROPERTIES
  NobodyStaysInAnEndedSession
  EveryRoomEnds
  EveryEditIsSaved
CHECK_DEADLOCK FALSE
