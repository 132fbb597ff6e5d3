SPECIFICATION Spec
CONSTANTS
  Sockets = {1, 2, 3}
  Users = {"a", "b"}
  Owner <- TwoTabs
  Edits = {"x"}
  Ends = {t1, t2}
  MaxEntries = 2
  MaxFailures = 0
  MaxCrashes = 1
INVARIANTS
  RoomInv
  RoomShowsWhatIsSaved
PROPERTIES
  GraceWatchesShortRooms
SYMMETRY EndSymmetry
CHECK_DEADLOCK FALSE
