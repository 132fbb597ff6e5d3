SPECIFICATION FairSpec
CONSTANTS
  Jobs = {1, 2}
  MaxConcurrent = 1
  MaxFaults = 1
  Tabs = {1, 2, 3}
  Owner <- Reopened
  Langs = {"js", "py"}
  FirstLang = "js"
  None = None
  MaxActs = 5
INVARIANTS
  NothingRunsUnattended
  ContainersAreRemoved
  EveryRunWasApproved
  PagesConverge
  TranslationNeedsConsent
  PresenceIsTruthful
PROPERTIES
  RunEnds
CHECK_DEADLOCK FALSE
