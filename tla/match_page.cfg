SPECIFICATION FairSpec
CONSTANTS
  MaxReq = 2
  MaxActs = 3
  MaxFaults = 1
INVARIANTS
  PageInv
  WaitingIsConnected
  PendingIsShown
PROPERTIES
  OutcomeIsShown
CHECK_DEADLOCK FALSE
