SPECIFICATION Spec
CONSTANTS
  EngineUsers = {1, 2, 3}
  EnginePools = {1, 2}
  EngineTimes = {0, 30}
  EngineInstants = {1, 2}
INVARIANTS
  SelectionFollowsRules
  BestPairIsSelected
CHECK_DEADLOCK FALSE
