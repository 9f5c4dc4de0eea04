\* One trade from the session to the handoff, or a position from its opening to the
\* lesson; the world moves at most twice.
SPECIFICATION StagesSpec
CONSTANTS
  MaxRisk = 6
  MaxNotional = 30
  AtrMultiple = 1
  TargetRR = 2
  TriggerMinutes = 15
  MaxMoves = 2
  Worlds <- MCWorlds
  Prices <- MCPrices
  Atrs = {2, 4}
  Minutes <- MCMinutes
  Records <- MCRecords
  Asks = {11}
  FlatPlans <- MCFlatPlans
CONSTRAINT OpenedInGood
CHECK_DEADLOCK FALSE
INVARIANTS
  StagesTypeOK
  HandoffIsBacked
  StakeIsLargest
  PlanFollowsRoute
  ExitsAreFinal
  WorseIsNeverBetter
