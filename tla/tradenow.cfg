\* Two threads of the TradeNow path and an operator.
SPECIFICATION Spec
CONSTANTS
  w1 = w1
  w2 = w2
  Workers = {w1, w2}
  Environments <- OneMissing
  Updates <- EveryMode
  Requests <- MixedOrders
  Probes = {TRUE}
  InitialSwitches = {"LIVE_TRADING_ENABLED", "PAPER_TRADING_ENABLED"}
  OperatorSwitches = {"EMERGENCY_STOP", "PAPER_TRADING_ENABLED"}
  MaxCalls = 3
  MaxFlips = 1
SYMMETRY WorkerSymmetry
CHECK_DEADLOCK FALSE
INVARIANTS
  TypeOK
  OrdersAreGranted
  AccountWasAllowed
