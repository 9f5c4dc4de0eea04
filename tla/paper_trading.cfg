\* Two agents or two calls at a time, two orders, a history of two outcomes.
SPECIFICATION PaperSpec
CONSTANTS
  w1 = w1
  w2 = w2
  i1 = i1
  i2 = i2
  f1 = f1
  f2 = f2
  Workers <- MCWorkers
  Items <- MCItems
  Decisions = {"approved", "rejected"}
  Workflows <- MCWorkflows
  Entry = 2
  Prices <- MCPrices
  MaxHistory = 2
  MaxOrders = 2
  MaxSecond = 2
  Loads <- MCLoads
SYMMETRY WorkerSymmetry
CHECK_DEADLOCK FALSE
INVARIANTS
  PaperTypeOK
  QueueAgrees
  ExcursionsExact
  HistoryBounded
PROPERTIES
  ClosedStaysClosed
