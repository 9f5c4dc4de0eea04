\* Two workers, two intents of one key; a switch turned, a restart or a new window.
SPECIFICATION Spec
CONSTANTS
  w1 = w1
  w2 = w2
  r1 = r1
  r2 = r2
  r3 = r3
  r4 = r4
  c1 = c1
  q1 = q1
  q2 = q2
  NoId = NoId
  Workers = {w1, w2}
  Requests <- TwoIntents
  ClientIds = {c1}
  ClientIdOf <- TwoClientIds
  Terms = {q1}
  TermsOf <- TwoTerms
  ModeOf <- SimulatedAndLive
  RequireApproval = TRUE
  LiveConfigured = TRUE
  SuccessMeansPlaced = TRUE
  AuditCap = 1
  OperatorGates = {"EMERGENCY_STOP", "LIVE_TRADING_ENABLED"}
  InitialGates <- AllGatesOn
  MaxCalls = 2
  MaxBucket = 1
  MaxRestarts = 1
CONSTRAINT OneDisturbance
SYMMETRY WorkerSymmetry
CHECK_DEADLOCK FALSE
INVARIANTS
  ModeHonoured
  BlockedNeverOrdered
  PlacedIsBacked
  ReplayMatchesKey
  StopDrains
PROPERTIES
  ImplementsGate
