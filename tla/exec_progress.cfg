\* Fair workers, two intents of one client id: every call returns.
SPECIFICATION FairSpec
CONSTANTS
  w1 = w1
  w2 = w2
  r1 = r1
  r2 = r2
  r3 = r3
  r4 = r4
  c1 = c1
  q1 = q1
  q2 = q2
  NoId = NoId
  Workers = {w1, w2}
  Requests <- ClientIntents
  ClientIds = {c1}
  ClientIdOf <- ClientClientIds
  Terms = {q1, q2}
  TermsOf <- ClientTerms
  ModeOf <- PaperAndDisabled
  RequireApproval = TRUE
  LiveConfigured = TRUE
  SuccessMeansPlaced = FALSE
  AuditCap = 2
  OperatorGates = {}
  InitialGates <- AllGatesOn
  MaxCalls = 2
  MaxBucket = 0
  MaxRestarts = 0
CHECK_DEADLOCK FALSE
PROPERTIES
  OrderTraceKept
  EveryCallAnswered
