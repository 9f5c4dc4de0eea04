\* Two workers submit the same intent at the same time.
SPECIFICATION Spec
CONSTANTS
  w1 = w1
  w2 = w2
  r1 = r1
  r2 = r2
  r3 = r3
  r4 = r4
  c1 = c1
  q1 = q1
  q2 = q2
  NoId = NoId
  Workers = {w1, w2}
  Requests <- OneIntent
  ClientIds = {c1}
  ClientIdOf <- OneClientId
  Terms = {q1}
  TermsOf <- OneTerms
  ModeOf <- OnePaperMode
  RequireApproval = TRUE
  LiveConfigured = TRUE
  SuccessMeansPlaced = TRUE
  AuditCap = 3
  OperatorGates = {}
  InitialGates <- AllGatesOn
  MaxCalls = 2
  MaxBucket = 0
  MaxRestarts = 0
CHECK_DEADLOCK FALSE
INVARIANTS
  OneAuditPerKey
