\* Two workers, three overlapping calls about one intent, one of them a preview at most.
SPECIFICATION Spec
CONSTANTS
  w1 = w1
  w2 = w2
  r1 = r1
  r2 = r2
  r3 = r3
  r4 = r4
  c1 = c1
  q1 = q1
  q2 = q2
  NoId = NoId
  Workers = {w1, w2}
  Requests <- OneIntent
  ClientIds = {c1}
  ClientIdOf <- OneClientId
  Terms = {q1}
  TermsOf <- OneTerms
  ModeOf <- OnePaperMode
  RequireApproval = TRUE
  LiveConfigured = TRUE
  SuccessMeansPlaced = TRUE
  AuditCap = 2
  OperatorGates = {}
  InitialGates <- AllGatesOn
  MaxCalls = 3
  MaxBucket = 0
  MaxRestarts = 0
CONSTRAINT OnePreview
SYMMETRY WorkerSymmetry
CHECK_DEADLOCK FALSE
INVARIANTS
  TypeOK
  ApprovedBeforeBroker
  PlacedIsBacked
  OrdersBoundedByApprovals
