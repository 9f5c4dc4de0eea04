\* Two workers: workflow runs and single agent runs, two seconds, one mishap.
SPECIFICATION WorkflowSpec
CONSTANTS
  w1 = w1
  w2 = w2
  approval = approval
  monitor = monitor
  Workers = {w1, w2}
  Agents <- TwoAgents
  Plan <- ShortPlan
  ApprovalAgent = approval
  ClientAgents = {monitor}
  Options <- SomeOptions
  DailyLimit = 1
  MaxCalls = 6
  MaxFlows = 3
  MaxSecond = 2
  Loads <- SomeLoads
SYMMETRY WorkerSymmetry
CHECK_DEADLOCK FALSE
INVARIANTS
  WorkflowTypeOK
  LostOnlyToRivals
  LockExclusive
  LockNotLeaked
  DailyLimitBound
  ResponseTraceable
PROPERTIES
  RepeatRunsNothing
