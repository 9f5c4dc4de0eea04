\* An emergency stop and one other writer.
SPECIFICATION Spec
CONSTANTS
  w1 = w1
  w2 = w2
  Workers = {w1, w2}
  Updates <- StopUpdates
  EnvLive = FALSE
  EnvApproval = TRUE
  LiveConfigured = TRUE
  MaxCalls = 2
  MaxFaults = 0

CHECK_DEADLOCK FALSE
INVARIANTS
  StopHolds
