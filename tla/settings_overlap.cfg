\* Two workers write and check the switches; one save fails or one restart happens.
SPECIFICATION Spec
CONSTANTS
  w1 = w1
  w2 = w2
  Workers = {w1, w2}
  Updates <- AllUpdates
  EnvLive = FALSE
  EnvApproval = TRUE
  LiveConfigured = TRUE
  MaxCalls = 4
  MaxFaults = 1

CHECK_DEADLOCK FALSE
INVARIANTS
  TypeOK
  SafeConfig
  StopKeepsBrokerOff
PROPERTIES
  PostsOnWholeFile
