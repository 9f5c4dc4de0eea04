\* A model with all of its evidence, a request for it and the owner's decision.
SPECIFICATION PromotionSpec
SYMMETRY AlikeWorkers
CONSTANTS
  t1 = t1
  t2 = t2
  baseline = baseline
  challenger = challenger
  ghost = ghost
  Workers = {t1, t2}
  Models <- MCModels
  Baseline = baseline
  Registered = {baseline, challenger}
  Coined <- MCCoined
  KeyOf <- MCKeyOf
  Metrics <- MCMetrics
  Demands = {0, 50}
  MinSample = 50
  Window = 2
  ArtifactWindow = 1
  MaxRows = 7
  Loads <- MCLoads
INVARIANT PromotedIsEligible
CHECK_DEADLOCK FALSE
