\* Two gates at a time, one kind of evidence or all of it, decisions and outages.
SPECIFICATION PromotionSpec
SYMMETRY AlikeWorkers
CONSTANTS
  t1 = t1
  t2 = t2
  baseline = baseline
  challenger = challenger
  ghost = ghost
  Workers = {t1, t2}
  Models <- MCModels
  Baseline = baseline
  Registered = {baseline, challenger}
  Coined <- MCCoined
  KeyOf <- MCKeyOf
  Metrics <- MCMetrics
  Demands = {0, 50}
  MinSample = 50
  Window = 2
  ArtifactWindow = 1
  MaxRows = 7
  Loads <- MCLoads
INVARIANTS
  PromotionTypeOK
  CountedEvidenceIsReal
PROPERTY EvidenceIsOwn
CHECK_DEADLOCK FALSE
