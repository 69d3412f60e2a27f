SPECIFICATION Spec
CONSTANTS
  MaxLength = 5
  Levels = {1, 2, 5}
  Phases = {"free", "sustained"}
  Manifests <- MCManifests
INVARIANTS
  StreamingMatchesBatch
  CacheBounded
  FootprintRespected
CHECK_DEADLOCK FALSE
