SPECIFICATION GateSpec
CONSTANTS
  Levels = {1, 2, 3, 4, 5}
  MaxDefects = 0
  GateManifests <- SmokeManifests
  Scripts <- SmokeScripts
INVARIANT SmokeMatrixPasses
CHECK_DEADLOCK FALSE
