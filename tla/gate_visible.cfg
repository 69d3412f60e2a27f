SPECIFICATION GateSpec
CONSTANTS
  Levels = {2}
  MaxDefects = 0
  GateManifests <- MCManifests
  Scripts <- MCScripts
INVARIANT PassedChangedPixels
CHECK_DEADLOCK FALSE
