SPECIFICATION GateSpec
CONSTANTS
  Levels = {2}
  MaxDefects = 0
  GateManifests <- MCManifests
  Scripts <- MCScripts
INVARIANT FinalizedTraceExports
CHECK_DEADLOCK FALSE
