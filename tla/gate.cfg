SPECIFICATION GateSpec
CONSTANTS
  Levels = {1}
  MaxDefects = 1
  GateManifests <- MCManifests
  Scripts <- MCScripts
INVARIANTS
  FaithfulPassesWhenExposed
  PassedShowsTheFault
  DeliveredRecordsExport
CHECK_DEADLOCK FALSE
