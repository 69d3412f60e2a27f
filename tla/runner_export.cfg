CONSTANTS
  MaxCycles = 3
  MaxObs = 4
  ExecSteps = 2
  PlanLen = 2
  StopIndex = 2
  LastErasure = 1
SPECIFICATION Spec
INVARIANTS
  EveryTrialExports
CHECK_DEADLOCK FALSE
