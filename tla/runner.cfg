CONSTANTS
  MaxCycles = 3
  MaxObs = 4
  ExecSteps = 2
  PlanLen = 2
  StopIndex = 2
  LastErasure = 1
SPECIFICATION FairSpec
INVARIANTS
  ResultsCoherent
  CompleteCyclesExport
  SuccessIsEarned
PROPERTIES
  CloseKeepsVerdict
  TrialEnds
CHECK_DEADLOCK FALSE
