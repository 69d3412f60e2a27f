SPECIFICATION CalibrationSpec
CONSTANTS
  Horizon = 4
  PhysicsSteps = 2
  OnThreshold = 3
  OffThreshold = 1
  DepthFrames <- MCDepthFrames
  InitialSteps = {3}
  EarlyStopCapable = TRUE
  MaxNative = 11
  ChunkLen = 2
  Minimums = {1, 3}
INVARIANTS
  RecordsFollowTheSimulator
  CrashHasCause
  CycleBoundary
  NothingHeld
  QualificationDecides
  RestReferenceDecides
CHECK_DEADLOCK FALSE
