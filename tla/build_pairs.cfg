SPECIFICATION Spec
CONSTANTS
  GridOperators = {"T1", "T2", "F2"}
  GridLevels = {1, 2}
  Horizon = 13
  FocusedBudgets = {2, 7, 14, 15}
  Specs <- MCSpecs
  PointSets <- MCPointSets
  ReportedSpecs <- MCReportedSpecs
  Layouts <- MCLayouts
  Inputs <- MCInputs
  ReportingSpecs <- MCReportingSpecs
  Unit = 32
INVARIANT PointsAlwaysPair
CHECK_DEADLOCK FALSE
