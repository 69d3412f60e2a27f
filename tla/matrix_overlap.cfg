CONSTANTS
  Procs = {p1, p2}
  Manifests = {m1, m2}
  N = 2
  Outcomes = {completed, crash}
  Limits = {0, 1, 2}
  None = None
  MaxInterrupts = 0
  MaxKills = 1
SPECIFICATION Spec
SYMMETRY Symmetry
INVARIANTS
  SummaryMatchesReceipts
  ReportsMatchReceipts
PROPERTIES
  NeverReplaced
