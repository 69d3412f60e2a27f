CONSTANTS
  Procs = {p1}
  Manifests = {m1}
  N = 2
  Outcomes = {completed, crash}
  Limits = {1, 2}
  None = None
  MaxInterrupts = 0
  MaxKills = 1
SPECIFICATION Spec
INVARIANTS
  AlwaysResumable
