CONSTANTS
  Procs = {p1}
  Manifests = {m1}
  N = 3
  Outcomes = {completed, crash}
  Limits = {1, 3}
  None = None
  MaxInterrupts = 2
  MaxKills = 0
SPECIFICATION FairSpec
INVARIANTS
  ExecutedOnce
  AlwaysResumable
  ResultAccountsForEveryCell
PROPERTIES
  EventuallyComplete
