SPECIFICATION Spec
CONSTANTS
  w1 = w1
  w2 = w2
  w3 = w3
  Writers = {w1, w2, w3}
  Contents = {a, b}
  a = a
  b = b
  Missing = Missing
  Orphan = Orphan
  Empty = Empty
  Exporters <- Requests
  MaxRuns = 4
PROPERTY
  EqualContentReused
CHECK_DEADLOCK FALSE
