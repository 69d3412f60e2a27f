SPECIFICATION Spec
CONSTANTS
  r1 = r1
  r2 = r2
  Runs = {r1, r2}
  Roots = {ra, rb}
  ra = ra
  rb = rb
  NoRoot = NoRoot
  NoReceipt = NoReceipt
  MaxKills = 1
INVARIANTS
  ReceiptBacked
  SimulatorReleased
  UnsupportedBeforeReset
CHECK_DEADLOCK FALSE
