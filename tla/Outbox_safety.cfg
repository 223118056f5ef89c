SPECIFICATION Spec
CONSTANTS
  NoRow = NoRow
  Codes = {c1, c2}
  Ids <- MCFourIds
  Workers = {w1, w2}
  BatchSize = 3
  MaxRetries = 0
  Poisoned <- MCNoEvents
  Lossy <- MCAllEvents
  MaxCount = 1
  MaxCrashes = 1
  MaxStops = 0
  MaxDbErrors = 0
SYMMETRY MCSymmetry
INVARIANTS DeliveryInv PaymentCalledFirst
PROPERTIES KeepsContract ReopeningsRunOut
CHECK_DEADLOCK FALSE
