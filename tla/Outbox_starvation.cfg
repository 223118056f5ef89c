SPECIFICATION FairSpec
CONSTANTS
  NoRow = NoRow
  Codes = {c1, c2}
  Ids <- MCFourIds
  Workers = {w1}
  BatchSize = 2
  MaxRetries = 0
  Poisoned <- MCPayments
  Lossy <- MCAllEvents
  MaxCount = 1
  MaxCrashes = 0
  MaxStops = 0
  MaxDbErrors = 0
PROPERTIES EventuallySettled
CHECK_DEADLOCK FALSE
