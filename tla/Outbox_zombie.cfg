SPECIFICATION FairSpec
CONSTANTS
  NoRow = NoRow
  Codes = {c1}
  Ids <- MCTwoIds
  Workers = {w1}
  BatchSize = 2
  MaxRetries = 0
  Poisoned <- MCNoEvents
  Lossy <- MCAllEvents
  MaxCount = 1
  MaxCrashes = 0
  MaxStops = 0
  MaxDbErrors = 1
PROPERTIES EventuallySettled
CHECK_DEADLOCK FALSE
