SPECIFICATION FairSpec
CONSTANTS
  NoRow = NoRow
  Codes = {c1}
  Ids <- MCTwoIds
  Workers = {w1, w2}
  BatchSize = 2
  MaxRetries = 1
  Poisoned <- MCNoEvents
  Lossy <- MCAllEvents
  MaxCount = 1
  MaxCrashes = 1
  MaxStops = 1
  MaxDbErrors = 1
PROPERTIES EventuallySettled StopTerminates StopRunsDown
CHECK_DEADLOCK FALSE
