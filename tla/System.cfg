SPECIFICATION SystemSpec
CONSTANTS
  r1 = r1
  r2 = r2
  NoRequest = NoRequest
  NoCode = NoCode
  NoRow = NoRow
  Requests = {r1, r2}
  RetryOf <- MCOneRetry
  Codes = {c1, c2}
  Addons = {a1}
  Readable = {a1}
  CatalogWired = TRUE
  MaxDraws = 1
  MaxDbErrors = 0
  MaxCrashes = 1
  Ids <- MCFourIds
  Workers = {w1}
  BatchSize = 2
  MaxRetries = 1
  Poisoned <- MCNoEvents
  Lossy <- MCBookings
  MaxCount = 2
  MaxWorkerCrashes = 1
  MaxStops = 0
  MaxWorkerDbErrors = 1
SYMMETRY MCSymmetry
INVARIANTS SystemInv OnlyClientsAreServed ServedOnce
PROPERTIES SettledForGood
CHECK_DEADLOCK FALSE
