SPECIFICATION FairSpec
CONSTANTS
  r1 = r1
  r2 = r2
  r3 = r3
  NoRequest = NoRequest
  NoCode = NoCode
  Requests = {r1, r2, r3}
  RetryOf <- MCOneRetry
  Codes = {c1, c2}
  Addons = {a1, a2}
  Readable = {a1}
  CatalogWired = TRUE
  MaxDraws = 2
  MaxDbErrors = 1
  MaxCrashes = 1
INVARIANTS CreateInv OnlyCollisionsFail
PROPERTIES KeepsBook EveryRequestAnswered RequestsRunDown
CHECK_DEADLOCK FALSE
