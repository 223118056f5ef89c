SPECIFICATION Spec
CONSTANTS
  r1 = r1
  r2 = r2
  r3 = r3
  NoRequest = NoRequest
  NoCode = NoCode
  Requests = {r1, r2}
  RetryOf <- MCNoRetries
  Codes = {c1, c2, c3}
  Addons = {a1}
  Readable = {a1}
  CatalogWired = FALSE
  MaxDraws = 2
  MaxDbErrors = 0
  MaxCrashes = 0
PROPERTIES ActiveAddonsAccepted
CHECK_DEADLOCK FALSE
