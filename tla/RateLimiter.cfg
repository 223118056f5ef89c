SPECIFICATION Spec
CONSTANTS
  Clients = {c1, c2}
  Endpoints = {post, get}
  Writes = {post}
  DefaultLimit = 2
  ReservationsLimit = 1
  Window = 2
  ForceHttps = TRUE
  MaxTime = 4
SYMMETRY MCSymmetry
INVARIANTS RateInv LimitHolds WindowIsRecent RefusalIsEarned
CHECK_DEADLOCK FALSE
