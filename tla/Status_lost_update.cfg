SPECIFICATION Spec
CONSTANTS
  Handlers = {h1, h2}
  Requests <- MCSuccesses
  Cancellable = FALSE
SYMMETRY MCSymmetry
INVARIANTS ConfirmedWhenBothSucceeded
CHECK_DEADLOCK FALSE
