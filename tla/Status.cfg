SPECIFICATION Spec
CONSTANTS
  Handlers = {h1, h2, h3}
  Requests <- MCAnyResponse
  Cancellable = TRUE
SYMMETRY MCSymmetry
INVARIANTS StatusInv StatusIsEarned ConfirmationIsNoticed HistoryIsComplete ConfirmedUnlessFailed
PROPERTIES CancelledIsFinal
CHECK_DEADLOCK FALSE
