SPECIFICATION GatewayFairSpec
CONSTANTS
  Callers = {c1, c2}
  Threshold = 4
  Recovery = 5
  Never = Never
  MaxOutages = 2
  MaxRefusals = 1
  MaxRetries = 2
  BaseDelay = 1
  Factor = 4
  MaxDelay = 2
INVARIANTS GatewayInv OutageIsContained
PROPERTIES RejectsUntilRecovery OpenerIsSpared OneBookingNeverTrips EveryBookingEnds BookingsSucceed
CHECK_DEADLOCK FALSE
