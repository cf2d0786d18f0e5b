\* Two workers and one reconciling administrator, one crash or provider failure,
\* every job claimed at most twice.
CONSTANTS
  w1 = w1
  w2 = w2
  a1 = a1
  Workers = {w1, w2}
  Admins = {a1}
  MaxAttempts = 2
  MaxFaults = 1
SPECIFICATION Spec
SYMMETRY Symmetry
INVARIANTS
  AtMostOnePaymentRequest
  MovedMoneyIsVisible
  ReservationFollowsOrder
  PaidOnlyWhatWasOrdered
  NothingWaitsSilently
PROPERTIES
  CancellationStopsUnsentMoney
  MoneySpec
CHECK_DEADLOCK FALSE
