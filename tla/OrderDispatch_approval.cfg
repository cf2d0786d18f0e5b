CONSTANTS
  w1 = w1
  w2 = w2
  a1 = a1
  Workers = {w1}
  Admins = {}
  MaxAttempts = 1
  MaxFaults = 0
SPECIFICATION Spec
INVARIANT PendingPaymentHasAJob
CHECK_DEADLOCK FALSE
