CONSTANTS
  w1 = w1
  w2 = w2
  a1 = a1
  Workers = {w1}
  Admins = {a1}
  MaxAttempts = 1
  MaxFaults = 1
SPECIFICATION Spec
INVARIANT UnknownCanBeConfirmed
CHECK_DEADLOCK FALSE
