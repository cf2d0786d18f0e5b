CONSTANTS
  w1 = w1
  w2 = w2
  a1 = a1
  Workers = {w1}
  Admins = {}
  MaxAttempts = 3
  MaxFaults = 3
SPECIFICATION FairSpec
PROPERTIES
  CancellationEnds
  SendingIsResolved
CHECK_DEADLOCK FALSE
