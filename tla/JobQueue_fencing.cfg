CONSTANTS
  w1 = w1
  w2 = w2
  NoWorker = NoWorker
  Workers = {w1, w2}
  MaxAttempts = 2
  MaxReplays = 0
  MaxCrashes = 0
SPECIFICATION Spec
PROPERTIES
  CompletionNeedsItsLease
CHECK_DEADLOCK FALSE
