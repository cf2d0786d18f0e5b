\* Two workers, a job that may be claimed twice, replayed once, one crash.
CONSTANTS
  w1 = w1
  w2 = w2
  NoWorker = NoWorker
  Workers = {w1, w2}
  MaxAttempts = 2
  MaxReplays = 1
  MaxCrashes = 1
SPECIFICATION FairSpec
INVARIANTS
  BoundedExecutions
  DeadLetterIsOpen
  DoneWasHandled
PROPERTIES
  ComesToRest
CHECK_DEADLOCK FALSE
