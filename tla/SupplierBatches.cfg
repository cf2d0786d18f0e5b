\* Two lines: one above the automatic limit, one found without intent; two batches.
CONSTANTS
  l1 = l1
  l2 = l2
  b1 = b1
  b2 = b2
  NoBatch = NoBatch
  Lines = {l1, l2}
  Large = {l1}
  Legacy = {l2}
  Batches = {b1, b2}
SPECIFICATION Spec
INVARIANTS
  SentOnce
  PaidOnlyAfterAcceptance
  CancelledOwesNothing
  LargeIsApproved
  BatchIsTrue
  HaltsAreReviewed
PROPERTIES
  SentNeedsConfirmation
  CancellationStopsMoney
CHECK_DEADLOCK FALSE
