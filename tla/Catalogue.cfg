CONSTANTS
  w1 = w1
  w2 = w2
  Workers = {w1, w2}
  Origins = {"demo_active", "local"}
  MaxAttempts = 2
  MaxRevision = 3
  MaxDisturbances = 2
SPECIFICATION CatalogueFairSpec
INVARIANTS
  ConfirmationIsNewest
  ChangeIsPursued
  RiskStopsSales
PROPERTIES
  UnsafeSalesEnd
CHECK_DEADLOCK FALSE
