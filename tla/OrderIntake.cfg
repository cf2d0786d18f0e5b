CONSTANTS
  o1 = o1
  o2 = o2
  s1 = s1
  f1 = f1
  f2 = f2
  p = p
  q = q
  Orders = {o1, o2}
  Suppliers = {s1}
  SupplierOf <- MCSupplierOf
  Cost <- MCCost
  ByEvidence = {o2}
  OpeningBank = 2
  OpeningDeposit <- MCDeposit
  Reserves = 1
  AutoLimit = 1
  DailyLimit = 2
  Figures = {1, 2}
  Transfers = {1}
  MaxAssets = 4
  Files = {f1, f2}
  Content <- MCContent
  ApiPayload = p
SPECIFICATION IntakeSpec
INVARIANTS
  CommitmentsAreFunded
  DailyLimitHolds
  StockIsNotCountedTwice
  FilesCameInWhole
  ImportsWaitVisibly
CHECK_DEADLOCK FALSE
