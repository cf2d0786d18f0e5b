\* Two claims and two refunds over a sale of 2 with fees of 1, two corrections.
CONSTANTS
  c1 = c1
  c2 = c2
  r1 = r1
  r2 = r2
  Claims = {c1, c2}
  Refunds = {r1, r2}
  NetSale = 2
  Fees = 1
  Paid = 1
  AutoLimit = 1
  Statements = {0, 1}
  Adjustments <- MCAdjustments
  MaxCorrections = 2
SYMMETRY MCSymmetry
SPECIFICATION Spec
INVARIANTS
  WithinLimits
  OneRefundCall
  SettlementKnowsRefunds
  BooksClose
  ClaimTellsRefunds
CHECK_DEADLOCK FALSE
