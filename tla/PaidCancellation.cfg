\* Two orders and six papers; one correction of each kind; one order gets a late line.
CONSTANTS
  o1 = o1
  o2 = o2
  a = a
  b = b
  c = c
  d = d
  e = e
  Orders = {o1, o2}
  Documents <- MCDocuments
  NoDocument = NoDocument
  MaxCorrections = 1
  MaxLines = 1
SPECIFICATION Spec
SYMMETRY MCSymmetry
INVARIANTS
  ConfirmedProofIsFinal
  SupplierEvidenceServesOnce
  CustomerEvidenceServesOnce
  CancelledIsSettled
  NoFulfilmentBesideRefund
CHECK_DEADLOCK FALSE
