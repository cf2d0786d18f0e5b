\* A receipt of one order is recorded again for the other.
CONSTANTS
  o1 = o1
  o2 = o2
  a = a
  b = b
  c = c
  d = d
  e = e
  Orders = {o1, o2}
  Documents <- MCDocuments
  NoDocument = NoDocument
  MaxCorrections = 1
  MaxLines = 1
SPECIFICATION Spec
INVARIANTS
  HashesAreNotReusedAcrossKinds
CHECK_DEADLOCK FALSE
