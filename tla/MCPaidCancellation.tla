------------------------- MODULE MCPaidCancellation -------------------------
EXTENDS PaidCancellation, TLC
CONSTANTS o1, o2, a, b, c, d, e

\* Five files and five references; two papers share a reference, two share a file.
MCDocuments ==
  {[reference |-> a, hash |-> b]} \cup {[reference |-> x, hash |-> x] : x \in {a, b, c, d, e}}

\* The orders are alike, and so are the papers that share nothing.
MCSymmetry == Permutations({o1, o2}) \cup Permutations({c, d, e})
=============================================================================
