----------------------------- MODULE MCAfterSales -----------------------------
EXTENDS AfterSales, TLC
CONSTANTS c1, c2, r1, r2

\* A statement carries no adjustment, or one in either direction.
MCAdjustments == {-1, 0, 1}

\* Claims are interchangeable, and so are refunds; no liveness is checked here.
MCSymmetry == Permutations(Claims) \cup Permutations(Refunds)
=============================================================================
