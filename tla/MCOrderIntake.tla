---------------------------- MODULE MCOrderIntake ----------------------------
EXTENDS OrderIntake, FiniteSetsExt, TLC
CONSTANTS o1, o2, s1, f1, f2, p, q

\* Both orders draw on one supplier's stock and deposit; they cannot be paid on one day.
MCSupplierOf == [o \in Orders |-> s1]
MCCost == o1 :> 2 @@ o2 :> 1
MCDeposit == s1 :> 1

\* The second file repeats a line of the first and contradicts another.
MCContent == f1 :> (o1 :> p @@ o2 :> p) @@ f2 :> (o1 :> p @@ o2 :> q)
\* Total counts what a query's sum adds up, for all amounts up to 3 of up to three rows.
ASSUME TotalsAreSums ==
  \A f \in [1 .. 3 -> 0 .. 3] : \A S \in SUBSET (1 .. 3) :
    Total(f, S) = MapThenSumSet(LAMBDA x : f[x], S)
=============================================================================
