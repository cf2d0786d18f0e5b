-------------------------------- MODULE Sums --------------------------------
(***************************************************************************)
(* The sums that the queries of the code take over rows: func.sum(amount)  *)
(* of the rows that a condition selects. A sum of natural numbers counts   *)
(* units, so it is the size of a set of units; SumsProofs has what follows *)
(* of it for every finite set of rows.                                     *)
(***************************************************************************)
EXTENDS Integers, FiniteSets

\* f[x] units for every member x of S, told apart by x and a number.
Units(f, S) == UNION {{x} \X (1 .. f[x]) : x \in S}

\* coalesce(sum(f), 0) over S.
Total(f, S) == Cardinality(Units(f, S))
=============================================================================
