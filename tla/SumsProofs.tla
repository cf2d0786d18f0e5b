----------------------------- MODULE SumsProofs -----------------------------
(***************************************************************************)
(* What proofs about sums need, for every finite set of rows and every     *)
(* amount: nothing, one row, one row more or less, two sets without a row  *)
(* in common, fewer rows, and equal amounts.                               *)
(***************************************************************************)
EXTENDS Sums, FiniteSetTheorems, TLAPS

\* The amounts of S are natural numbers, and S is finite.
Amounts(f, S) == IsFiniteSet(S) /\ \A x \in S : f[x] \in Nat

LEMMA UnitsOf ==
  ASSUME NEW f, NEW S, NEW u
  PROVE  u \in Units(f, S) <=> \E x \in S : \E n \in 1 .. f[x] : u = <<x, n>>
  BY DEF Units

LEMMA UnitsFinite ==
  ASSUME NEW f, NEW S, Amounts(f, S)
  PROVE  IsFiniteSet(Units(f, S))
<1> DEFINE part == [x \in S |-> {x} \X (1 .. f[x])]
           parts == {{x} \X (1 .. f[x]) : x \in S}
<1>1. IsFiniteSet(parts)
  <2>1. part \in Surjection(S, parts)
    BY DEF Surjection
  <2> QED
    BY <2>1, FS_Surjection DEF Amounts
<1>2. ASSUME NEW x \in S PROVE IsFiniteSet({x} \X (1 .. f[x]))
  <2>1. IsFiniteSet(1 .. f[x])
    BY FS_Interval DEF Amounts
  <2> QED
    BY <2>1, FS_Singleton, FS_Product
<1>3. \A T \in parts : IsFiniteSet(T)
  BY <1>2
<1> QED
  BY <1>1, <1>3, FS_UNION DEF Units

\* A sum is a natural number.
LEMMA TotalType ==
  ASSUME NEW f, NEW S, Amounts(f, S)
  PROVE  Total(f, S) \in Nat
  BY UnitsFinite, FS_CardinalityType DEF Total

\* The sum over no rows is 0.
LEMMA TotalEmpty ==
  ASSUME NEW f
  PROVE  Total(f, {}) = 0
<1>1. Units(f, {}) = {}
  BY DEF Units
<1> QED
  BY <1>1, FS_EmptySet DEF Total

\* The sum over one row is its amount.
LEMMA TotalOne ==
  ASSUME NEW f, NEW x, f[x] \in Nat
  PROVE  Total(f, {x}) = f[x]
<1> DEFINE n == f[x]
<1>1. Units(f, {x}) = {x} \X (1 .. n)
  BY DEF Units
<1>2. n \in Nat
  OBVIOUS
<1> HIDE DEF n
<1>3. IsFiniteSet({x}) /\ Cardinality({x}) = 1
  BY FS_Singleton
<1>4. IsFiniteSet(1 .. n) /\ Cardinality(1 .. n) = n
  BY <1>2, FS_Interval
<1>5. Cardinality({x} \X (1 .. n)) = Cardinality({x}) * Cardinality(1 .. n)
  BY <1>3, <1>4, FS_Product
<1>6. Total(f, {x}) = 1 * n
  BY <1>1, <1>3, <1>4, <1>5 DEF Total
<1>7. 1 * n = n
  BY <1>2
<1> QED
  BY <1>6, <1>7 DEF n

\* Only the amounts of the rows count.
LEMMA TotalSame ==
  ASSUME NEW f, NEW g, NEW S, \A x \in S : f[x] = g[x]
  PROVE  Total(f, S) = Total(g, S)
<1>1. {{x} \X (1 .. f[x]) : x \in S} = {{x} \X (1 .. g[x]) : x \in S}
  OBVIOUS
<1> QED
  BY <1>1 DEF Total, Units

\* Sums over sets without a row in common add up.
LEMMA TotalUnion ==
  ASSUME NEW f, NEW S, NEW T, Amounts(f, S), Amounts(f, T), S \cap T = {}
  PROVE  Total(f, S \cup T) = Total(f, S) + Total(f, T)
<1>1. Units(f, S \cup T) = Units(f, S) \cup Units(f, T)
  BY DEF Units
<1>2. Units(f, S) \cap Units(f, T) = {}
  BY UnitsOf
<1>3. IsFiniteSet(Units(f, S)) /\ IsFiniteSet(Units(f, T))
  BY UnitsFinite
<1>4. Total(f, S) \in Nat /\ Total(f, T) \in Nat
  BY TotalType
<1>5. Cardinality(Units(f, S) \cup Units(f, T)) =
        Cardinality(Units(f, S)) + Cardinality(Units(f, T)) - Cardinality({})
  BY <1>2, <1>3, FS_Union
<1>6. Cardinality({}) = 0
  BY FS_EmptySet
<1>7. Total(f, S \cup T) = Total(f, S) + Total(f, T) - 0
  BY <1>1, <1>5, <1>6 DEF Total
<1> QED
  BY <1>4, <1>7

LEMMA AmountsSubset ==
  ASSUME NEW f, NEW S, NEW T, Amounts(f, T), S \subseteq T
  PROVE  Amounts(f, S)
  BY FS_Subset DEF Amounts

\* One row less.
LEMMA TotalRemove ==
  ASSUME NEW f, NEW S, Amounts(f, S), NEW x \in S
  PROVE  Total(f, S) = Total(f, S \ {x}) + f[x]
<1>1. Amounts(f, S \ {x}) /\ Amounts(f, {x})
  BY AmountsSubset
<1>2. S = (S \ {x}) \cup {x} /\ (S \ {x}) \cap {x} = {}
  OBVIOUS
<1>3. Total(f, S) = Total(f, S \ {x}) + Total(f, {x})
  BY <1>1, <1>2, TotalUnion
<1> QED
  BY <1>3, TotalOne DEF Amounts

\* One row more.
LEMMA TotalAdd ==
  ASSUME NEW f, NEW S, NEW x, Amounts(f, S), x \notin S, f[x] \in Nat
  PROVE  Total(f, S \cup {x}) = Total(f, S) + f[x]
<1>1. Amounts(f, {x}) /\ S \cap {x} = {}
  BY FS_Singleton DEF Amounts
<1> QED
  BY <1>1, TotalUnion, TotalOne

\* Fewer rows, a smaller sum.
LEMMA TotalMonotone ==
  ASSUME NEW f, NEW S, NEW T, Amounts(f, T), S \subseteq T
  PROVE  Total(f, S) <= Total(f, T)
<1>1. Amounts(f, S) /\ Amounts(f, T \ S)
  BY AmountsSubset
<1>2. T = S \cup (T \ S) /\ S \cap (T \ S) = {}
  OBVIOUS
<1>3. Total(f, T) = Total(f, S) + Total(f, T \ S)
  BY <1>1, <1>2, TotalUnion
<1> QED
  BY <1>1, <1>3, TotalType

\* A sum is at least each of its amounts.
LEMMA TotalMember ==
  ASSUME NEW f, NEW S, Amounts(f, S), NEW x \in S
  PROVE  f[x] <= Total(f, S)
<1>1. {x} \subseteq S
  OBVIOUS
<1>2. Total(f, {x}) <= Total(f, S)
  BY <1>1, TotalMonotone
<1> QED
  BY <1>2, TotalOne DEF Amounts

\* One row may change its amount, come in or go: the sum moves by what it had and what it has.
LEMMA TotalChange ==
  ASSUME NEW f, NEW g, NEW S, NEW T, NEW x, Amounts(f, S), Amounts(g, T),
         S \ {x} = T \ {x}, \A y \in S \ {x} : f[y] = g[y]
  PROVE  Total(g, T) = Total(f, S) - (IF x \in S THEN f[x] ELSE 0)
                                   + (IF x \in T THEN g[x] ELSE 0)
<1> DEFINE rest == Total(f, S \ {x})
<1>1. rest \in Nat
  BY AmountsSubset, TotalType
<1>2. Total(g, T \ {x}) = rest
  BY TotalSame
<1>3. Total(f, S) = rest + (IF x \in S THEN f[x] ELSE 0)
  <2>1. CASE x \in S
    BY <2>1, TotalRemove
  <2>2. CASE x \notin S
    <3>1. S \ {x} = S
      BY <2>2
    <3> QED
      BY <1>1, <2>2, <3>1
  <2> QED
    BY <2>1, <2>2
<1>4. Total(g, T) = rest + (IF x \in T THEN g[x] ELSE 0)
  <2>1. CASE x \in T
    <3>1. Total(g, T) = Total(g, T \ {x}) + g[x]
      BY <2>1, TotalRemove
    <3> QED
      BY <1>2, <2>1, <3>1
  <2>2. CASE x \notin T
    <3>1. Total(g, T \ {x}) = Total(g, T)
      BY <2>2, T \ {x} = T
    <3> QED
      BY <1>1, <1>2, <2>2, <3>1
  <2> QED
    BY <2>1, <2>2
<1>5. x \in S => f[x] \in Nat
  BY DEF Amounts
<1>6. x \in T => g[x] \in Nat
  BY DEF Amounts
<1> HIDE DEF rest
<1> QED
  BY <1>1, <1>3, <1>4, <1>5, <1>6
=============================================================================
