-------------------------- MODULE OrderIntakeProofs --------------------------
(***************************************************************************)
(* Treasury and OrderIntake for every finite set of orders and suppliers,  *)
(* every set of files and every amount. First the treasury by itself: what *)
(* each of its commands does to the sums, the limit and the stock. Then    *)
(* the intake: files come in as a whole, imported orders wait visibly, and *)
(* it reaches cash and stock only through the treasury's commands.         *)
(***************************************************************************)
EXTENDS OrderIntake, SumsProofs

allVars == <<treasuryVars, intakeVars>>

\* Reservations are rows, whatever the amounts in them.
HeldShape ==
  /\ held = [o \in Orders |-> held[o]]
  /\ \A o \in Orders : held[o] =
       [status |-> held[o].status, bank |-> held[o].bank, deposit |-> held[o].deposit,
        current |-> held[o].current]

\* Only orders that exist have an origin.
OriginOk == \A o \in Orders : order[o].source = "file" => order[o].state # "NONE"

\* An order that has not passed a validation holds nothing.
Bare(o) == order[o].state \in {"NONE", "RECEIVED", "MANUAL_REVIEW"} => held[o].status = "NONE"

IntakeInv ==
  /\ IntakeTypeOK /\ HeldShape /\ OriginOk /\ \A o \in Orders : Bare(o)
  /\ FilesCameInWhole /\ ImportsWaitVisibly

\* An order is never forgotten, and neither its payload nor its origin changes.
Kept(o) ==
  /\ order'[o].payload = order[o].payload /\ order'[o].source = order[o].source
  /\ order[o].state # "NONE" => order'[o].state # "NONE"

\* A reservation that was not there is not there.
StillNone == \A o \in Orders : held[o].status = "NONE" => held'[o].status = "NONE"

-----------------------------------------------------------------------------
(* Treasury *)

\* A confirmed payment has spent its reservation, what was sent has its day, and what left
\* was paid.
SpentOk ==
  /\ \A o \in Orders : /\ payment[o].status = "SUCCEEDED" => held[o].status = "SPENT"
                       /\ payment[o].status \in Exposed => payment[o].dispatched # "never"
  /\ \A o \in gone : held[o].status = "SPENT"

\* StockIsNotCountedTwice also while the stock is 0 and a unit may still come back to it.
Covered(s) ==
  product[s].stock > 0 \/ \E o \in Of(s) : held[o].status = "HELD" /\ held[o].current
StockFits(s) ==
  Covered(s) => product[s].stock + Cardinality(Allocated(s)) <= product[s].figure

TreasuryInv ==
  /\ TreasuryTypeOK /\ SpentOk /\ CommitmentsAreFunded /\ DailyLimitHolds
  /\ \A s \in Suppliers : StockFits(s)

\* The payments that DailyLimitHolds counts.
CountedToday ==
  {o \in Orders : Committed(payment[o])
                    /\ ~(payment[o].dispatched = "earlier" /\ held[o].status = "SPENT")}

LEMMA DailyLimitByCounted == DailyLimitHolds <=> Total(Cost, CountedToday) <= DailyLimit
<1>1. CountedToday = {o \in {x \in Orders : ~(payment[x].dispatched = "earlier"
                                                 /\ held[x].status = "SPENT")}
                        : Committed(payment[o])}
  BY DEF CountedToday
<1> QED
  BY <1>1 DEF DailyLimitHolds, DailyCommitments

LEMMA CostsAreAmounts == \A S : S \subseteq Orders => Amounts(Cost, S)
  BY TreasuryBounds, FS_Subset DEF Amounts

\* No payment comes to count: the limit holds as before.
LEMMA FewerCounted ==
  ASSUME DailyLimitHolds, CountedToday' \subseteq CountedToday
  PROVE  DailyLimitHolds'
<1> DEFINE before == CountedToday
           after == CountedToday'
<1>1. before \subseteq Orders /\ after \subseteq before
  BY DEF CountedToday
<1>2. Amounts(Cost, before) /\ Amounts(Cost, after)
  BY <1>1, CostsAreAmounts
<1>3. Total(Cost, before) <= DailyLimit
  BY DailyLimitByCounted
<1> HIDE DEF before, after
<1>4. /\ Total(Cost, after) <= Total(Cost, before)
      /\ Total(Cost, after) \in Nat /\ Total(Cost, before) \in Nat
  BY <1>1, <1>2, TotalMonotone, TotalType
<1>5. Total(Cost, after) <= DailyLimit
  BY <1>3, <1>4, TreasuryBounds
<1>6. (DailyLimitHolds <=> Total(Cost, CountedToday) <= DailyLimit)'
  BY DailyLimitByCounted, PTL
<1> QED
  BY <1>5, <1>6 DEF after

\* One payment comes to count, and the command has asked the limit with it.
LEMMA OneMoreCounted ==
  ASSUME NEW o \in Orders, WithinDailyLimit(o),
         \A x \in Orders \ {o} : x \in CountedToday' => Committed(payment[x])
  PROVE  DailyLimitHolds'
<1> DEFINE others == {x \in Orders \ {o} : Committed(payment[x])}
           after == CountedToday'
<1>1. others \subseteq Orders /\ after \subseteq others \cup {o} /\ o \notin others
  BY DEF CountedToday
<1>2. Total(Cost, others) + Cost[o] <= DailyLimit
  BY DEF WithinDailyLimit, DailyCommitments
<1>3. Amounts(Cost, others) /\ Amounts(Cost, others \cup {o}) /\ Amounts(Cost, after)
  BY <1>1, CostsAreAmounts
<1> HIDE DEF others, after
<1>4. Cost[o] \in Nat /\ DailyLimit \in Nat
  BY TreasuryBounds
<1>5. Total(Cost, others \cup {o}) = Total(Cost, others) + Cost[o]
  BY <1>1, <1>3, <1>4, TotalAdd
<1>6. /\ Total(Cost, after) <= Total(Cost, others \cup {o})
      /\ Total(Cost, after) \in Nat /\ Total(Cost, others \cup {o}) \in Nat
  BY <1>1, <1>3, TotalMonotone, TotalType
<1>7. Total(Cost, after) <= DailyLimit
  BY <1>2, <1>4, <1>5, <1>6
<1>8. (DailyLimitHolds <=> Total(Cost, CountedToday) <= DailyLimit)'
  BY DailyLimitByCounted, PTL
<1> QED
  BY <1>7, <1>8 DEF after

-----------------------------------------------------------------------------
\* What orders hold, as amounts.
HeldIsAmounts ==
  \A S : S \subseteq Orders => /\ Amounts([o \in Orders |-> held[o].bank], S)
                              /\ Amounts([o \in Orders |-> held[o].deposit], S)

LEMMA HeldAmounts == TreasuryTypeOK => HeldIsAmounts
  BY TreasuryBounds, FS_Subset DEF HeldIsAmounts, Amounts, TreasuryTypeOK, Reservation

SumsAreNatural == BankHeld \in Nat /\ \A s \in Suppliers : DepositHeld(s) \in Nat

LEMMA SumTypes == TreasuryTypeOK => SumsAreNatural
<1>1. HeldOrders \subseteq Orders /\ \A s \in Suppliers : HeldOrders \cap Of(s) \subseteq Orders
  BY DEF HeldOrders
<1> QED
  BY <1>1, HeldAmounts, TotalType DEF SumsAreNatural, HeldIsAmounts, BankHeld, DepositHeld

\* What an order's reservation adds to the sums.
BankShare(o) == IF held[o].status = "HELD" THEN held[o].bank ELSE 0
DepositShare(o, s) ==
  IF held[o].status = "HELD" /\ SupplierOf[o] = s THEN held[o].deposit ELSE 0

\* When one reservation changes the sums change by its shares.
LEMMA SharesMove ==
  ASSUME TreasuryTypeOK, TreasuryTypeOK', NEW o \in Orders,
         \A x \in Orders \ {o} : held'[x] = held[x]
  PROVE  /\ BankHeld' = BankHeld - BankShare(o) + BankShare(o)'
         /\ \A s \in Suppliers :
              DepositHeld(s)' = DepositHeld(s) - DepositShare(o, s) + DepositShare(o, s)'
<1> DEFINE f == [x \in Orders |-> held[x].bank]
           g == [x \in Orders |-> held'[x].bank]
           S == {x \in Orders : held[x].status = "HELD"}
           T == {x \in Orders : held'[x].status = "HELD"}
           d == [x \in Orders |-> held[x].deposit]
           e == [x \in Orders |-> held'[x].deposit]
<1>1. /\ \A U : U \subseteq Orders => Amounts(f, U) /\ Amounts(d, U)
      /\ \A U : U \subseteq Orders => Amounts(g, U) /\ Amounts(e, U)
  <2>1. (TreasuryTypeOK => HeldIsAmounts)'
    BY HeldAmounts, PTL
  <2> QED
    BY <2>1, HeldAmounts DEF HeldIsAmounts
<1>2. /\ S \subseteq Orders /\ T \subseteq Orders /\ S \ {o} = T \ {o}
      /\ \A y \in S \ {o} : f[y] = g[y] /\ d[y] = e[y]
  OBVIOUS
<1>3. /\ BankHeld = Total(f, S) /\ BankHeld' = Total(g, T)
      /\ \A s \in Suppliers : DepositHeld(s) = Total(d, S \cap Of(s))
                                /\ DepositHeld(s)' = Total(e, T \cap Of(s))
  BY DEF BankHeld, DepositHeld, HeldOrders, Of
<1>4. /\ BankShare(o) = IF o \in S THEN f[o] ELSE 0
      /\ BankShare(o)' = IF o \in T THEN g[o] ELSE 0
      /\ \A s \in Suppliers : /\ DepositShare(o, s) = IF o \in S \cap Of(s) THEN d[o] ELSE 0
                              /\ DepositShare(o, s)' = IF o \in T \cap Of(s) THEN e[o] ELSE 0
  BY DEF BankShare, DepositShare, Of
<1> HIDE DEF f, g, d, e, S, T
<1>5. Total(g, T) = Total(f, S) - (IF o \in S THEN f[o] ELSE 0) + (IF o \in T THEN g[o] ELSE 0)
  BY <1>1, <1>2, TotalChange
<1>6. ASSUME NEW s \in Suppliers
      PROVE  Total(e, T \cap Of(s)) = Total(d, S \cap Of(s))
               - (IF o \in S \cap Of(s) THEN d[o] ELSE 0)
               + (IF o \in T \cap Of(s) THEN e[o] ELSE 0)
  <2> DEFINE A == S \cap Of(s)
             B == T \cap Of(s)
  <2>1. A \subseteq Orders /\ B \subseteq Orders /\ A \ {o} = B \ {o}
    BY <1>2
  <2>2. \A y \in A \ {o} : d[y] = e[y]
    BY <1>2
  <2>3. Amounts(d, A) /\ Amounts(e, B)
    BY <1>1, <2>1
  <2> HIDE DEF A, B
  <2>4. Total(e, B) = Total(d, A) - (IF o \in A THEN d[o] ELSE 0) + (IF o \in B THEN e[o] ELSE 0)
    BY <2>1, <2>2, <2>3, TotalChange
  <2> QED
    BY <2>4 DEF A, B
<1> QED
  BY <1>3, <1>4, <1>5, <1>6

-----------------------------------------------------------------------------
\* No step of Treasury moves money that an order holds: the money it needs is there before.
LEMMA FundedStays ==
  ASSUME TreasuryTypeOK, TreasuryTypeOK', CommitmentsAreFunded, bank' >= bank,
         UNCHANGED deposit, BankHeld' <= BankHeld,
         \A s \in Suppliers : DepositHeld(s)' <= DepositHeld(s)
  PROVE  CommitmentsAreFunded'
<1>1. /\ BankHeld \in Nat /\ \A s \in Suppliers : DepositHeld(s) \in Nat
      /\ BankHeld' \in Nat /\ \A s \in Suppliers : DepositHeld(s)' \in Nat
  <2>1. (TreasuryTypeOK => SumsAreNatural)'
    BY SumTypes, PTL
  <2> QED
    BY <2>1, SumTypes DEF SumsAreNatural
<1>2. /\ bank \in Nat /\ bank' \in Nat /\ Reserves \in Nat
      /\ \A s \in Suppliers : deposit[s] \in Nat /\ deposit'[s] = deposit[s]
  BY TreasuryBounds DEF TreasuryTypeOK
<1>3. BankHeld' = 0 \/ bank' - BankHeld' - Reserves >= 0
  <2>1. \A a, b, x, y, r \in Nat :
          (x = 0 \/ a - x - r >= 0) /\ b >= a /\ y <= x => y = 0 \/ b - y - r >= 0
    OBVIOUS
  <2>2. BankHeld = 0 \/ bank - BankHeld - Reserves >= 0
    BY DEF CommitmentsAreFunded, FreeBank
  <2> QED
    BY <1>1, <1>2, <2>1, <2>2, Zenon
<1>4. \A s \in Suppliers : deposit'[s] >= DepositHeld(s)'
  BY <1>1, <1>2 DEF CommitmentsAreFunded
<1> QED
  BY <1>3, <1>4 DEF CommitmentsAreFunded, FreeBank

\* The step changes no reservation, or in one only what is of no amount.
LEMMA SumsStay ==
  ASSUME \A o \in Orders : /\ held'[o].status = held[o].status
                           /\ held'[o].bank = held[o].bank /\ held'[o].deposit = held[o].deposit
  PROVE  BankHeld' = BankHeld /\ \A s \in Suppliers : DepositHeld(s)' = DepositHeld(s)
<1>1. /\ HeldOrders' = HeldOrders
      /\ [o \in Orders |-> held'[o].bank] = [o \in Orders |-> held[o].bank]
      /\ [o \in Orders |-> held'[o].deposit] = [o \in Orders |-> held[o].deposit]
  BY DEF HeldOrders
<1> QED
  BY <1>1 DEF BankHeld, DepositHeld, Of

LEMMA AllocatedFinite ==
  \A s : IsFiniteSet(Allocated(s)) /\ Cardinality(Allocated(s)) \in Nat
<1>1. \A s : Allocated(s) \subseteq Orders
  BY DEF Allocated, Of
<1> QED
  BY <1>1, TreasuryBounds, FS_Subset, FS_CardinalityType

\* Nothing goes into the stock and nothing is allocated: a supplier's units fit as before.
LEMMA StockStays ==
  ASSUME TreasuryTypeOK, NEW s \in Suppliers, StockFits(s), product'[s] = product[s],
         \A o \in Of(s) : /\ o \in Allocated(s)' => o \in Allocated(s)
                          /\ held'[o].status = "HELD" /\ held'[o].current =>
                               held[o].status = "HELD" /\ held[o].current
  PROVE  StockFits(s)'
<1> DEFINE before == Allocated(s)
           after == Allocated(s)'
<1>1. after \subseteq before /\ after \subseteq Orders /\ before \subseteq Orders
  BY DEF Allocated, Of
<1>2. IsFiniteSet(before) /\ IsFiniteSet(after)
  BY <1>1, TreasuryBounds, FS_Subset
<1> HIDE DEF before, after
<1>3. Cardinality(after) <= Cardinality(before)
  BY <1>1, <1>2, FS_Subset
<1>4. Cardinality(after) \in Nat /\ Cardinality(before) \in Nat
  BY <1>2, FS_CardinalityType
<1>5. product[s].stock \in Nat /\ product[s].figure \in Nat
  BY DEF TreasuryTypeOK
<1>6. Covered(s)' => Covered(s)
  BY DEF Covered, Of
<1>7. Covered(s)' => product[s].stock + Cardinality(after) <= product[s].figure
  BY <1>3, <1>4, <1>5, <1>6 DEF StockFits, before
<1> QED
  BY <1>7 DEF StockFits, after

\* A step that changes payments only, apart from the limit.
PaymentsOnly ==
  /\ UNCHANGED <<bank, deposit, held, gone, product>>
  /\ cancelled' \subseteq Orders /\ recounted' \subseteq gone

LEMMA PaymentStep ==
  ASSUME TreasuryInv, PaymentsOnly, payment' \in [Orders -> Payment],
         \A o \in Orders :
           /\ payment'[o].status = "SUCCEEDED" => payment[o].status = "SUCCEEDED"
           /\ payment'[o].status \in Exposed => payment'[o].dispatched # "never",
         DailyLimitHolds'
  PROVE  TreasuryInv'
<1>1. TreasuryTypeOK'
  BY DEF TreasuryInv, TreasuryTypeOK, PaymentsOnly
<1>2. SpentOk'
  BY DEF TreasuryInv, SpentOk, PaymentsOnly
<1>3. CommitmentsAreFunded'
  BY DEF TreasuryInv, CommitmentsAreFunded, FreeBank, BankHeld, DepositHeld, HeldOrders, Of,
     PaymentsOnly
<1>4. \A s \in Suppliers : StockFits(s)'
  BY DEF TreasuryInv, StockFits, Covered, Allocated, Of, PaymentsOnly
<1> QED
  BY <1>1, <1>2, <1>3, <1>4 DEF TreasuryInv

\* A step that changes one payment: it comes to count only within the limit.
LEMMA OnePayment ==
  ASSUME TreasuryInv, PaymentsOnly, NEW o \in Orders, payment' \in [Orders -> Payment],
         \A x \in Orders \ {o} : payment'[x] = payment[x],
         payment'[o].status = "SUCCEEDED" => payment[o].status = "SUCCEEDED",
         payment'[o].status \in Exposed => payment'[o].dispatched # "never",
         o \in CountedToday' => WithinDailyLimit(o) \/ o \in CountedToday
  PROVE  TreasuryInv'
<1>1. UNCHANGED held
  BY DEF PaymentsOnly
<1>2. \A x \in Orders \ {o} : x \in CountedToday' => x \in CountedToday
  BY <1>1 DEF CountedToday, Committed
<1>3. DailyLimitHolds'
  <2>1. CASE WithinDailyLimit(o)
    <3>1. \A x \in Orders \ {o} : x \in CountedToday' => Committed(payment[x])
      BY <1>2 DEF CountedToday
    <3> QED
      BY <2>1, <3>1, OneMoreCounted
  <2>2. CASE ~WithinDailyLimit(o)
    <3>1. CountedToday' \subseteq Orders
      BY DEF CountedToday
    <3>2. CountedToday' \subseteq CountedToday
      BY <1>2, <2>2, <3>1
    <3> QED
      BY <3>2, FewerCounted DEF TreasuryInv
  <2> QED
    BY <2>1, <2>2
<1>4. \A x \in Orders :
        /\ payment'[x].status = "SUCCEEDED" => payment[x].status = "SUCCEEDED"
        /\ payment'[x].status \in Exposed => payment'[x].dispatched # "never"
  BY DEF TreasuryInv, SpentOk
<1> QED
  BY <1>3, <1>4, PaymentStep

LEMMA PrepareStep ==
  ASSUME TreasuryInv, NEW o \in Orders, Prepare(o)
  PROVE  TreasuryInv'
<1> DEFINE new == IF Cost[o] > AutoLimit \/ ~WithinDailyLimit(o)
                  THEN "MANUAL_APPROVAL" ELSE Ready(o)
<1>1. /\ PaymentsOnly /\ payment' = [payment EXCEPT ![o].status = new]
      /\ payment[o].status = "NONE"
  BY DEF Prepare, PaymentsOnly, cashVars, TreasuryInv, TreasuryTypeOK
<1>2. /\ new \in {"MANUAL_APPROVAL", "PENDING", "EVIDENCE_PENDING"}
      /\ new # "MANUAL_APPROVAL" => WithinDailyLimit(o)
  BY DEF Ready
<1> HIDE DEF new
<1>3. payment \in [Orders -> Payment]
  BY DEF TreasuryInv, TreasuryTypeOK
<1>4. /\ payment' \in [Orders -> Payment] /\ payment'[o].status = new
      /\ \A x \in Orders \ {o} : payment'[x] = payment[x]
  BY <1>1, <1>2, <1>3 DEF Payment, Waiting
<1>5. o \in CountedToday' => WithinDailyLimit(o)
  BY <1>2, <1>4 DEF CountedToday, Committed
<1> QED
  BY <1>1, <1>2, <1>3, <1>4, <1>5, OnePayment DEF Exposed

LEMMA ApproveStep ==
  ASSUME TreasuryInv, NEW o \in Orders, Approve(o)
  PROVE  TreasuryInv'
<1> DEFINE new == Ready(o)
<1>1. /\ PaymentsOnly /\ WithinDailyLimit(o)
      /\ payment' = [payment EXCEPT ![o].status = new, ![o].approved = TRUE]
  BY DEF Approve, PaymentsOnly, cashVars, TreasuryInv, TreasuryTypeOK
<1>2. new \in {"PENDING", "EVIDENCE_PENDING"}
  BY DEF Ready
<1> HIDE DEF new
<1>3. payment \in [Orders -> Payment]
  BY DEF TreasuryInv, TreasuryTypeOK
<1>4. /\ payment' \in [Orders -> Payment] /\ payment'[o].status = new
      /\ \A x \in Orders \ {o} : payment'[x] = payment[x]
  BY <1>1, <1>2, <1>3 DEF Payment, Waiting
<1> QED
  BY <1>1, <1>2, <1>3, <1>4, OnePayment DEF Exposed

LEMMA DispatchStep ==
  ASSUME TreasuryInv, NEW o \in Orders, Dispatch(o)
  PROVE  TreasuryInv'
<1>1. PaymentsOnly
  BY DEF Dispatch, PaymentsOnly, cashVars, TreasuryInv, TreasuryTypeOK
<1>2. payment \in [Orders -> Payment]
  BY DEF TreasuryInv, TreasuryTypeOK
<1>3. CASE /\ WithinDailyLimit(o)
           /\ payment' = [payment EXCEPT ![o].status = "SENDING", ![o].dispatched = "today"]
  <2>1. /\ payment' \in [Orders -> Payment]
        /\ payment'[o].status = "SENDING" /\ payment'[o].dispatched = "today"
        /\ \A x \in Orders \ {o} : payment'[x] = payment[x]
    BY <1>2, <1>3 DEF Payment, Exposed
  <2> QED
    BY <1>1, <1>2, <1>3, <2>1, OnePayment
<1>4. CASE payment' = [payment EXCEPT ![o].status = "MANUAL_APPROVAL"]
  <2>1. /\ payment' \in [Orders -> Payment] /\ payment'[o].status = "MANUAL_APPROVAL"
        /\ \A x \in Orders \ {o} : payment'[x] = payment[x]
    BY <1>2, <1>4 DEF Payment, Waiting
  <2>2. o \notin CountedToday'
    BY <2>1 DEF CountedToday, Committed
  <2> QED
    BY <1>1, <1>2, <2>1, <2>2, OnePayment DEF Exposed
<1> QED
  BY <1>3, <1>4 DEF Dispatch

\* A confirmed payment of an earlier day has spent its money, so it does not count again.
LEMMA UncertainStep ==
  ASSUME TreasuryInv, NEW o \in Orders, Uncertain(o)
  PROVE  TreasuryInv'
<1>1. /\ PaymentsOnly /\ payment[o].status \in Exposed
      /\ payment' = [payment EXCEPT ![o].status = "UNKNOWN"]
  BY DEF Uncertain, PaymentsOnly, cashVars, TreasuryInv, TreasuryTypeOK
<1>2. payment \in [Orders -> Payment]
  BY DEF TreasuryInv, TreasuryTypeOK
<1>3. /\ payment' \in [Orders -> Payment] /\ payment'[o].status = "UNKNOWN"
      /\ payment'[o].dispatched = payment[o].dispatched
      /\ \A x \in Orders \ {o} : payment'[x] = payment[x]
  BY <1>1, <1>2 DEF Payment, Exposed
<1>4. payment[o].dispatched \in {"today", "earlier"}
  BY <1>1, <1>2 DEF TreasuryInv, SpentOk, Payment
<1>5. UNCHANGED held
  BY <1>1 DEF PaymentsOnly
<1>6. o \in CountedToday' => o \in CountedToday
  BY <1>1, <1>3, <1>4, <1>5 DEF CountedToday, Committed, Exposed, TreasuryInv, SpentOk
<1> QED
  BY <1>1, <1>2, <1>3, <1>4, <1>6, OnePayment

LEMMA RecordEvidenceStep ==
  ASSUME TreasuryInv, NEW o \in Orders, RecordEvidence(o)
  PROVE  TreasuryInv'
<1>1. /\ PaymentsOnly /\ payment' = [payment EXCEPT ![o].proof = TRUE]
  BY DEF RecordEvidence, PaymentsOnly, cashVars, TreasuryInv, TreasuryTypeOK
<1>2. payment \in [Orders -> Payment]
  BY DEF TreasuryInv, TreasuryTypeOK
<1>3. /\ payment' \in [Orders -> Payment] /\ payment'[o].status = payment[o].status
      /\ payment'[o].dispatched = payment[o].dispatched
      /\ \A x \in Orders \ {o} : payment'[x] = payment[x]
  BY <1>1, <1>2 DEF Payment
<1>4. o \in CountedToday' => o \in CountedToday
  BY <1>1, <1>3 DEF CountedToday, Committed, PaymentsOnly
<1>5. payment[o].status \in Exposed => payment[o].dispatched # "never"
  BY DEF TreasuryInv, SpentOk
<1> QED
  BY <1>1, <1>2, <1>3, <1>4, <1>5, OnePayment

LEMMA TreasuryCancelStep ==
  ASSUME TreasuryInv, NEW o \in Orders, Cancel(o)
  PROVE  TreasuryInv'
<1>1. PaymentsOnly
  BY DEF Cancel, PaymentsOnly, cashVars, TreasuryInv, TreasuryTypeOK
<1>2. payment \in [Orders -> Payment]
  BY DEF TreasuryInv, TreasuryTypeOK
<1>3. CASE payment' = payment
  <2>1. o \in CountedToday' => o \in CountedToday
    BY <1>1, <1>3 DEF CountedToday, Committed, PaymentsOnly
  <2> QED
    BY <1>1, <1>2, <1>3, <2>1, OnePayment DEF TreasuryInv, SpentOk
<1>4. CASE payment' = [payment EXCEPT ![o].status = "CANCELLED"]
  <2>1. /\ payment' \in [Orders -> Payment] /\ payment'[o].status = "CANCELLED"
        /\ \A x \in Orders \ {o} : payment'[x] = payment[x]
    BY <1>2, <1>4 DEF Payment
  <2>2. o \notin CountedToday'
    BY <2>1 DEF CountedToday, Committed
  <2> QED
    BY <1>1, <2>1, <2>2, OnePayment DEF Exposed
<1> QED
  BY <1>3, <1>4 DEF Cancel

\* At midnight no payment comes to count.
LEMMA NewDayStep ==
  ASSUME TreasuryInv, NewDay
  PROVE  TreasuryInv'
<1>1. /\ PaymentsOnly /\ UNCHANGED held
      /\ payment' = [o \in Orders |-> IF payment[o].dispatched = "today"
                      THEN [payment[o] EXCEPT !.dispatched = "earlier"] ELSE payment[o]]
  BY DEF NewDay, PaymentsOnly, cashVars, TreasuryInv, TreasuryTypeOK
<1>2. payment \in [Orders -> Payment]
  BY DEF TreasuryInv, TreasuryTypeOK
<1>3. \A o \in Orders :
        /\ payment'[o] \in Payment /\ payment'[o].status = payment[o].status
        /\ payment'[o].dispatched = IF payment[o].dispatched = "today" THEN "earlier"
                                    ELSE payment[o].dispatched
  BY <1>1, <1>2 DEF Payment
<1>4. payment' \in [Orders -> Payment]
  BY <1>1, <1>3
<1>5. CountedToday' \subseteq CountedToday
  BY <1>1, <1>3 DEF CountedToday, Committed
<1>6. DailyLimitHolds'
  BY <1>5, FewerCounted DEF TreasuryInv
<1> QED
  BY <1>1, <1>3, <1>4, <1>6, PaymentStep DEF TreasuryInv, SpentOk

-----------------------------------------------------------------------------
\* Steps of one reservation.

\* Who holds what does not matter to the limit as long as the same orders have spent it.
LEMMA CountedStays ==
  ASSUME DailyLimitHolds, UNCHANGED payment,
         \A o \in Orders : held'[o].status = "SPENT" <=> held[o].status = "SPENT"
  PROVE  DailyLimitHolds'
<1>1. CountedToday' \subseteq CountedToday
  BY DEF CountedToday, Committed
<1> QED
  BY <1>1, FewerCounted

\* reserve() takes no more than what is free, from the deposit first.
LEMMA ReserveStep ==
  ASSUME TreasuryInv, NEW o \in Orders, Reserve(o)
  PROVE  TreasuryInv'
<1> DEFINE s == SupplierOf[o]
           free == FreeDeposit(s)
           paid == IF Cost[o] < free THEN Cost[o] ELSE free
           row == [status |-> "HELD", bank |-> Cost[o] - paid, deposit |-> paid,
                   current |-> TRUE]
<1>1. /\ held[o].status = "NONE" /\ Cost[o] <= AvailableCash(s) /\ product[s].stock > 0
      /\ held' = [held EXCEPT ![o] = row]
      /\ product' = [product EXCEPT ![s].stock = @ - 1]
      /\ UNCHANGED <<bank, deposit, payment, cancelled, gone, recounted>>
  BY DEF Reserve, cashVars
<1>2. /\ s \in Suppliers /\ Cost[o] \in Nat /\ Reserves \in Nat /\ bank \in Nat
      /\ deposit[s] \in Nat /\ BankHeld \in Nat /\ DepositHeld(s) \in Nat
      /\ \A q \in Suppliers : DepositHeld(q) \in Nat
  BY TreasuryBounds, SumTypes DEF TreasuryInv, TreasuryTypeOK, SumsAreNatural
<1>3. free \in Nat /\ paid \in Nat /\ paid <= free /\ paid <= Cost[o] /\ Cost[o] - paid \in Nat
  BY <1>2 DEF FreeDeposit
<1>4. Cost[o] - paid = 0 \/ Cost[o] - paid <= FreeBank
  BY <1>1, <1>2, <1>3 DEF AvailableCash, FreeBank
<1>5. DepositHeld(s) + paid <= deposit[s]
  BY <1>2, <1>3 DEF FreeDeposit, TreasuryInv, CommitmentsAreFunded
<1> HIDE DEF free, paid
<1>6. row \in Reservation
  BY <1>3 DEF Reservation
<1>7. /\ held' \in [Orders -> Reservation] /\ held'[o] = row
      /\ \A x \in Orders \ {o} : held'[x] = held[x]
  BY <1>1, <1>6 DEF TreasuryInv, TreasuryTypeOK
<1>8. /\ product' \in [Suppliers -> [stock : Nat, figure : Nat]]
      /\ product'[s].stock = product[s].stock - 1 /\ product'[s].figure = product[s].figure
      /\ product[s].stock \in Nat /\ product[s].figure \in Nat
      /\ \A q \in Suppliers \ {s} : product'[q] = product[q]
  BY <1>1, <1>2 DEF TreasuryInv, TreasuryTypeOK
<1>9. TreasuryTypeOK'
  BY <1>1, <1>7, <1>8 DEF TreasuryInv, TreasuryTypeOK
<1>10. SpentOk'
  BY <1>1, <1>7 DEF TreasuryInv, SpentOk
<1>11. /\ BankHeld' = BankHeld + (Cost[o] - paid) /\ DepositHeld(s)' = DepositHeld(s) + paid
       /\ \A q \in Suppliers \ {s} : DepositHeld(q)' = DepositHeld(q)
  <2>1. /\ BankHeld' = BankHeld - BankShare(o) + BankShare(o)'
        /\ \A q \in Suppliers :
             DepositHeld(q)' = DepositHeld(q) - DepositShare(o, q) + DepositShare(o, q)'
    BY <1>7, <1>9, SharesMove DEF TreasuryInv
  <2>2. BankShare(o) = 0 /\ BankShare(o)' = Cost[o] - paid
    BY <1>1, <1>7 DEF BankShare
  <2>3. \A q \in Suppliers : /\ DepositShare(o, q) = 0
                             /\ DepositShare(o, q)' = IF q = s THEN paid ELSE 0
    BY <1>1, <1>7 DEF DepositShare
  <2> QED
    BY <1>2, <1>3, <2>1, <2>2, <2>3
<1>12. CommitmentsAreFunded'
  <2>1. BankHeld' = 0 \/ bank' - BankHeld' - Reserves >= 0
    <3>1. BankHeld = 0 \/ FreeBank >= 0
      BY DEF TreasuryInv, CommitmentsAreFunded
    <3>2. FreeBank = bank - BankHeld - Reserves /\ bank' = bank
      BY <1>1 DEF FreeBank
    <3> QED
      BY <1>2, <1>3, <1>4, <1>11, <3>1, <3>2
  <2>2. \A q \in Suppliers : deposit'[q] >= DepositHeld(q)'
    BY <1>1, <1>2, <1>3, <1>5, <1>11 DEF TreasuryInv, CommitmentsAreFunded
  <2> QED
    BY <2>1, <2>2 DEF CommitmentsAreFunded, FreeBank
<1>13. DailyLimitHolds'
  BY <1>1, <1>7, CountedStays DEF TreasuryInv
<1>14. StockFits(s)'
  <2> DEFINE before == Allocated(s)
             after == Allocated(s)'
  <2>1. /\ after = before \cup {o} /\ o \notin before
    BY <1>1, <1>7 DEF Allocated, Of, TreasuryInv, SpentOk
  <2>2. IsFiniteSet(before) /\ Cardinality(before) \in Nat
    BY AllocatedFinite
  <2>3. product[s].stock + Cardinality(before) <= product[s].figure
    BY <1>1, <1>2 DEF TreasuryInv, StockFits, Covered
  <2> HIDE DEF before, after
  <2>4. Cardinality(after) = Cardinality(before) + 1
    BY <2>1, <2>2, FS_AddElement
  <2>5. product'[s].stock + Cardinality(after) <= product'[s].figure
    BY <1>8, <2>2, <2>3, <2>4
  <2> QED
    BY <2>5 DEF StockFits, after
<1>15. \A q \in Suppliers \ {s} : StockFits(q)'
  <2>1. \A q \in Suppliers \ {s} : \A x \in Of(q) : held'[x] = held[x]
    BY <1>7 DEF Of
  <2> QED
    BY <1>1, <1>8, <2>1, StockStays DEF TreasuryInv, Allocated, Of
<1> QED
  BY <1>9, <1>10, <1>12, <1>13, <1>14, <1>15 DEF TreasuryInv

\* An order's share is a part of the sums.
LEMMA ShareHeld ==
  ASSUME TreasuryTypeOK, NEW o \in Orders, held[o].status = "HELD"
  PROVE  held[o].bank <= BankHeld /\ held[o].deposit <= DepositHeld(SupplierOf[o])
<1> DEFINE f == [x \in Orders |-> held[x].bank]
           d == [x \in Orders |-> held[x].deposit]
           S == HeldOrders
           T == HeldOrders \cap Of(SupplierOf[o])
<1>1. S \subseteq Orders /\ T \subseteq Orders /\ o \in S /\ o \in T
  BY DEF HeldOrders, Of
<1>2. Amounts(f, S) /\ Amounts(d, T)
  BY <1>1, HeldAmounts DEF HeldIsAmounts
<1>3. f[o] = held[o].bank /\ d[o] = held[o].deposit
  OBVIOUS
<1> HIDE DEF f, d, S, T
<1>4. f[o] <= Total(f, S)
  BY <1>1, <1>2, TotalMember
<1>5. d[o] <= Total(d, T)
  BY <1>1, <1>2, TotalMember
<1> QED
  BY <1>3, <1>4, <1>5 DEF BankHeld, DepositHeld, f, d, S, T

\* A reservation that ends, by release or by payment, takes its shares out of the sums.
LEMMA SharesGo ==
  ASSUME TreasuryTypeOK, TreasuryTypeOK', NEW o \in Orders, held[o].status = "HELD",
         held'[o].status # "HELD", \A x \in Orders \ {o} : held'[x] = held[x]
  PROVE  /\ BankHeld' = BankHeld - held[o].bank
         /\ DepositHeld(SupplierOf[o])' = DepositHeld(SupplierOf[o]) - held[o].deposit
         /\ \A q \in Suppliers \ {SupplierOf[o]} : DepositHeld(q)' = DepositHeld(q)
<1> DEFINE s == SupplierOf[o]
<1>1. /\ s \in Suppliers /\ BankHeld \in Nat /\ \A q \in Suppliers : DepositHeld(q) \in Nat
      /\ held[o].bank \in Nat /\ held[o].deposit \in Nat
  BY TreasuryBounds, SumTypes DEF TreasuryTypeOK, SumsAreNatural, Reservation
<1>2. /\ BankHeld' = BankHeld - BankShare(o) + BankShare(o)'
      /\ \A q \in Suppliers :
           DepositHeld(q)' = DepositHeld(q) - DepositShare(o, q) + DepositShare(o, q)'
  BY SharesMove
<1>3. BankShare(o) = held[o].bank /\ BankShare(o)' = 0
  BY DEF BankShare
<1>4. \A q \in Suppliers : /\ DepositShare(o, q) = IF q = s THEN held[o].deposit ELSE 0
                           /\ DepositShare(o, q)' = 0
  BY DEF DepositShare
<1>5. DepositHeld(s)' = DepositHeld(s) - held[o].deposit
  BY <1>1, <1>2, <1>4
<1>6. \A q \in Suppliers \ {s} : DepositHeld(q)' = DepositHeld(q)
  BY <1>1, <1>2, <1>4
<1> QED
  BY <1>1, <1>2, <1>3, <1>5, <1>6

\* release(): a unit goes back only while the figure it was taken from still stands.
LEMMA ReleaseStep ==
  ASSUME TreasuryInv, NEW o \in Orders, NEW restore \in BOOLEAN, Release(o, restore)
  PROVE  TreasuryInv'
<1> DEFINE s == SupplierOf[o]
<1>1. /\ held[o].status = "HELD" /\ ~MoneyExposed(o)
      /\ held' = [held EXCEPT ![o] = Row("RELEASED")]
      /\ payment' = payment \/ payment' = [payment EXCEPT ![o].status = "CANCELLED"]
      /\ \/ product' = product
         \/ held[o].current /\ product' = [product EXCEPT ![s].stock = @ + 1]
      /\ UNCHANGED <<bank, deposit, cancelled, gone, recounted>>
  BY DEF Release, cashVars
<1>2. s \in Suppliers
  BY TreasuryBounds
<1>3. /\ held' \in [Orders -> Reservation] /\ held'[o] = Row("RELEASED")
      /\ \A x \in Orders \ {o} : held'[x] = held[x]
  BY <1>1 DEF TreasuryInv, TreasuryTypeOK, Reservation, Row
<1>4. /\ payment' \in [Orders -> Payment]
      /\ \A x \in Orders \ {o} : payment'[x] = payment[x]
      /\ payment'[o].status # "SUCCEEDED"
      /\ payment'[o] = payment[o] \/ payment'[o].status = "CANCELLED"
  <2>1. payment \in [Orders -> Payment] /\ payment[o].status # "SUCCEEDED"
    BY <1>1 DEF TreasuryInv, TreasuryTypeOK, MoneyExposed, Exposed
  <2>2. CASE payment' = payment
    BY <2>1, <2>2
  <2>3. CASE payment' = [payment EXCEPT ![o].status = "CANCELLED"]
    BY <2>1, <2>3 DEF Payment
  <2> QED
    BY <1>1, <2>2, <2>3
<1>5. /\ product' \in [Suppliers -> [stock : Nat, figure : Nat]]
      /\ \A q \in Suppliers \ {s} : product'[q] = product[q]
      /\ product'[s].figure = product[s].figure
      /\ \/ product'[s].stock = product[s].stock
         \/ held[o].current /\ product'[s].stock = product[s].stock + 1
      /\ product[s].stock \in Nat /\ product[s].figure \in Nat
  BY <1>1, <1>2 DEF TreasuryInv, TreasuryTypeOK
<1>6. TreasuryTypeOK'
  BY <1>1, <1>3, <1>4, <1>5 DEF TreasuryInv, TreasuryTypeOK
<1>7. SpentOk'
  BY <1>1, <1>3, <1>4 DEF TreasuryInv, SpentOk, Exposed
<1>8. CommitmentsAreFunded'
  <2>1. held'[o].status # "HELD"
    BY <1>3 DEF Row
  <2>2. /\ BankHeld' = BankHeld - held[o].bank
        /\ DepositHeld(s)' = DepositHeld(s) - held[o].deposit
        /\ \A q \in Suppliers \ {s} : DepositHeld(q)' = DepositHeld(q)
    BY <1>1, <1>3, <1>6, <2>1, SharesGo DEF TreasuryInv
  <2>3. /\ BankHeld \in Nat /\ bank \in Nat /\ \A q \in Suppliers : DepositHeld(q) \in Nat
        /\ held[o].bank \in Nat /\ held[o].deposit \in Nat
    BY SumTypes DEF TreasuryInv, TreasuryTypeOK, SumsAreNatural, Reservation
  <2>4. BankHeld' <= BankHeld /\ bank' >= bank
    BY <1>1, <2>2, <2>3
  <2>5. \A q \in Suppliers : DepositHeld(q)' <= DepositHeld(q)
    BY <1>2, <2>2, <2>3
  <2> QED
    BY <1>1, <1>6, <2>4, <2>5, FundedStays DEF TreasuryInv
<1>9. DailyLimitHolds'
  <2>1. CountedToday' \subseteq CountedToday
    BY <1>1, <1>3, <1>4 DEF CountedToday, Committed, Row
  <2> QED
    BY <2>1, FewerCounted DEF TreasuryInv
<1>10. StockFits(s)'
  <2> DEFINE before == Allocated(s)
             after == Allocated(s)'
  <2>1. after = before \ {o} /\ o \in before
    BY <1>1, <1>3 DEF Allocated, Of, Row, TreasuryInv, SpentOk
  <2>2. IsFiniteSet(before) /\ Cardinality(before) \in Nat
    BY AllocatedFinite
  <2>3. Covered(s)' => Covered(s)
    BY <1>1, <1>3, <1>5 DEF Covered, Of, Row
  <2>4. Covered(s)' => product[s].stock + Cardinality(before) <= product[s].figure
    BY <1>2, <2>3 DEF TreasuryInv, StockFits
  <2> HIDE DEF before, after
  <2>5. Cardinality(after) = Cardinality(before) - 1
    BY <2>1, <2>2, FS_RemoveElement
  <2>6. Covered(s)' => product'[s].stock + Cardinality(after) <= product'[s].figure
    BY <1>5, <2>2, <2>4, <2>5
  <2> QED
    BY <2>6 DEF StockFits, after
<1>11. \A q \in Suppliers \ {s} : StockFits(q)'
  <2>1. \A q \in Suppliers \ {s} : \A x \in Of(q) : held'[x] = held[x]
    BY <1>3 DEF Of
  <2> QED
    BY <1>1, <1>5, <2>1, StockStays DEF TreasuryInv, Allocated, Of
<1> QED
  BY <1>6, <1>7, <1>8, <1>9, <1>10, <1>11 DEF TreasuryInv

\* settle_payment: what leaves the accounts is what was held there.
LEMMA SettleStep ==
  ASSUME TreasuryInv, NEW o \in Orders, Settle(o),
         UNCHANGED <<cancelled, gone, recounted, product>>,
         payment' \in [Orders -> Payment], \A x \in Orders \ {o} : payment'[x] = payment[x],
         payment'[o].status = "SUCCEEDED", payment'[o].dispatched # "never", DailyLimitHolds'
  PROVE  TreasuryInv'
<1> DEFINE s == SupplierOf[o]
<1>1. /\ held[o].status = "HELD" /\ bank >= held[o].bank /\ deposit[s] >= held[o].deposit
      /\ bank' = bank - held[o].bank
      /\ deposit' = [deposit EXCEPT ![s] = @ - held[o].deposit]
      /\ held' = [held EXCEPT ![o] = Row("SPENT")]
  BY DEF Settle
<1>2. /\ s \in Suppliers /\ bank \in Nat /\ deposit \in [Suppliers -> Nat] /\ Reserves \in Nat
      /\ held[o].bank \in Nat /\ held[o].deposit \in Nat /\ BankHeld \in Nat
      /\ \A q \in Suppliers : DepositHeld(q) \in Nat
  BY TreasuryBounds, SumTypes DEF TreasuryInv, TreasuryTypeOK, SumsAreNatural, Reservation
<1>3. /\ held' \in [Orders -> Reservation] /\ held'[o] = Row("SPENT")
      /\ \A x \in Orders \ {o} : held'[x] = held[x]
  BY <1>1 DEF TreasuryInv, TreasuryTypeOK, Reservation, Row
<1>4. /\ bank' \in Nat /\ deposit' \in [Suppliers -> Nat]
      /\ deposit'[s] = deposit[s] - held[o].deposit
      /\ \A q \in Suppliers \ {s} : deposit'[q] = deposit[q]
  BY <1>1, <1>2
<1>5. TreasuryTypeOK'
  BY <1>3, <1>4 DEF TreasuryInv, TreasuryTypeOK
<1>6. SpentOk'
  BY <1>1, <1>3 DEF TreasuryInv, SpentOk, Row
<1>7. CommitmentsAreFunded'
  <2>1. held'[o].status # "HELD"
    BY <1>3 DEF Row
  <2>2. /\ BankHeld' = BankHeld - held[o].bank
        /\ DepositHeld(s)' = DepositHeld(s) - held[o].deposit
        /\ \A q \in Suppliers \ {s} : DepositHeld(q)' = DepositHeld(q)
    BY <1>1, <1>3, <1>5, <2>1, SharesGo DEF TreasuryInv
  <2>3. held[o].bank <= BankHeld
    BY <1>1, ShareHeld DEF TreasuryInv
  <2>4. BankHeld = 0 \/ bank - BankHeld - Reserves >= 0
    BY DEF TreasuryInv, CommitmentsAreFunded, FreeBank
  <2>5. BankHeld' = 0 \/ bank' - BankHeld' - Reserves >= 0
    BY <1>1, <1>2, <2>2, <2>3, <2>4
  <2>6. \A q \in Suppliers : deposit'[q] >= DepositHeld(q)'
    BY <1>2, <1>4, <2>2 DEF TreasuryInv, CommitmentsAreFunded
  <2> QED
    BY <2>5, <2>6 DEF CommitmentsAreFunded, FreeBank
<1>8. \A q \in Suppliers : StockFits(q)'
  <2>1. \A x \in Orders : /\ held'[x].status \in {"HELD", "SPENT"} => held[x].status \in {"HELD", "SPENT"}
                          /\ held'[x].status = "HELD" => held'[x] = held[x]
    BY <1>1, <1>3 DEF Row
  <2>2. \A q \in Suppliers : \A x \in Of(q) :
          /\ x \in Allocated(q)' => x \in Allocated(q)
          /\ held'[x].status = "HELD" /\ held'[x].current =>
               held[x].status = "HELD" /\ held[x].current
    BY <2>1 DEF Allocated, Of
  <2> QED
    BY <2>2, StockStays DEF TreasuryInv
<1> QED
  BY <1>5, <1>6, <1>7, <1>8 DEF TreasuryInv

LEMMA FinalizeStep ==
  ASSUME TreasuryInv, NEW o \in Orders, Finalize(o)
  PROVE  TreasuryInv'
<1>1. /\ payment[o].status \in {"SENDING", "UNKNOWN"} /\ Settle(o)
      /\ payment' = [payment EXCEPT ![o].status = "SUCCEEDED"]
      /\ UNCHANGED <<cancelled, gone, recounted, product>>
  BY DEF Finalize
<1>2. /\ payment' \in [Orders -> Payment] /\ payment'[o].status = "SUCCEEDED"
      /\ payment'[o].dispatched = payment[o].dispatched /\ payment[o].dispatched # "never"
      /\ \A x \in Orders \ {o} : payment'[x] = payment[x]
  BY <1>1 DEF TreasuryInv, TreasuryTypeOK, Payment, Exposed, SpentOk
<1>3. /\ held[o].status = "HELD" /\ \A x \in Orders \ {o} : held'[x] = held[x]
  BY <1>1 DEF Settle, TreasuryInv, TreasuryTypeOK
<1>4. CountedToday' \subseteq CountedToday
  BY <1>1, <1>2, <1>3 DEF CountedToday, Committed
<1>5. DailyLimitHolds'
  BY <1>4, FewerCounted DEF TreasuryInv
<1> QED
  BY <1>1, <1>2, <1>5, SettleStep

LEMMA ConfirmEvidenceStep ==
  ASSUME TreasuryInv, NEW o \in Orders, ConfirmEvidence(o)
  PROVE  TreasuryInv'
<1>1. /\ WithinDailyLimit(o) /\ Settle(o)
      /\ payment' = [payment EXCEPT ![o].status = "SUCCEEDED", ![o].dispatched = "today"]
      /\ UNCHANGED <<cancelled, gone, recounted, product>>
  BY DEF ConfirmEvidence
<1>2. /\ payment' \in [Orders -> Payment] /\ payment'[o].status = "SUCCEEDED"
      /\ payment'[o].dispatched = "today"
      /\ \A x \in Orders \ {o} : payment'[x] = payment[x]
  BY <1>1 DEF TreasuryInv, TreasuryTypeOK, Payment, Exposed
<1>3. \A x \in Orders \ {o} : x \in CountedToday' => Committed(payment[x])
  BY <1>2 DEF CountedToday, Committed
<1>4. DailyLimitHolds'
  BY <1>1, <1>3, OneMoreCounted
<1> QED
  BY <1>1, <1>2, <1>4, SettleStep

-----------------------------------------------------------------------------
\* The accounts, a supplier's figure, a shipment.

\* operations.funds: only what is free becomes a deposit.
LEMMA FundStep ==
  ASSUME TreasuryInv, NEW s \in Suppliers, NEW amount \in Transfers, Fund(s, amount)
  PROVE  TreasuryInv'
<1>1. /\ FreeBank >= amount /\ bank' = bank - amount
      /\ deposit' = [deposit EXCEPT ![s] = @ + amount]
      /\ UNCHANGED <<held, payment, cancelled, gone, recounted, product>>
  BY DEF Fund, orderVars
<1>2. /\ amount \in Nat /\ bank \in Nat /\ Reserves \in Nat /\ deposit \in [Suppliers -> Nat]
      /\ BankHeld \in Nat /\ \A q \in Suppliers : DepositHeld(q) \in Nat
  BY TreasuryBounds, SumTypes DEF TreasuryInv, TreasuryTypeOK, SumsAreNatural
<1>3. /\ bank' \in Nat /\ bank' - BankHeld - Reserves >= 0
      /\ deposit' \in [Suppliers -> Nat] /\ \A q \in Suppliers : deposit'[q] >= deposit[q]
  BY <1>1, <1>2 DEF FreeBank
<1>4. BankHeld' = BankHeld /\ \A q \in Suppliers : DepositHeld(q)' = DepositHeld(q)
  BY <1>1, SumsStay
<1>5. \A q \in Suppliers : deposit'[q] \in Nat /\ deposit[q] >= DepositHeld(q)
  BY <1>3 DEF TreasuryInv, CommitmentsAreFunded
<1>6. \A q \in Suppliers : deposit'[q] >= DepositHeld(q)'
  BY <1>2, <1>3, <1>4, <1>5
<1>7. CommitmentsAreFunded'
  BY <1>3, <1>4, <1>6 DEF CommitmentsAreFunded, FreeBank
<1>8. TreasuryTypeOK' /\ SpentOk'
  BY <1>1, <1>3 DEF TreasuryInv, TreasuryTypeOK, SpentOk
<1>9. DailyLimitHolds'
  BY <1>1, CountedStays DEF TreasuryInv
<1>10. \A q \in Suppliers : StockFits(q)'
  BY <1>1 DEF TreasuryInv, StockFits, Covered, Allocated, Of
<1> QED
  BY <1>7, <1>8, <1>9, <1>10 DEF TreasuryInv

LEMMA ReceiveStep ==
  ASSUME TreasuryInv, NEW amount \in Transfers, Receive(amount)
  PROVE  TreasuryInv'
<1>1. /\ bank' = bank + amount
      /\ UNCHANGED <<deposit, held, payment, cancelled, gone, recounted, product>>
  BY DEF Receive, orderVars
<1>2. amount \in Nat /\ bank \in Nat
  BY TreasuryBounds DEF TreasuryInv, TreasuryTypeOK
<1>3. bank' \in Nat /\ bank' >= bank
  BY <1>1, <1>2
<1>4. TreasuryTypeOK' /\ SpentOk'
  BY <1>1, <1>3 DEF TreasuryInv, TreasuryTypeOK, SpentOk
<1>5. BankHeld' = BankHeld /\ \A q \in Suppliers : DepositHeld(q)' = DepositHeld(q)
  BY <1>1, SumsStay
<1>6. BankHeld \in Nat /\ \A q \in Suppliers : DepositHeld(q) \in Nat
  BY SumTypes DEF TreasuryInv, SumsAreNatural
<1>7. CommitmentsAreFunded'
  BY <1>1, <1>3, <1>4, <1>5, <1>6, FundedStays DEF TreasuryInv
<1>8. DailyLimitHolds'
  BY <1>1, CountedStays DEF TreasuryInv
<1>9. \A q \in Suppliers : StockFits(q)'
  BY <1>1 DEF TreasuryInv, StockFits, Covered, Allocated, Of
<1> QED
  BY <1>4, <1>7, <1>8, <1>9 DEF TreasuryInv

\* confirm_supplier_recovery, confirm_recovery: a credit on either account takes nothing away.
LEMMA RecoverStep ==
  ASSUME TreasuryInv, NEW s \in Suppliers, NEW toBank \in Transfers \cup {0},
         NEW toDeposit \in Transfers \cup {0}, Recover(s, toBank, toDeposit)
  PROVE  TreasuryInv'
<1>1. /\ bank' = bank + toBank /\ deposit' = [deposit EXCEPT ![s] = @ + toDeposit]
      /\ UNCHANGED <<held, payment, cancelled, gone, recounted, product>>
  BY DEF Recover, orderVars
<1>2. /\ toBank \in Nat /\ toDeposit \in Nat /\ bank \in Nat /\ Reserves \in Nat
      /\ deposit \in [Suppliers -> Nat]
      /\ BankHeld \in Nat /\ \A q \in Suppliers : DepositHeld(q) \in Nat
  BY TreasuryBounds, SumTypes DEF TreasuryInv, TreasuryTypeOK, SumsAreNatural
<1>3. /\ bank' \in Nat /\ bank' >= bank
      /\ deposit' \in [Suppliers -> Nat] /\ \A q \in Suppliers : deposit'[q] >= deposit[q]
  BY <1>1, <1>2
<1>4. BankHeld' = BankHeld /\ \A q \in Suppliers : DepositHeld(q)' = DepositHeld(q)
  BY <1>1, SumsStay
<1>5. \A q \in Suppliers : deposit'[q] \in Nat /\ deposit[q] \in Nat /\ deposit[q] >= DepositHeld(q)
  BY <1>2, <1>3 DEF TreasuryInv, CommitmentsAreFunded
<1>6. \A q \in Suppliers : deposit'[q] >= DepositHeld(q)'
  BY <1>2, <1>3, <1>4, <1>5
<1>7. BankHeld = 0 \/ bank' - BankHeld - Reserves >= 0
  <2>1. BankHeld = 0 \/ bank - BankHeld - Reserves >= 0
    BY DEF TreasuryInv, CommitmentsAreFunded, FreeBank
  <2>2. \A a, b, x, r \in Nat : (x = 0 \/ a - x - r >= 0) /\ b >= a => x = 0 \/ b - x - r >= 0
    OBVIOUS
  <2> QED
    BY <1>2, <1>3, <2>1, <2>2, Zenon
<1>8. CommitmentsAreFunded'
  BY <1>4, <1>6, <1>7 DEF CommitmentsAreFunded, FreeBank
<1>9. TreasuryTypeOK' /\ SpentOk'
  BY <1>1, <1>3 DEF TreasuryInv, TreasuryTypeOK, SpentOk
<1>10. DailyLimitHolds'
  BY <1>1, CountedStays DEF TreasuryInv
<1>11. \A q \in Suppliers : StockFits(q)'
  BY <1>1 DEF TreasuryInv, StockFits, Covered, Allocated, Of
<1> QED
  BY <1>8, <1>9, <1>10, <1>11 DEF TreasuryInv

\* apply_price: what is allocated is taken off the new figure before anything is for sale.
LEMMA ImportStep ==
  ASSUME TreasuryInv, NEW s \in Suppliers, NEW figure \in Figures, Import(s, figure)
  PROVE  TreasuryInv'
<1> DEFINE counted == Cardinality(Counted(s))
           left == IF figure > counted THEN figure - counted ELSE 0
<1>1. /\ product' = [product EXCEPT ![s] = [stock |-> left, figure |-> figure]]
      /\ held' = [o \in Orders |->
           IF SupplierOf[o] = s THEN [held[o] EXCEPT !.current = FALSE] ELSE held[o]]
      /\ UNCHANGED <<bank, deposit, payment, cancelled, gone, recounted>>
  BY DEF Import, cashVars
<1>2. IsFiniteSet(Counted(s)) /\ counted \in Nat /\ Cardinality(Allocated(s)) <= counted
  <2>1. Counted(s) \subseteq Orders /\ Allocated(s) \subseteq Counted(s)
    BY DEF Counted, Allocated, Of
  <2>2. IsFiniteSet(Counted(s))
    BY <2>1, TreasuryBounds, FS_Subset
  <2> QED
    BY <2>1, <2>2, FS_Subset, FS_CardinalityType
<1>3. figure \in Nat /\ left \in Nat /\ (left > 0 => left + counted = figure)
  BY <1>2, TreasuryBounds
<1> HIDE DEF counted, left
<1>4. /\ product' \in [Suppliers -> [stock : Nat, figure : Nat]]
      /\ product'[s].stock = left /\ product'[s].figure = figure
      /\ \A q \in Suppliers \ {s} : product'[q] = product[q]
  <2>1. product \in [Suppliers -> [stock : Nat, figure : Nat]]
    BY DEF TreasuryInv, TreasuryTypeOK
  <2>2. [stock |-> left, figure |-> figure] \in [stock : Nat, figure : Nat]
    BY <1>3
  <2> QED
    BY <1>1, <2>1, <2>2
<1>5. \A o \in Orders :
        /\ held'[o] \in Reservation /\ held'[o].status = held[o].status
        /\ held'[o].bank = held[o].bank /\ held'[o].deposit = held[o].deposit
        /\ SupplierOf[o] = s => ~held'[o].current
        /\ SupplierOf[o] # s => held'[o] = held[o]
  BY <1>1 DEF TreasuryInv, TreasuryTypeOK, Reservation
<1>6. held' \in [Orders -> Reservation]
  BY <1>1, <1>5
<1>7. TreasuryTypeOK' /\ SpentOk'
  BY <1>1, <1>4, <1>5, <1>6 DEF TreasuryInv, TreasuryTypeOK, SpentOk
<1>8. BankHeld' = BankHeld /\ \A q \in Suppliers : DepositHeld(q)' = DepositHeld(q)
  BY <1>5, SumsStay
<1>9. CommitmentsAreFunded'
  BY <1>1, <1>8 DEF TreasuryInv, CommitmentsAreFunded, FreeBank
<1>10. DailyLimitHolds'
  BY <1>1, <1>5, CountedStays DEF TreasuryInv
<1>11. StockFits(s)'
  <2>1. Allocated(s)' = Allocated(s)
    BY <1>1, <1>5 DEF Allocated, Of
  <2>2. Covered(s)' => left > 0
    BY <1>4, <1>5 DEF Covered, Of
  <2>3. Cardinality(Allocated(s)) \in Nat
    BY AllocatedFinite
  <2>4. Covered(s)' => product'[s].stock + Cardinality(Allocated(s)) <= product'[s].figure
    BY <1>2, <1>3, <1>4, <2>2, <2>3
  <2> QED
    BY <2>1, <2>4 DEF StockFits
<1>12. \A q \in Suppliers \ {s} : StockFits(q)'
  <2>1. \A q \in Suppliers \ {s} : \A x \in Of(q) : held'[x] = held[x]
    BY <1>5 DEF Of
  <2> QED
    BY <1>1, <1>4, <2>1, StockStays DEF TreasuryInv, Allocated, Of
<1> QED
  BY <1>7, <1>9, <1>10, <1>11, <1>12 DEF TreasuryInv

LEMMA LeaveStep ==
  ASSUME TreasuryInv, NEW o \in Orders, Leave(o)
  PROVE  TreasuryInv'
<1>1. /\ held[o].status = "SPENT" /\ gone' = gone \cup {o}
      /\ UNCHANGED <<bank, deposit, held, payment, cancelled, recounted, product>>
  BY DEF Leave, cashVars
<1>2. TreasuryTypeOK' /\ SpentOk'
  BY <1>1 DEF TreasuryInv, TreasuryTypeOK, SpentOk
<1>3. BankHeld' = BankHeld /\ \A q \in Suppliers : DepositHeld(q)' = DepositHeld(q)
  BY <1>1, SumsStay
<1>4. CommitmentsAreFunded'
  BY <1>1, <1>3 DEF TreasuryInv, CommitmentsAreFunded, FreeBank
<1>5. DailyLimitHolds'
  BY <1>1, CountedStays DEF TreasuryInv
<1>6. \A q \in Suppliers : StockFits(q)'
  BY <1>1, StockStays DEF TreasuryInv, Allocated, Of
<1> QED
  BY <1>2, <1>4, <1>5, <1>6 DEF TreasuryInv

-----------------------------------------------------------------------------
LEMMA TreasuryStart == TreasuryInit => TreasuryInv
<1> SUFFICES ASSUME TreasuryInit PROVE TreasuryInv
  OBVIOUS
<1>1. /\ bank = OpeningBank /\ deposit = OpeningDeposit
      /\ held = [o \in Orders |-> Row("NONE")]
      /\ payment = [o \in Orders |-> [status |-> "NONE", approved |-> FALSE, proof |-> FALSE,
                                      dispatched |-> "never"]]
      /\ cancelled = {} /\ gone = {} /\ recounted = {}
  BY DEF TreasuryInit
<1>2. /\ product \in [Suppliers -> [stock : Nat, figure : Nat]]
      /\ \A s \in Suppliers : product[s].stock = product[s].figure
  BY TreasuryBounds DEF TreasuryInit
<1>3. TreasuryTypeOK
  BY <1>1, <1>2, TreasuryBounds DEF TreasuryTypeOK, Row, Reservation, Payment
<1>4. SpentOk
  BY <1>1 DEF SpentOk, Exposed
<1>5. HeldOrders = {} /\ \A s : HeldOrders \cap Of(s) = {}
  BY <1>1 DEF HeldOrders, Row
<1>6. BankHeld = 0 /\ \A s : DepositHeld(s) = 0
  BY <1>5, TotalEmpty DEF BankHeld, DepositHeld
<1>7. CommitmentsAreFunded
  BY <1>3, <1>6 DEF CommitmentsAreFunded, TreasuryTypeOK
<1>8. CountedToday = {}
  BY <1>1 DEF CountedToday, Committed
<1>9. DailyLimitHolds
  BY <1>8, TotalEmpty, DailyLimitByCounted, TreasuryBounds
<1>10. \A s \in Suppliers : StockFits(s)
  <2>1. ASSUME NEW s \in Suppliers PROVE Cardinality(Allocated(s)) = 0
    <3>1. Allocated(s) = {}
      BY <1>1 DEF Allocated, Of, Row
    <3> QED
      BY <3>1, FS_EmptySet
  <2>2. \A s \in Suppliers : product[s].stock \in Nat
    BY <1>2
  <2> QED
    BY <1>2, <2>1, <2>2 DEF StockFits
<1> QED
  BY <1>3, <1>4, <1>7, <1>9, <1>10 DEF TreasuryInv

LEMMA TreasuryInductive == TreasuryInv /\ [TreasuryNext]_treasuryVars => TreasuryInv'
<1> SUFFICES ASSUME TreasuryInv, [TreasuryNext]_treasuryVars PROVE TreasuryInv'
  OBVIOUS
<1>1. ASSUME NEW o \in Orders, Pay(o) PROVE TreasuryInv'
  BY <1>1, PrepareStep, ApproveStep, DispatchStep, UncertainStep, FinalizeStep,
     RecordEvidenceStep, ConfirmEvidenceStep DEF Pay
<1>2. ASSUME NEW o \in Orders, Leave(o) PROVE TreasuryInv'
  BY <1>2, LeaveStep
<1>3. ASSUME NEW o \in Orders, NEW restore \in BOOLEAN, Release(o, restore) PROVE TreasuryInv'
  BY <1>3, ReleaseStep
<1>4. ASSUME NEW s \in Suppliers, NEW amount \in Transfers, Fund(s, amount) PROVE TreasuryInv'
  BY <1>4, FundStep
<1>5. ASSUME NEW amount \in Transfers, Receive(amount) PROVE TreasuryInv'
  BY <1>5, ReceiveStep
<1>6. ASSUME NEW s \in Suppliers, NEW toBank \in Transfers \cup {0},
             NEW toDeposit \in Transfers \cup {0}, Recover(s, toBank, toDeposit)
      PROVE  TreasuryInv'
  BY <1>6, RecoverStep
<1>7. CASE NewDay
  BY <1>7, NewDayStep
<1>8. ASSUME NEW o \in Orders, Reserve(o) PROVE TreasuryInv'
  BY <1>8, ReserveStep
<1>9. ASSUME NEW o \in Orders, Cancel(o) PROVE TreasuryInv'
  BY <1>9, TreasuryCancelStep
<1>10. ASSUME NEW s \in Suppliers, NEW figure \in Figures, Import(s, figure) PROVE TreasuryInv'
  BY <1>10, ImportStep
<1>11. CASE UNCHANGED treasuryVars
  <2>1. UNCHANGED <<bank, deposit, held, payment, cancelled, gone, recounted, product>>
    BY <1>11 DEF treasuryVars, cashVars, orderVars
  <2>2. TreasuryTypeOK' /\ SpentOk'
    BY <2>1 DEF TreasuryInv, TreasuryTypeOK, SpentOk
  <2>3. CommitmentsAreFunded'
    BY <2>1, SumsStay DEF TreasuryInv, CommitmentsAreFunded, FreeBank
  <2>4. DailyLimitHolds' /\ \A s \in Suppliers : StockFits(s)'
    BY <2>1, CountedStays, StockStays DEF TreasuryInv, Allocated, Of
  <2> QED
    BY <2>2, <2>3, <2>4 DEF TreasuryInv
<1> QED
  BY <1>1, <1>2, <1>3, <1>4, <1>5, <1>6, <1>7, <1>8, <1>9, <1>10, <1>11 DEF TreasuryNext, TreasuryStep

\* The treasury for itself: every reachable state satisfies the invariant, whatever uses it.
THEOREM TreasuryInvariant == TreasurySpec => []TreasuryInv
<1> QED
  BY TreasuryStart, TreasuryInductive, PTL DEF TreasurySpec

-----------------------------------------------------------------------------
\* What Treasury does to reservations, in the words of this module.
LEMMA TreasuryHeld ==
  ASSUME HeldShape, TreasuryStep
  PROVE  HeldShape' /\ StillNone
<1>1. ASSUME NEW o \in Orders, NEW restore \in BOOLEAN, Release(o, restore)
      PROVE  HeldShape' /\ StillNone
  BY <1>1 DEF Release, HeldShape, StillNone, Row
<1>2. ASSUME NEW o \in Orders, Settle(o)
      PROVE  HeldShape' /\ StillNone
  BY <1>2 DEF Settle, HeldShape, StillNone, Row
<1>3. ASSUME UNCHANGED held PROVE HeldShape' /\ StillNone
  BY <1>3 DEF HeldShape, StillNone
<1>4. ASSUME NEW o \in Orders, Pay(o) \/ Leave(o)
      PROVE  Settle(o) \/ UNCHANGED held
  BY <1>4 DEF Pay, Leave, Prepare, Approve, Dispatch, Uncertain, Finalize, RecordEvidence,
     ConfirmEvidence
<1>5. ASSUME \/ \E s \in Suppliers, amount \in Transfers : Fund(s, amount)
             \/ \E amount \in Transfers : Receive(amount)
             \/ \E s \in Suppliers, toBank, toDeposit \in Transfers \cup {0} :
                  Recover(s, toBank, toDeposit)
             \/ NewDay
      PROVE  UNCHANGED held
  BY <1>5 DEF Fund, Receive, Recover, NewDay, orderVars
<1> QED
  BY <1>1, <1>2, <1>3, <1>4, <1>5 DEF TreasuryStep

LEMMA ImportHeld ==
  ASSUME HeldShape, NEW s \in Suppliers, NEW figure \in Figures, Import(s, figure)
  PROVE  HeldShape' /\ StillNone
<1>1. held' = [o \in Orders |->
         IF SupplierOf[o] = s THEN [held[o] EXCEPT !.current = FALSE] ELSE held[o]]
  BY DEF Import
<1>2. ASSUME NEW o \in Orders
      PROVE  /\ held'[o].status = held[o].status
             /\ held'[o] = [status |-> held'[o].status, bank |-> held'[o].bank,
                            deposit |-> held'[o].deposit, current |-> held'[o].current]
  <2>1. PICK a, b, c, d : held[o] = [status |-> a, bank |-> b, deposit |-> c, current |-> d]
    BY DEF HeldShape
  <2>2. \A e : [[status |-> a, bank |-> b, deposit |-> c, current |-> d] EXCEPT !.current = e] =
                  [status |-> a, bank |-> b, deposit |-> c, current |-> e]
    OBVIOUS
  <2>3. [held[o] EXCEPT !.current = FALSE] =
          [status |-> a, bank |-> b, deposit |-> c, current |-> FALSE]
    BY <2>1, <2>2, Zenon
  <2> QED
    BY <1>1, <2>1, <2>3
<1> QED
  BY <1>1, <1>2 DEF HeldShape, StillNone

LEMMA ReserveHeld ==
  ASSUME HeldShape, NEW o \in Orders, Reserve(o)
  PROVE  HeldShape' /\ \A x \in Orders \ {o} : held'[x] = held[x]
<1> DEFINE free == FreeDeposit(SupplierOf[o])
           fromDeposit == IF Cost[o] < free THEN Cost[o] ELSE free
<1>1. held' = [held EXCEPT ![o] = [status |-> "HELD", bank |-> Cost[o] - fromDeposit,
                                   deposit |-> fromDeposit, current |-> TRUE]]
  BY DEF Reserve
<1> HIDE DEF fromDeposit
<1> QED
  BY <1>1 DEF HeldShape

-----------------------------------------------------------------------------
\* Every step but a commit keeps what the files are compared with.
LEMMA FilesStay ==
  ASSUME FilesCameInWhole, OriginOk, committed' = committed,
         \A f \in Files : LinesOf(f) \subseteq Orders, committed \subseteq Files,
         \A o \in Orders : Kept(o) \/ (order[o].state = "NONE" /\ order'[o].source # "file"
                                       /\ order'[o].state # "NONE")
  PROVE  FilesCameInWhole' /\ OriginOk'
<1> DEFINE Is(o) == Kept(o) \/ (order[o].state = "NONE" /\ order'[o].source # "file"
                                 /\ order'[o].state # "NONE")
<1>1. ASSUME NEW f \in committed', NEW o \in LinesOf(f)
      PROVE  order'[o].state # "NONE" /\ order'[o].payload = Content[f][o]
  <2>1. f \in committed /\ o \in Orders
    BY <1>1
  <2>2. order[o].state # "NONE" /\ order[o].payload = Content[f][o]
    BY <2>1, <1>1 DEF FilesCameInWhole
  <2> QED
    BY <2>1, <2>2 DEF Kept
<1>2. ASSUME NEW o \in Orders, order'[o].source = "file"
      PROVE  /\ order'[o].state # "NONE"
             /\ \E f \in committed' : o \in LinesOf(f) /\ order'[o].payload = Content[f][o]
  <2>1. Kept(o)
    BY <1>2
  <2>2. order[o].source = "file" /\ order[o].state # "NONE"
    BY <2>1, <1>2 DEF Kept, OriginOk
  <2>3. \E f \in committed : o \in LinesOf(f) /\ order[o].payload = Content[f][o]
    BY <2>2 DEF FilesCameInWhole
  <2> QED
    BY <2>1, <2>2, <2>3 DEF Kept
<1> QED
  BY <1>1, <1>2 DEF FilesCameInWhole, OriginOk, LinesOf

\* ImportsWaitVisibly, of one order.
Waits(o) ==
  order[o].source = "file" =>
    /\ order[o].state = "RECEIVED" => SourceReview \in order[o].reviews
    /\ order[o].state = "MANUAL_REVIEW" => order[o].reviews # {}
    /\ SourceReview \in order[o].reviews => held[o].status = "NONE"
    /\ order[o].state = "SUPPLIER_ORDER_PENDING" => order[o].reviews = {}

LEMMA WaitsStays ==
  ASSUME NEW o \in Orders, Waits(o), order'[o] = order[o],
         held[o].status = "NONE" => held'[o].status = "NONE"
  PROVE  Waits(o)'
  BY DEF Waits

\* A validated order: accepted with nothing open, or held with a reason.
LEMMA ValidatedStep ==
  ASSUME IntakeInv, NEW o \in Orders, NEW resolved,
         \/ /\ Accept(o, resolved)
            /\ order[o].source = "file" => resolved = RetryReviews \cup {SourceReview}
         \/ \E code \in RetryReviews : Refuse(o, code, resolved),
         order[o].state \in {"RECEIVED", "MANUAL_REVIEW"}
  PROVE  IntakeInv'
<1> DEFINE row == order[o]
<1>1. row \in Order /\ order \in [Orders -> Order]
  BY DEF IntakeInv, IntakeTypeOK
<1>2. CASE /\ Accept(o, resolved)
           /\ order[o].source = "file" => resolved = RetryReviews \cup {SourceReview}
  <2>1. HeldShape' /\ \A x \in Orders \ {o} : held'[x] = held[x]
    BY <1>2, ReserveHeld DEF Accept, IntakeInv
  <2>2. order' = [order EXCEPT ![o].state = "SUPPLIER_ORDER_PENDING",
                               ![o].reviews = @ \ resolved] /\ UNCHANGED <<committed, onSale>>
    BY <1>2 DEF Accept
  <2>3. /\ order'[o] = [row EXCEPT !.state = "SUPPLIER_ORDER_PENDING", !.reviews = @ \ resolved]
        /\ \A x \in Orders \ {o} : order'[x] = order[x]
        /\ order' \in [Orders -> Order]
    BY <2>2, <1>1 DEF Order
  <2>4. row.source = "file" => order'[o].reviews = {}
    BY <1>1, <1>2, <2>3 DEF Order
  <2>5. Waits(o)'
    BY <1>1, <2>3, <2>4 DEF Waits, Order
  <2>6. IntakeTypeOK'
    BY <2>2, <2>3 DEF IntakeInv, IntakeTypeOK
  <2>7. \A x \in Orders : Kept(x)
    BY <1>1, <2>3 DEF Kept, Order
  <2>8. \A x \in Orders : Waits(x)
    BY DEF IntakeInv, ImportsWaitVisibly, Waits
  <2>9. \A x \in Orders : Waits(x)'
    BY <2>1, <2>3, <2>5, <2>8, WaitsStays
  <2>10. FilesCameInWhole' /\ OriginOk'
    BY <2>2, <2>7, FilesStay, IntakeContents DEF IntakeInv, IntakeTypeOK, LinesOf
  <2>11. \A x \in Orders : Bare(x)'
    BY <2>1, <2>3, <1>1 DEF IntakeInv, Bare, Order
  <2> QED
    BY <2>1, <2>6, <2>9, <2>10, <2>11 DEF IntakeInv, ImportsWaitVisibly, Waits
<1>3. CASE \E code \in RetryReviews : Refuse(o, code, resolved)
  <2>1. PICK code \in RetryReviews : Refuse(o, code, resolved)
    BY <1>3
  <2>2. /\ order' = [order EXCEPT ![o].state = "MANUAL_REVIEW",
                                  ![o].reviews = (@ \ resolved) \cup {code}]
        /\ UNCHANGED <<treasuryVars, committed>> /\ onSale' \subseteq onSale
    BY <2>1 DEF Refuse
  <2>3. /\ order'[o] = [row EXCEPT !.state = "MANUAL_REVIEW",
                                   !.reviews = (@ \ resolved) \cup {code}]
        /\ \A x \in Orders \ {o} : order'[x] = order[x]
        /\ order' \in [Orders -> Order]
    BY <2>2, <1>1 DEF Order
  <2>4. UNCHANGED held
    BY <2>2 DEF treasuryVars, orderVars
  <2>5. Waits(o)'
    BY <1>1, <2>3, <2>4 DEF Waits, Order, IntakeInv, Bare
  <2>6. IntakeTypeOK' /\ HeldShape'
    BY <2>2, <2>3, <2>4 DEF IntakeInv, IntakeTypeOK, HeldShape
  <2>7. \A x \in Orders : Kept(x)
    BY <1>1, <2>3 DEF Kept, Order
  <2>8. \A x \in Orders : Waits(x)
    BY DEF IntakeInv, ImportsWaitVisibly, Waits
  <2>9. \A x \in Orders : Waits(x)'
    BY <2>3, <2>4, <2>5, <2>8, WaitsStays
  <2>10. FilesCameInWhole' /\ OriginOk'
    BY <2>2, <2>7, FilesStay, IntakeContents DEF IntakeInv, IntakeTypeOK, LinesOf
  <2>11. \A x \in Orders : Bare(x)'
    BY <2>3, <2>4 DEF IntakeInv, Bare
  <2> QED
    BY <2>6, <2>9, <2>10, <2>11 DEF IntakeInv, ImportsWaitVisibly, Waits
<1> QED
  BY <1>2, <1>3

-----------------------------------------------------------------------------
\* A step that leaves the orders alone and takes no reservation.
LEMMA OrdersUntouched ==
  ASSUME IntakeInv, HeldShape', StillNone, UNCHANGED <<order, committed>>,
         onSale' \subseteq Suppliers
  PROVE  IntakeInv'
<1>1. \A o \in Orders : Waits(o)'
  BY WaitsStays DEF IntakeInv, ImportsWaitVisibly, Waits, StillNone
<1>2. \A o \in Orders : Bare(o)'
  BY DEF IntakeInv, Bare, StillNone
<1> QED
  BY <1>1, <1>2 DEF IntakeInv, IntakeTypeOK, OriginOk, FilesCameInWhole, LinesOf,
     ImportsWaitVisibly, Waits

\* Commit: every line of the file is there afterwards as it is written.
LEMMA CommitStep ==
  ASSUME IntakeInv, NEW f \in Files, Commit(f)
  PROVE  IntakeInv'
<1>1. /\ order \in [Orders -> Order] /\ order' = [o \in Orders |-> Imported(f, o)]
      /\ committed' = committed \cup {f} /\ onSale' = onSale /\ UNCHANGED held
      /\ LinesOf(f) \subseteq Orders
  BY IntakeContents DEF IntakeInv, IntakeTypeOK, Commit, treasuryVars, orderVars, LinesOf
<1>2. ASSUME NEW o \in Orders
      PROVE  /\ order'[o] = Imported(f, o) /\ Imported(f, o) \in Order
             /\ order[o].state # "NONE" => order'[o] = order[o]
             /\ o \notin LinesOf(f) => order'[o] = order[o]
             /\ o \in LinesOf(f) => /\ order'[o].state # "NONE"
                                    /\ order'[o].payload = Content[f][o]
  BY <1>1 DEF Imported, Order, Commit, Committable, Payloads, LinesOf
<1>3. IntakeTypeOK' /\ HeldShape'
  BY <1>1, <1>2 DEF IntakeInv, IntakeTypeOK, HeldShape
<1>4. ASSUME NEW g \in committed', NEW o \in LinesOf(g)
      PROVE  order'[o].state # "NONE" /\ order'[o].payload = Content[g][o]
  <2>1. CASE g = f
    BY <1>1, <1>2, <1>4, <2>1
  <2>2. CASE g \in committed
    <3>1. o \in Orders
      BY <2>2, <1>4, IntakeContents DEF IntakeInv, IntakeTypeOK, LinesOf
    <3> QED
      BY <2>2, <3>1, <1>2, <1>4 DEF IntakeInv, FilesCameInWhole
  <2> QED
    BY <1>1, <2>1, <2>2
<1>5. ASSUME NEW o \in Orders, order'[o].source = "file"
      PROVE  /\ order'[o].state # "NONE"
             /\ \E g \in committed' : o \in LinesOf(g) /\ order'[o].payload = Content[g][o]
  <2>1. CASE o \in LinesOf(f)
    BY <1>1, <1>2, <2>1
  <2>2. CASE o \notin LinesOf(f)
    BY <1>1, <1>2, <1>5, <2>2 DEF IntakeInv, FilesCameInWhole, OriginOk
  <2> QED
    BY <2>1, <2>2
<1>6. ASSUME NEW o \in Orders PROVE Waits(o)'
  <2>1. CASE order'[o] = order[o]
    BY <1>1, <2>1, WaitsStays DEF IntakeInv, ImportsWaitVisibly, Waits
  <2>2. CASE order'[o] # order[o]
    <3>1. /\ order[o].state = "NONE"
          /\ order'[o] = [state |-> "RECEIVED", source |-> "file", payload |-> Content[f][o],
                          reviews |-> {SourceReview}]
      BY <1>2, <2>2 DEF Imported
    <3>2. held[o].status = "NONE"
      BY <3>1 DEF IntakeInv, Bare
    <3> QED
      BY <1>1, <3>1, <3>2 DEF Waits
  <2> QED
    BY <2>1, <2>2
<1>7. ASSUME NEW o \in Orders PROVE Bare(o)'
  BY <1>1, <1>2 DEF IntakeInv, Bare
<1> QED
  BY <1>3, <1>4, <1>5, <1>6, <1>7 DEF IntakeInv, FilesCameInWhole, OriginOk, ImportsWaitVisibly,
     Waits, LinesOf

LEMMA IngestStep ==
  ASSUME IntakeInv, NEW o \in Orders, Ingest(o)
  PROVE  IntakeInv'
<1>1. /\ order \in [Orders -> Order] /\ UNCHANGED <<held, committed, onSale>>
      /\ order[o].state = "NONE"
      /\ order' = [order EXCEPT ![o] =
           [state |-> "RECEIVED", source |-> "api", payload |-> ApiPayload, reviews |-> {}]]
  BY DEF IntakeInv, IntakeTypeOK, Ingest, treasuryVars, orderVars
<1>2. /\ order'[o] = [state |-> "RECEIVED", source |-> "api", payload |-> ApiPayload,
                      reviews |-> {}]
      /\ \A x \in Orders \ {o} : order'[x] = order[x]
      /\ order' \in [Orders -> Order]
  BY <1>1 DEF Order, Payloads
<1>3. FilesCameInWhole' /\ OriginOk'
  BY <1>1, <1>2, FilesStay, IntakeContents DEF IntakeInv, IntakeTypeOK, LinesOf, Kept
<1>4. \A x \in Orders : Waits(x)' /\ Bare(x)'
  BY <1>1, <1>2 DEF IntakeInv, ImportsWaitVisibly, Waits, Bare
<1> QED
  BY <1>1, <1>2, <1>3, <1>4 DEF IntakeInv, IntakeTypeOK, HeldShape, ImportsWaitVisibly, Waits

LEMMA CancelStep ==
  ASSUME IntakeInv, NEW o \in Orders, CancelOrder(o)
  PROVE  IntakeInv'
<1>1. /\ order \in [Orders -> Order] /\ UNCHANGED <<held, committed, onSale>>
      /\ order[o].state # "NONE"
      /\ order' = order \/ order' = [order EXCEPT ![o].state = "CANCELLED"]
  BY DEF IntakeInv, IntakeTypeOK, CancelOrder, Cancel
<1>2. CASE order' = order
  BY <1>1, <1>2, OrdersUntouched DEF IntakeInv, IntakeTypeOK, HeldShape, StillNone
<1>3. CASE order' = [order EXCEPT ![o].state = "CANCELLED"]
  <2>1. /\ order'[o] = [order[o] EXCEPT !.state = "CANCELLED"]
        /\ \A x \in Orders \ {o} : order'[x] = order[x]
        /\ order' \in [Orders -> Order]
    BY <1>1, <1>3 DEF Order
  <2>2. \A x \in Orders : Kept(x)
    BY <1>1, <2>1 DEF Kept, Order
  <2>3. FilesCameInWhole' /\ OriginOk'
    BY <1>1, <2>2, FilesStay, IntakeContents DEF IntakeInv, IntakeTypeOK, LinesOf
  <2>4. \A x \in Orders : Waits(x)' /\ Bare(x)'
    BY <1>1, <2>1 DEF IntakeInv, ImportsWaitVisibly, Waits, Bare, Order
  <2> QED
    BY <1>1, <2>1, <2>3, <2>4 DEF IntakeInv, IntakeTypeOK, HeldShape, ImportsWaitVisibly, Waits
<1> QED
  BY <1>1, <1>2, <1>3

-----------------------------------------------------------------------------
\* The invariant is inductive.
LEMMA IntakeStart == IntakeInit => IntakeInv
<1> SUFFICES ASSUME IntakeInit PROVE IntakeInv
  OBVIOUS
<1>1. /\ held = [o \in Orders |-> Row("NONE")] /\ committed = {} /\ onSale \subseteq Suppliers
      /\ order = [o \in Orders |->
           [state |-> "NONE", source |-> "none", payload |-> ApiPayload, reviews |-> {}]]
  BY DEF IntakeInit, TreasuryInit
<1>2. IntakeTypeOK
  BY <1>1 DEF IntakeTypeOK, Order, Payloads
<1> QED
  BY <1>1, <1>2 DEF IntakeInv, HeldShape, Row, OriginOk, Bare, FilesCameInWhole,
     ImportsWaitVisibly

LEMMA IntakeInductive == IntakeInv /\ [IntakeNext]_allVars => IntakeInv'
<1> SUFFICES ASSUME IntakeInv, [IntakeNext]_allVars PROVE IntakeInv'
  OBVIOUS
<1>1. CASE UNCHANGED allVars
  BY <1>1, OrdersUntouched DEF allVars, treasuryVars, orderVars, intakeVars, IntakeInv,
     IntakeTypeOK, HeldShape, StillNone
<1>2. CASE \E o \in Orders : Ingest(o)
  BY <1>2, IngestStep
<1>3. CASE \E o \in Orders : ProcessOrder(o)
  <2>1. PICK o \in Orders : ProcessOrder(o)
    BY <1>3
  <2> QED
    BY <2>1, ValidatedStep DEF ProcessOrder
<1>4. CASE \E o \in Orders : Verify(o)
  <2>1. PICK o \in Orders : Verify(o)
    BY <1>4
  <2>2. CASE Accept(o, RetryReviews \cup {SourceReview})
    BY <2>1, <2>2, ValidatedStep DEF Verify
  <2>3. CASE \E code \in RetryReviews : Refuse(o, code, {SourceReview})
    BY <2>1, <2>3, ValidatedStep DEF Verify
  <2> QED
    BY <2>1, <2>2, <2>3 DEF Verify
<1>5. CASE \E o \in Orders : CancelOrder(o)
  BY <1>5, CancelStep
<1>6. CASE \E f \in Files : Commit(f)
  BY <1>6, CommitStep
<1>7. CASE \E s \in Suppliers : ListingChanges(s)
  BY <1>7, OrdersUntouched DEF ListingChanges, treasuryVars, orderVars, IntakeInv,
     IntakeTypeOK, HeldShape, StillNone
<1>8. CASE \E s \in Suppliers, figure \in Figures : ImportStock(s, figure)
  <2>1. PICK s \in Suppliers, figure \in Figures : ImportStock(s, figure)
    BY <1>8
  <2>2. Import(s, figure) /\ UNCHANGED <<order, committed>> /\ onSale' \subseteq onSale
    BY <2>1 DEF ImportStock
  <2>3. HeldShape' /\ StillNone
    BY <2>2, ImportHeld DEF IntakeInv
  <2> QED
    BY <2>2, <2>3, OrdersUntouched DEF IntakeInv, IntakeTypeOK
<1>9. CASE TreasuryStep /\ UNCHANGED intakeVars
  <2>1. HeldShape' /\ StillNone
    BY <1>9, TreasuryHeld DEF IntakeInv
  <2> QED
    BY <1>9, <2>1, OrdersUntouched DEF intakeVars, IntakeInv, IntakeTypeOK
<1> QED
  BY <1>1, <1>2, <1>3, <1>4, <1>5, <1>6, <1>7, <1>8, <1>9 DEF IntakeNext

\* Every reachable state satisfies the invariant.
THEOREM IntakeInvariant == IntakeSpec => []IntakeInv
<1> QED
  BY IntakeStart, IntakeInductive, PTL DEF IntakeSpec, allVars

\* The orders, receipts and listings of the intake have their types in every reachable state
\* (application/order_intake.py, commerce.ingest).
THEOREM IntakeTypes == IntakeSpec => []IntakeTypeOK
<1>1. IntakeInv => IntakeTypeOK
  BY DEF IntakeInv
<1> QED
  BY <1>1, IntakeInvariant, PTL

\* However files overlap with each other and with what the API brings, a committed file is in
\* as it is written and every imported order has such a file (OrderIntake.commit).
THEOREM FilesComeInWhole == IntakeSpec => []FilesCameInWhole
<1>1. IntakeInv => FilesCameInWhole
  BY DEF IntakeInv
<1> QED
  BY <1>1, IntakeInvariant, PTL

\* An imported order never reaches cash or stock before a person has verified its source, and
\* while it waits a review says so (process_order, verify_and_validate, validate_order).
THEOREM ImportsAlwaysWaitVisibly == IntakeSpec => []ImportsWaitVisibly
<1>1. IntakeInv => ImportsWaitVisibly
  BY DEF IntakeInv
<1> QED
  BY <1>1, IntakeInvariant, PTL
-----------------------------------------------------------------------------
\* Whatever the intake does to cash and stock is a command of the treasury.
LEMMA IntakeUsesTreasury == [IntakeNext]_allVars => [TreasuryNext]_treasuryVars
<1> SUFFICES ASSUME [IntakeNext]_allVars PROVE TreasuryNext \/ UNCHANGED treasuryVars
  OBVIOUS
<1>1. CASE UNCHANGED allVars
  BY <1>1 DEF allVars
<1>2. ASSUME NEW o \in Orders, NEW resolved, Accept(o, resolved) PROVE TreasuryNext
  BY <1>2 DEF Accept, TreasuryNext
<1>3. ASSUME NEW o \in Orders, NEW code, NEW resolved, Refuse(o, code, resolved)
      PROVE  UNCHANGED treasuryVars
  BY <1>3 DEF Refuse
<1>4. ASSUME NEW o \in Orders, ProcessOrder(o) \/ Verify(o)
      PROVE  TreasuryNext \/ UNCHANGED treasuryVars
  BY <1>2, <1>3, <1>4 DEF ProcessOrder, Verify
<1>5. ASSUME NEW o \in Orders, Ingest(o) PROVE UNCHANGED treasuryVars
  BY <1>5 DEF Ingest
<1>6. ASSUME NEW o \in Orders, CancelOrder(o) PROVE TreasuryNext
  BY <1>6 DEF CancelOrder, TreasuryNext
<1>7. ASSUME NEW f \in Files, Commit(f) PROVE UNCHANGED treasuryVars
  BY <1>7 DEF Commit
<1>8. ASSUME NEW s \in Suppliers, ListingChanges(s) PROVE UNCHANGED treasuryVars
  BY <1>8 DEF ListingChanges
<1>9. ASSUME NEW s \in Suppliers, NEW figure \in Figures, ImportStock(s, figure)
      PROVE  TreasuryNext
  BY <1>9 DEF ImportStock, TreasuryNext
<1>10. CASE TreasuryStep
  BY <1>10 DEF TreasuryNext
<1> QED
  BY <1>1, <1>4, <1>5, <1>6, <1>7, <1>8, <1>9, <1>10 DEF IntakeNext

\* The intake implements the treasury: validation, cancellation and imports of the orders'
\* side reach cash and stock only through its commands (validate_received_in_session,
\* cancel, apply_price).
THEOREM IntakeImplementsTreasury == IntakeSpec => TreasurySpec
<1>1. IntakeInit => TreasuryInit
  BY DEF IntakeInit
<1> QED
  BY <1>1, IntakeUsesTreasury, PTL DEF IntakeSpec, TreasurySpec, allVars

\* What open orders hold in the bank and in the deposits is always there, over every order of
\* reservations, payments, fundings and receipts (reserve, settle_payment, operations.funds).
THEOREM CommitmentsStayFunded == IntakeSpec => []CommitmentsAreFunded
<1>1. TreasuryInv => CommitmentsAreFunded
  BY DEF TreasuryInv
<1> QED
  BY <1>1, IntakeImplementsTreasury, TreasuryInvariant, PTL

\* No day's payments exceed the daily limit, late approvals and payments by hand included
\* (daily_commitments, approve_payment, execute_payment, confirm_evidence).
THEOREM DailyLimitAlwaysHolds == IntakeSpec => []DailyLimitHolds
<1>1. TreasuryInv => DailyLimitHolds
  BY DEF TreasuryInv
<1> QED
  BY <1>1, IntakeImplementsTreasury, TreasuryInvariant, PTL

\* What is for sale and what is still to be shipped fit into the figure imported last,
\* whatever releases, imports and shipments come between (apply_price, release).
THEOREM StockNeverCountedTwice == IntakeSpec => []StockIsNotCountedTwice
<1>1. TreasuryInv => StockIsNotCountedTwice
  BY DEF TreasuryInv, StockFits, Covered, StockIsNotCountedTwice
<1> QED
  BY <1>1, IntakeImplementsTreasury, TreasuryInvariant, PTL
=============================================================================
