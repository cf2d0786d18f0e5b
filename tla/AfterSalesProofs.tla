-------------------------- MODULE AfterSalesProofs --------------------------
(***************************************************************************)
(* What holds of refunds and settlements for any number of claims and      *)
(* refunds and any amounts. First how far each refund has got, which no    *)
(* amount decides; then the sums, with it: limits, claims and books.       *)
(***************************************************************************)
EXTENDS AfterSales, SumsProofs

NotSent == {"NONE", "EVIDENCE_PENDING", "MANUAL_APPROVAL", "PENDING"}

\* The rows, without the statement's amounts, which are sums.
Rows ==
  /\ claim \in [Claims -> Claim]
  /\ refund \in [Refunds -> Refund]
  /\ refundCalls \in [Refunds -> Nat]
  /\ calling \subseteq Refunds /\ returned \subseteq Refunds
  /\ settlement = [status |-> settlement.status, expected |-> settlement.expected,
                   actual |-> settlement.actual, adjustment |-> settlement.adjustment,
                   revision |-> settlement.revision]
  /\ settlement.status \in {"NONE", "STATEMENT", "CASH"}

\* How far refund r has got, told by its row, its calls and its customer.
RefundOk(r) ==
  /\ refundCalls[r] <= 1
  /\ refund[r].status \in NotSent => refundCalls[r] = 0
  /\ r \in calling => refund[r].status \in {"SENDING", "UNKNOWN"}
  /\ r \in returned => refund[r].status \in {"SENDING", "UNKNOWN", "SUCCEEDED"}
  /\ refund[r].status = "SUCCEEDED" => r \in returned

\* The inductive invariant: a statement found, and finds, only booked refunds, and a
\* closed order only refunded claims.
AInv ==
  /\ Rows
  /\ \A r \in Refunds : RefundOk(r)
  /\ Settled => RefundsAreDone
  /\ ClosedIsComplete

\* The variables the invariant is about.
view == <<state, claim, refund, calling, refundCalls, returned, settlement>>

-----------------------------------------------------------------------------
(* Lemmas *)

\* The invariant gives the three properties.
LEMMA AInvSafety == AInv => OneRefundCall /\ SettlementKnowsRefunds /\ ClosedIsComplete
<1>1. SUFFICES ASSUME AInv PROVE OneRefundCall /\ SettlementKnowsRefunds
  BY <1>1 DEF AInv
<1>2. OneRefundCall
  BY <1>1 DEF AInv, OneRefundCall, Rows, RefundOk, Refund, RefundStatus, NotSent
<1>3. SettlementKnowsRefunds
  BY <1>1 DEF AInv, SettlementKnowsRefunds, Rows, RefundOk, RefundsAreDone, Succeeded
<1>4. QED BY <1>2, <1>3

\* Steps that leave the view alone.
LEMMA AInvUnchanged == AInv /\ UNCHANGED view => AInv'
BY DEF AInv, view, Rows, RefundOk, Settled, RefundsAreDone, ClosedIsComplete, ClaimsAreDone

\* Before the statement the last two conjuncts of the invariant are empty.
LEMMA OpenBooks ==
  ASSUME AInv, ~Settled, UNCHANGED <<state, settlement>>,
         claim' \in [Claims -> Claim], refund' \in [Refunds -> Refund],
         refundCalls' \in [Refunds -> Nat], calling' \subseteq Refunds,
         returned' \subseteq Refunds, \A r \in Refunds : RefundOk(r)'
  PROVE  AInv'
BY DEF AInv, Rows, Settled, ClosedIsComplete

\* Refunds that are not all booked mean that there is no statement.
LEMMA UnbookedMeansUnsettled ==
  ASSUME AInv, NEW r \in Refunds, refund[r].status \notin {"NONE", "SUCCEEDED"}
  PROVE  ~Settled
BY DEF AInv, RefundsAreDone

-----------------------------------------------------------------------------
(* Every step keeps the invariant *)

LEMMA ClaimSteps ==
  ASSUME AInv, NEW c \in Claims,
         UNCHANGED <<state, refund, calling, refundCalls, returned, settlement>>,
         claim' \in [Claims -> Claim],
         \A d \in Claims : claim[d].status \in {"NONE", "REFUNDED"} =>
           claim'[d].status \in {"NONE", "REFUNDED"}
  PROVE  AInv'
<1>1. ClaimsAreDone => ClaimsAreDone'
  BY DEF ClaimsAreDone
<1>2. QED BY <1>1 DEF AInv, Rows, RefundOk, Settled, RefundsAreDone, ClosedIsComplete

LEMMA OpenClaimStep ==
  ASSUME AInv, NEW c \in Claims, NEW amount \in 1 .. NetSale,
         NEW status \in {"READY", "EVIDENCE_REQUIRED", "MANUAL_REVIEW"},
         NEW operational \in BOOLEAN, OpenClaim(c, amount, status, operational)
  PROVE  AInv'
<1>1. amount \in Nat
  BY AmountsAssumption
<1> DEFINE opened == [claim EXCEPT ![c].status = status]
           asked == [opened EXCEPT ![c].requested = amount]
<1>2. opened \in [Claims -> Claim]
  BY DEF AInv, Rows, Claim, ClaimStatus
<1>3. claim' = [asked EXCEPT ![c].operational = operational]
  BY DEF OpenClaim
<1> HIDE DEF opened
<1>4. asked \in [Claims -> Claim]
  BY <1>1, <1>2 DEF Claim
<1> HIDE DEF asked
<1>5. claim' \in [Claims -> Claim]
  BY <1>3, <1>4 DEF Claim
<1>6. QED BY <1>5, OpenBooks DEF AInv, Rows, OpenClaim, RefundOk

LEMMA ClaimSubmittedStep ==
  ASSUME AInv, NEW c \in Claims, ClaimSubmitted(c) PROVE AInv'
<1>1. claim' \in [Claims -> Claim]
  BY DEF AInv, Rows, ClaimSubmitted, Claim, ClaimStatus
<1>2. \A d \in Claims : claim[d].status \in {"NONE", "REFUNDED"} =>
        claim'[d].status \in {"NONE", "REFUNDED"}
  BY DEF AInv, Rows, ClaimSubmitted, Claim, ClaimStatus
<1>3. QED BY <1>1, <1>2, ClaimSteps DEF ClaimSubmitted

LEMMA SupplierResponseStep ==
  ASSUME AInv, NEW c \in Claims, NEW amount \in 0 .. Paid, NEW operational \in BOOLEAN,
         NEW response \in {"ACCEPTED", "REJECTED"},
         SupplierResponse(c, response, amount, operational)
  PROVE  AInv'
<1>1. amount \in Nat
  BY AmountsAssumption
<1>2. claim' \in [Claims -> Claim]
  BY <1>1 DEF AInv, Rows, SupplierResponse, Claim, ClaimStatus
<1>3. \A d \in Claims : claim[d].status \in {"NONE", "REFUNDED"} =>
        claim'[d].status \in {"NONE", "REFUNDED"}
  BY DEF AInv, Rows, SupplierResponse, Claim, ClaimStatus
<1>4. QED BY <1>2, <1>3, ClaimSteps DEF SupplierResponse

LEMMA ConfirmRecoveryStep ==
  ASSUME AInv, NEW c \in Claims, NEW amount \in 1 .. Paid, ConfirmRecovery(c, amount)
  PROVE  AInv'
<1>1. amount \in Nat
  BY AmountsAssumption
<1>2. claim' \in [Claims -> Claim]
  BY <1>1 DEF AInv, Rows, ConfirmRecovery, Claim, ClaimStatus
<1>3. \A d \in Claims : claim[d].status \in {"NONE", "REFUNDED"} =>
        claim'[d].status \in {"NONE", "REFUNDED"}
  BY DEF AInv, Rows, ConfirmRecovery, Claim, ClaimStatus
<1>4. QED BY <1>2, <1>3, ClaimSteps DEF ConfirmRecovery

LEMMA RequestRefundStep ==
  ASSUME AInv, NEW r \in Refunds, NEW c \in Claims, NEW amount \in 1 .. NetSale,
         NEW by \in {"operations", "admin", "nobody"}, RequestRefund(r, c, amount, by)
  PROVE  AInv'
<1>1. amount \in Nat
  BY AmountsAssumption
<1>2. RefundRequested(c, amount, by) \in {"EVIDENCE_PENDING", "MANUAL_APPROVAL", "PENDING"}
  BY DEF RefundRequested
<1>3. refund' \in [Refunds -> Refund]
  BY <1>1, <1>2 DEF AInv, Rows, RequestRefund, Refund, RefundStatus
<1>4. \A q \in Refunds : RefundOk(q)'
  BY <1>2 DEF AInv, Rows, RequestRefund, RefundOk, NotSent
<1>5. QED BY <1>3, <1>4, OpenBooks DEF AInv, Rows, RequestRefund

LEMMA ExecuteRefundStep ==
  ASSUME AInv, NEW r \in Refunds, ExecuteRefund(r) PROVE AInv'
<1>1. ~Settled
  BY UnbookedMeansUnsettled DEF ExecuteRefund
<1>2. /\ refund' \in [Refunds -> Refund] /\ refundCalls' \in [Refunds -> Nat]
      /\ calling' \subseteq Refunds
  BY DEF AInv, Rows, ExecuteRefund, Refund, RefundStatus
<1>3. \A q \in Refunds : RefundOk(q)'
  BY DEF AInv, Rows, ExecuteRefund, RefundOk, NotSent, Refund
<1>4. QED BY <1>1, <1>2, <1>3, OpenBooks DEF AInv, Rows, ExecuteRefund

\* The call's own steps: its effect, its loss and the death of its worker.
LEMMA CallSteps ==
  ASSUME AInv, NEW r \in Refunds, MarketplaceRefunds(r) \/ RefundUncertain(r) \/ RefundCrash(r)
  PROVE  AInv'
<1>1. ~Settled
  BY UnbookedMeansUnsettled DEF MarketplaceRefunds, RefundUncertain, RefundCrash, AInv, RefundOk
<1>2. refund' \in [Refunds -> Refund]
  BY DEF AInv, Rows, MarketplaceRefunds, RefundUncertain, RefundCrash, Refund, RefundStatus
<1>3. \A q \in Refunds : RefundOk(q)'
  BY DEF AInv, Rows, MarketplaceRefunds, RefundUncertain, RefundCrash, RefundOk, NotSent, Refund
<1>4. QED
  BY <1>1, <1>2, <1>3, OpenBooks
  DEF AInv, Rows, MarketplaceRefunds, RefundUncertain, RefundCrash

\* Booking keeps the rows in type.
LEMMA BookRefundTypes ==
  ASSUME AInv, NEW r \in Refunds, BookRefund(r)
  PROVE  refund' \in [Refunds -> Refund] /\ claim' \in [Claims -> Claim]
<1>1. refund[r].claim \in Claims /\ refund[r].amount \in Nat
  BY DEF AInv, Rows, Refund
<1>2. claim[refund[r].claim].refunded + refund[r].amount \in Nat
  BY <1>1 DEF AInv, Rows, Claim
<1>3. refund' \in [Refunds -> Refund]
  BY DEF AInv, Rows, BookRefund, Refund, RefundStatus
<1>4. claim' \in [Claims -> Claim]
  BY <1>1, <1>2 DEF AInv, Rows, BookRefund, Claim, ClaimStatus
<1>5. QED BY <1>3, <1>4

LEMMA RecordRefundStep ==
  ASSUME AInv, NEW r \in Refunds, RecordRefund(r) PROVE AInv'
<1>1. refund[r].status \in {"SENDING", "UNKNOWN"}
  BY DEF AInv, RecordRefund, RefundOk
<1>2. ~Settled
  BY <1>1, UnbookedMeansUnsettled
<1>3. BookRefund(r)
  BY <1>1 DEF RecordRefund
<1>4. \A q \in Refunds : RefundOk(q)'
  BY <1>3 DEF AInv, Rows, RecordRefund, BookRefund, RefundOk, NotSent, Refund
<1>5. QED BY <1>2, <1>3, <1>4, BookRefundTypes, OpenBooks DEF AInv, Rows, RecordRefund

LEMMA ConfirmRefundStep ==
  ASSUME AInv, NEW r \in Refunds, ConfirmRefund(r) PROVE AInv'
<1>1. BookRefund(r) /\ ~Settled
  BY DEF ConfirmRefund
<1>2. \A q \in Refunds : RefundOk(q)'
  BY <1>1 DEF AInv, Rows, ConfirmRefund, BookRefund, RefundOk, NotSent, Refund
<1>3. QED BY <1>1, <1>2, BookRefundTypes, OpenBooks DEF AInv, Rows, ConfirmRefund

LEMMA OrderSteps == AInv /\ (Delivered \/ Cancel) => AInv'
BY DEF AInv, Delivered, Cancel, Rows, RefundOk, Settled, RefundsAreDone, ClosedIsComplete

LEMMA StatementSteps ==
  ASSUME AInv, NEW actual, NEW adjustment, NEW operational,
         \/ ReconcileSettlement(actual, adjustment, operational)
         \/ CorrectSettlement(actual, adjustment)
  PROVE  AInv'
<1>1. RefundsAreDone' /\ state' = "SETTLEMENT_PENDING"
  BY DEF ReconcileSettlement, CorrectSettlement, RefundsAreDone
<1>2. Rows'
  BY DEF AInv, Rows, ReconcileSettlement, CorrectSettlement, NoSettlement
<1>3. \A q \in Refunds : RefundOk(q)'
  BY DEF AInv, ReconcileSettlement, CorrectSettlement, RefundOk
<1>4. QED BY <1>1, <1>2, <1>3 DEF AInv, ClosedIsComplete

LEMMA CashStep == AInv /\ ConfirmCash => AInv'
<1>1. SUFFICES ASSUME AInv, ConfirmCash PROVE AInv'
  OBVIOUS
<1>2. RefundsAreDone /\ RefundsAreDone'
  BY <1>1 DEF AInv, ConfirmCash, Settled, RefundsAreDone
<1>3. Rows'
  BY <1>1 DEF AInv, Rows, ConfirmCash
<1>4. \A q \in Refunds : RefundOk(q)'
  BY <1>1 DEF AInv, ConfirmCash, RefundOk
<1>5. settlement'.actual = settlement.actual /\ settlement'.expected = settlement.expected
      /\ settlement'.status = "CASH"
  BY <1>1 DEF AInv, Rows, ConfirmCash
<1>6. ClosedIsComplete'
  BY <1>1, <1>2, <1>5 DEF ConfirmCash, ClosedIsComplete, ClaimsAreDone
<1>7. QED BY <1>2, <1>3, <1>4, <1>6 DEF AInv

-----------------------------------------------------------------------------
(* The theorems *)

\* AInv is an invariant of the specification.
THEOREM AInvariant == Spec => []AInv
<1>1. Init => AInv
  BY DEF Init, AInv, Rows, RefundOk, NotSent, NoSettlement, Settled, ClosedIsComplete,
         Claim, ClaimStatus, Refund, RefundStatus
<1>2. AInv /\ [Next]_vars => AInv'
  <2>1. SUFFICES ASSUME AInv, [Next]_vars PROVE AInv'
    OBVIOUS
  <2>2. CASE Delivered \/ Cancel
    BY <2>1, <2>2, OrderSteps
  <2>3. CASE ConfirmCash
    BY <2>1, <2>3, CashStep
  <2>4. ASSUME NEW c \in Claims, NEW amount \in 1 .. NetSale, NEW operational \in BOOLEAN,
               NEW status \in {"READY", "EVIDENCE_REQUIRED", "MANUAL_REVIEW"},
               OpenClaim(c, amount, status, operational)
        PROVE AInv'
    BY <2>1, <2>4, OpenClaimStep
  <2>5. ASSUME NEW c \in Claims, SubmitClaim(c) PROVE AInv'
    BY <2>1, <2>5, AInvUnchanged DEF SubmitClaim, view
  <2>6. ASSUME NEW c \in Claims, ClaimSubmitted(c) PROVE AInv'
    BY <2>1, <2>6, ClaimSubmittedStep
  <2>7. ASSUME NEW c \in Claims, NEW amount \in 0 .. Paid, NEW operational \in BOOLEAN,
               NEW response \in {"ACCEPTED", "REJECTED"},
               SupplierResponse(c, response, amount, operational)
        PROVE AInv'
    BY <2>1, <2>7, SupplierResponseStep
  <2>8. ASSUME NEW c \in Claims, NEW amount \in 1 .. Paid, ConfirmRecovery(c, amount) PROVE AInv'
    BY <2>1, <2>8, ConfirmRecoveryStep
  <2>9. ASSUME NEW r \in Refunds, NEW c \in Claims, NEW amount \in 1 .. NetSale,
               NEW by \in {"operations", "admin", "nobody"}, RequestRefund(r, c, amount, by)
        PROVE AInv'
    BY <2>1, <2>9, RequestRefundStep
  <2>10. ASSUME NEW r \in Refunds, ExecuteRefund(r) PROVE AInv'
    BY <2>1, <2>10, ExecuteRefundStep
  <2>11. ASSUME NEW r \in Refunds, MarketplaceRefunds(r) \/ RefundUncertain(r) \/ RefundCrash(r)
         PROVE AInv'
    BY <2>1, <2>11, CallSteps
  <2>12. ASSUME NEW r \in Refunds, RecordRefund(r) PROVE AInv'
    BY <2>1, <2>12, RecordRefundStep
  <2>13. ASSUME NEW r \in Refunds, ConfirmRefund(r) PROVE AInv'
    BY <2>1, <2>13, ConfirmRefundStep
  <2>14. ASSUME NEW actual \in Statements, NEW adjustment \in Adjustments,
                (\E operational \in BOOLEAN : ReconcileSettlement(actual, adjustment, operational))
                  \/ CorrectSettlement(actual, adjustment)
         PROVE AInv'
    BY <2>1, <2>14, StatementSteps
  <2>15. CASE UNCHANGED vars
    BY <2>1, <2>15, AInvUnchanged DEF vars, view
  <2>16. QED
    BY <2>1, <2>2, <2>3, <2>4, <2>5, <2>6, <2>7, <2>8, <2>9, <2>10, <2>11, <2>12, <2>13,
       <2>14, <2>15 DEF Next
<1>3. QED BY <1>1, <1>2, PTL DEF Spec

\* The marketplace is asked for each refund at most once, whatever crashes and timeouts
\* do to execute_refund.
THEOREM AOneRefundCall == Spec => []OneRefundCall
BY AInvariant, AInvSafety, PTL

\* Once reconcile_settlement has recorded a statement no refund is in flight and every
\* refund the customer got is booked.
THEOREM ASettlementKnowsRefunds == Spec => []SettlementKnowsRefunds
BY AInvariant, AInvSafety, PTL

\* confirm_settlement_cash closes only complete orders, and nothing reopens one.
THEOREM AClosedIsComplete == Spec => []ClosedIsComplete
BY AInvariant, AInvSafety, PTL
-----------------------------------------------------------------------------
(* The sums and the books *)

\* Where the order is, and that nobody claims or refunds anything before the delivery.
OrderOk ==
  /\ state = "SHIPPED" => ~delivered
  /\ state = "DELIVERED" => delivered
  /\ ~delivered => /\ ~Settled /\ \A c \in Claims : claim[c].status = "NONE"
                   /\ \A r \in Refunds : refund[r].status = "NONE"

\* A claim nobody has made asks for nothing, and a refund that was requested is of something.
RowsOk ==
  /\ \A c \in Claims : claim[c].status = "NONE" => claim[c].requested = 0 /\ claim[c].refunded = 0
  /\ \A r \in Refunds : refund[r].status # "NONE" => refund[r].amount >= 1

\* The accounts the statement moves are untouched before it, and it is the statement of the
\* refunds that are booked.
LedgerOk ==
  /\ ~Settled => book.clearing = 0 /\ book.variance = 0 /\ book.bank = 0
  /\ Settled => settlement.expected = Expected(settlement.adjustment)

BooksInv ==
  /\ TypeOK /\ OrderOk /\ RowsOk /\ LedgerOk
  /\ WithinLimits /\ ClaimTellsRefunds /\ BooksClose

RefundAmounts == [r \in Refunds |-> refund[r].amount]
Recoveries == [c \in Claims |-> claim[c].recovery]
AreAmounts ==
  /\ \A S : S \subseteq Refunds => Amounts(RefundAmounts, S)
  /\ Amounts(Recoveries, Claims)

LEMMA RowsAreAmounts == Rows => AreAmounts
  BY AmountsAssumption, FS_Subset
  DEF AreAmounts, Amounts, RefundAmounts, Recoveries, Rows, Refund, Claim

SumsAreNatural ==
  /\ Amount(Live) \in Nat /\ Amount(Succeeded) \in Nat /\ Recovered \in Nat
  /\ \A c \in Claims : Amount(Live \cap Of(c)) \in Nat /\ Amount(Succeeded \cap Of(c)) \in Nat

LEMMA SumTypes == Rows => SumsAreNatural
<1> SUFFICES ASSUME Rows PROVE SumsAreNatural
  OBVIOUS
<1>1. \A S : S \subseteq Refunds => Amount(S) \in Nat
  BY RowsAreAmounts, TotalType DEF AreAmounts, Amount, RefundAmounts
<1>2. Live \subseteq Refunds /\ Succeeded \subseteq Refunds
  BY DEF Live, Succeeded
<1>3. Recovered \in Nat
  BY RowsAreAmounts, TotalType DEF AreAmounts, Recovered, Recoveries
<1> QED
  BY <1>1, <1>2, <1>3 DEF SumsAreNatural

\* As long as no refund is requested or booked the sums over refunds stay.
RefundsStay ==
  \A r \in Refunds :
    /\ refund'[r].amount = refund[r].amount /\ refund'[r].claim = refund[r].claim
    /\ refund'[r].status = "NONE" <=> refund[r].status = "NONE"
    /\ refund'[r].status = "SUCCEEDED" <=> refund[r].status = "SUCCEEDED"

LEMMA RefundSumsStay ==
  ASSUME RefundsStay
  PROVE  /\ Amount(Live)' = Amount(Live) /\ Amount(Succeeded)' = Amount(Succeeded)
         /\ \A c \in Claims : /\ Amount(Live \cap Of(c))' = Amount(Live \cap Of(c))
                              /\ Amount(Succeeded \cap Of(c))' = Amount(Succeeded \cap Of(c))
<1>1. [r \in Refunds |-> refund'[r].amount] = [r \in Refunds |-> refund[r].amount]
  BY DEF RefundsStay
<1>2. Live' = Live /\ Succeeded' = Succeeded /\ \A c \in Claims : Of(c)' = Of(c)
  BY DEF RefundsStay, Live, Succeeded, Of
<1> QED
  BY <1>1, <1>2 DEF Amount

\* A refund that is requested adds its amount to what may be paid, for its claim and in all.
LEMMA RequestedSums ==
  ASSUME Rows, Rows', NEW r \in Refunds, refund[r].status = "NONE", refund'[r].status # "NONE",
         refund'[r].status # "SUCCEEDED", \A q \in Refunds \ {r} : refund'[q] = refund[q]
  PROVE  /\ Amount(Live)' = Amount(Live) + refund'[r].amount
         /\ Amount(Succeeded)' = Amount(Succeeded)
         /\ \A c \in Claims :
              /\ Amount(Live \cap Of(c))' = Amount(Live \cap Of(c))
                   + (IF c = refund'[r].claim THEN refund'[r].amount ELSE 0)
              /\ Amount(Succeeded \cap Of(c))' = Amount(Succeeded \cap Of(c))
<1> DEFINE f == [x \in Refunds |-> refund[x].amount]
           g == [x \in Refunds |-> refund'[x].amount]
<1>1. \A S : S \subseteq Refunds => Amounts(f, S) /\ Amounts(g, S)
  <2>1. (Rows => AreAmounts)'
    BY RowsAreAmounts, PTL
  <2> QED
    BY <2>1, RowsAreAmounts DEF AreAmounts, RefundAmounts
<1>2. /\ \A y \in Refunds \ {r} : f[y] = g[y]
      /\ g[r] = refund'[r].amount /\ g[r] \in Nat
  BY DEF Rows, Refund
<1>3. /\ \A S : Amount(S) = Total(f, S)
      /\ Amount(Live)' = Total(g, Live') /\ Amount(Succeeded)' = Total(g, Succeeded')
      /\ \A c \in Claims : /\ Amount(Live \cap Of(c))' = Total(g, Live' \cap Of(c)')
                           /\ Amount(Succeeded \cap Of(c))' = Total(g, Succeeded' \cap Of(c)')
  BY DEF Amount
<1> HIDE DEF f, g
<1>4. /\ Live \subseteq Refunds /\ Live' = Live \cup {r} /\ r \notin Live
      /\ Succeeded \subseteq Refunds /\ Succeeded' = Succeeded /\ r \notin Succeeded
  BY DEF Live, Succeeded
<1>5. ASSUME NEW S, S \subseteq Refunds, r \notin S
      PROVE  Total(g, S) = Total(f, S) /\ Total(g, S \cup {r}) = Total(f, S) + g[r]
  <2>1. \A y \in S : f[y] = g[y]
    BY <1>2, <1>5
  <2>2. Total(g, S) = Total(f, S)
    BY <2>1, TotalSame
  <2>3. Amounts(g, S)
    BY <1>1, <1>5
  <2>4. Total(g, S \cup {r}) = Total(g, S) + g[r]
    BY <1>2, <1>5, <2>3, TotalAdd
  <2> QED
    BY <2>2, <2>4
<1>6. Amount(Live)' = Amount(Live) + refund'[r].amount /\ Amount(Succeeded)' = Amount(Succeeded)
  BY <1>2, <1>3, <1>4, <1>5
<1>7. ASSUME NEW c \in Claims
      PROVE  /\ Amount(Live \cap Of(c))' = Amount(Live \cap Of(c))
                  + (IF c = refund'[r].claim THEN refund'[r].amount ELSE 0)
             /\ Amount(Succeeded \cap Of(c))' = Amount(Succeeded \cap Of(c))
  <2> DEFINE A == Live \cap Of(c)
             B == Succeeded \cap Of(c)
  <2>1. /\ A \subseteq Refunds /\ r \notin A /\ B \subseteq Refunds /\ r \notin B
        /\ Live' \cap Of(c)' = IF c = refund'[r].claim THEN A \cup {r} ELSE A
        /\ Succeeded' \cap Of(c)' = B
    BY <1>4 DEF Of
  <2>2. Total(f, A) \in Nat
    BY <1>1, <2>1, TotalType
  <2> HIDE DEF A, B
  <2>3. /\ Total(g, A) = Total(f, A) /\ Total(g, A \cup {r}) = Total(f, A) + g[r]
        /\ Total(g, B) = Total(f, B)
    BY <1>5, <2>1
  <2>4. Total(g, Live' \cap Of(c)') =
          Total(f, A) + (IF c = refund'[r].claim THEN refund'[r].amount ELSE 0)
    <3>1. CASE c = refund'[r].claim
      BY <1>2, <2>1, <2>2, <2>3, <3>1
    <3>2. CASE c # refund'[r].claim
      <4>1. Live' \cap Of(c)' = A
        BY <2>1, <3>2
      <4>2. Total(g, Live' \cap Of(c)') = Total(f, A)
        BY <2>3, <4>1, Zenon
      <4> QED
        BY <2>2, <3>2, <4>2
    <3> QED
      BY <3>1, <3>2
  <2> QED
    BY <1>3, <2>1, <2>3, <2>4 DEF A, B
<1> QED
  BY <1>6, <1>7

\* A refund that is booked adds its amount to what was paid, for its claim and in all.
LEMMA BookedSums ==
  ASSUME Rows, Rows', NEW r \in Refunds, refund[r].status \notin {"NONE", "SUCCEEDED"},
         refund' = [refund EXCEPT ![r].status = "SUCCEEDED"]
  PROVE  /\ Amount(Live)' = Amount(Live)
         /\ Amount(Succeeded)' = Amount(Succeeded) + refund[r].amount
         /\ \A c \in Claims :
              /\ Amount(Live \cap Of(c))' = Amount(Live \cap Of(c))
              /\ Amount(Succeeded \cap Of(c))' = Amount(Succeeded \cap Of(c))
                   + (IF c = refund[r].claim THEN refund[r].amount ELSE 0)
<1> DEFINE f == [x \in Refunds |-> refund[x].amount]
<1>1. \A S : S \subseteq Refunds => Amounts(f, S)
  BY RowsAreAmounts DEF AreAmounts, RefundAmounts
<1>2. \A q \in Refunds : /\ refund'[q].amount = refund[q].amount
                         /\ refund'[q].claim = refund[q].claim
                         /\ refund'[q].status = IF q = r THEN "SUCCEEDED" ELSE refund[q].status
  BY DEF Rows, Refund
<1>3. [x \in Refunds |-> refund'[x].amount] = f
  BY <1>2
<1>4. f[r] = refund[r].amount /\ f[r] \in Nat
  BY DEF Rows, Refund
<1>5. /\ \A S : Amount(S) = Total(f, S)
      /\ Amount(Live)' = Total(f, Live') /\ Amount(Succeeded)' = Total(f, Succeeded')
      /\ \A c \in Claims : /\ Amount(Live \cap Of(c))' = Total(f, Live' \cap Of(c)')
                           /\ Amount(Succeeded \cap Of(c))' = Total(f, Succeeded' \cap Of(c)')
  BY <1>3 DEF Amount
<1> HIDE DEF f
<1>6. /\ Live' = Live /\ Succeeded' = Succeeded \cup {r} /\ r \notin Succeeded
      /\ Succeeded \subseteq Refunds /\ \A c \in Claims : Of(c)' = Of(c)
  BY <1>2 DEF Live, Succeeded, Of
<1>7. ASSUME NEW S, S \subseteq Refunds, r \notin S
      PROVE  Total(f, S \cup {r}) = Total(f, S) + f[r]
  <2>1. Amounts(f, S)
    BY <1>1, <1>7
  <2> QED
    BY <1>4, <1>7, <2>1, TotalAdd
<1>8. Amount(Live)' = Amount(Live) /\ Amount(Succeeded)' = Amount(Succeeded) + refund[r].amount
  BY <1>4, <1>5, <1>6, <1>7
<1>9. ASSUME NEW c \in Claims
      PROVE  /\ Amount(Live \cap Of(c))' = Amount(Live \cap Of(c))
             /\ Amount(Succeeded \cap Of(c))' = Amount(Succeeded \cap Of(c))
                  + (IF c = refund[r].claim THEN refund[r].amount ELSE 0)
  <2> DEFINE B == Succeeded \cap Of(c)
  <2>1. /\ B \subseteq Refunds /\ r \notin B
        /\ Succeeded' \cap Of(c)' = IF c = refund[r].claim THEN B \cup {r} ELSE B
        /\ Live' \cap Of(c)' = Live \cap Of(c)
    BY <1>6 DEF Of
  <2>2. Total(f, B) \in Nat
    BY <1>1, <2>1, TotalType
  <2> HIDE DEF B
  <2>3. Total(f, B \cup {r}) = Total(f, B) + f[r]
    BY <1>7, <2>1
  <2>4. Total(f, Succeeded' \cap Of(c)') =
          Total(f, B) + (IF c = refund[r].claim THEN refund[r].amount ELSE 0)
    <3>1. CASE c = refund[r].claim
      BY <1>4, <2>1, <2>2, <2>3, <3>1
    <3>2. CASE c # refund[r].claim
      <4>1. Succeeded' \cap Of(c)' = B
        BY <2>1, <3>2
      <4> QED
        BY <2>2, <3>2, <4>1
    <3> QED
      BY <3>1, <3>2
  <2> QED
    BY <1>5, <2>1, <2>4 DEF B
<1> QED
  BY <1>8, <1>9

-----------------------------------------------------------------------------
(* Every step keeps the books *)

LEMMA TypeRows == TypeOK => Rows
  BY DEF TypeOK, Rows, Settlement

LEMMA RecoveredStays ==
  ASSUME \A c \in Claims : claim'[c].recovery = claim[c].recovery
  PROVE  Recovered' = Recovered
<1>1. [c \in Claims |-> claim'[c].recovery] = [c \in Claims |-> claim[c].recovery]
  OBVIOUS
<1> QED
  BY <1>1 DEF Recovered

\* A step of the rows that neither requests nor books a refund: the statement and the
\* receivable have nothing to do with it, and claims tell the same refunds.
LEMMA RowsStep ==
  ASSUME BooksInv, TypeOK', OrderOk', RowsOk', RefundsStay, UNCHANGED settlement,
         delivered' = delivered,
         book'.receivable = book.receivable, book'.clearing = book.clearing,
         book'.variance = book.variance, book'.bank = book.bank,
         \A c \in Claims :
           /\ claim'[c].refunded = claim[c].refunded
           /\ claim[c].requested <= claim'[c].requested
           /\ claim'[c].status = "REFUNDED" <=>
                claim'[c].refunded # 0 /\ claim'[c].refunded = claim'[c].requested,
         Recovered' <= Paid, book'.deposit = Recovered'
  PROVE  BooksInv'
<1>1. /\ Amount(Live)' = Amount(Live) /\ Amount(Succeeded)' = Amount(Succeeded)
      /\ \A c \in Claims : /\ Amount(Live \cap Of(c))' = Amount(Live \cap Of(c))
                           /\ Amount(Succeeded \cap Of(c))' = Amount(Succeeded \cap Of(c))
  BY RefundSumsStay
<1>2. SumsAreNatural
  BY SumTypes, TypeRows DEF BooksInv
<1>3. \A c \in Claims : claim[c].requested \in Nat /\ claim'[c].requested \in Nat
  BY DEF BooksInv, TypeOK, Claim
<1>4. WithinLimits'
  <2>1. /\ Amount(Live) <= NetSale
        /\ \A c \in Claims : Amount(Live \cap Of(c)) <= claim[c].requested
    BY DEF BooksInv, WithinLimits
  <2>2. ASSUME NEW c \in Claims PROVE Amount(Live \cap Of(c))' <= claim'[c].requested
    <3>1. Amount(Live \cap Of(c)) \in Nat /\ Amount(Live \cap Of(c)) <= claim[c].requested
      BY <1>2, <2>1 DEF SumsAreNatural
    <3>2. claim[c].requested <= claim'[c].requested
      OBVIOUS
    <3>3. Amount(Live \cap Of(c))' = Amount(Live \cap Of(c))
      BY <1>1
    <3>4. \A a, m, n \in Nat : a <= m /\ m <= n => a <= n
      OBVIOUS
    <3>5. claim[c].requested \in Nat /\ claim'[c].requested \in Nat
      BY <1>3
    <3>6. Amount(Live \cap Of(c)) <= claim'[c].requested
      BY <3>1, <3>2, <3>4, <3>5, Zenon
    <3> QED
      BY <3>3, <3>6, Zenon
  <2> QED
    BY <1>1, <2>1, <2>2 DEF WithinLimits
<1>5. ClaimTellsRefunds'
  BY <1>1 DEF BooksInv, ClaimTellsRefunds
<1>6. BooksClose' /\ LedgerOk'
  BY <1>1 DEF BooksInv, BooksClose, LedgerOk, Settled, Expected
<1> QED
  BY <1>4, <1>5, <1>6 DEF BooksInv

\* A step that leaves the claims' amounts and the books alone.
LEMMA QuietStep ==
  ASSUME BooksInv, TypeOK', OrderOk', RefundsStay, UNCHANGED <<claim, settlement, book>>,
         delivered' = delivered
  PROVE  BooksInv'
<1>1. RowsOk'
  BY DEF BooksInv, RowsOk, RefundsStay
<1>2. Recovered' = Recovered
  BY RecoveredStays
<1>3. \A c \in Claims :
        /\ claim[c].requested <= claim'[c].requested
        /\ claim'[c].status = "REFUNDED" <=>
             claim'[c].refunded # 0 /\ claim'[c].refunded = claim'[c].requested
  <2>1. claim' = claim /\ \A c \in Claims : claim[c].requested \in Nat
    BY DEF BooksInv, TypeOK, Claim
  <2>2. \A c \in Claims : claim[c].status = "REFUNDED" <=>
          claim[c].refunded # 0 /\ claim[c].refunded = claim[c].requested
    BY DEF BooksInv, ClaimTellsRefunds
  <2> QED
    BY <2>1, <2>2
<1> QED
  BY <1>1, <1>2, <1>3, RowsStep DEF BooksInv, WithinLimits

\* Steps of a call, and of the jobs: only how far a refund has got.
LEMMA QuietSteps ==
  ASSUME BooksInv, AInv,
         \/ Cancel \/ UNCHANGED vars \/ \E c \in Claims : SubmitClaim(c)
         \/ \E r \in Refunds : \/ ExecuteRefund(r) \/ MarketplaceRefunds(r)
                               \/ RefundUncertain(r) \/ RefundCrash(r)
  PROVE  BooksInv'
<1>1. CASE Cancel
  <2>1. TypeOK' /\ OrderOk' /\ RefundsStay
    BY <1>1 DEF BooksInv, TypeOK, OrderOk, Cancel, RefundsStay, Settled, OrderState,
       ExceptionStates
  <2> QED
    BY <1>1, <2>1, QuietStep DEF Cancel
<1>2. CASE UNCHANGED vars
  <2>1. TypeOK' /\ OrderOk' /\ RefundsStay
    BY <1>2 DEF BooksInv, TypeOK, OrderOk, vars, RefundsStay, Settled
  <2> QED
    BY <1>2, <2>1, QuietStep DEF vars
<1>3. ASSUME NEW c \in Claims, SubmitClaim(c) PROVE BooksInv'
  <2>1. TypeOK' /\ OrderOk' /\ RefundsStay
    BY <1>3 DEF BooksInv, TypeOK, OrderOk, SubmitClaim, RefundsStay, Settled
  <2> QED
    BY <1>3, <2>1, QuietStep DEF SubmitClaim
<1>4. ASSUME NEW r \in Refunds, MarketplaceRefunds(r) \/ RefundCrash(r) PROVE BooksInv'
  <2>1. TypeOK' /\ OrderOk' /\ RefundsStay
    BY <1>4 DEF BooksInv, TypeOK, OrderOk, MarketplaceRefunds, RefundCrash, RefundsStay, Settled
  <2> QED
    BY <1>4, <2>1, QuietStep DEF MarketplaceRefunds, RefundCrash
<1>5. ASSUME NEW r \in Refunds, ExecuteRefund(r) \/ RefundUncertain(r) PROVE BooksInv'
  <2>1. /\ refund \in [Refunds -> Refund] /\ refund[r].status \notin {"NONE", "SUCCEEDED"}
    BY <1>5 DEF BooksInv, TypeOK, ExecuteRefund, RefundUncertain, AInv, RefundOk
  <2>2. PICK new \in {"SENDING", "UNKNOWN"} : refund' = [refund EXCEPT ![r].status = new]
    BY <1>5 DEF ExecuteRefund, RefundUncertain
  <2>3. /\ refund' \in [Refunds -> Refund] /\ refund'[r].status = new
        /\ refund'[r].amount = refund[r].amount /\ refund'[r].claim = refund[r].claim
        /\ \A q \in Refunds \ {r} : refund'[q] = refund[q]
    BY <2>1, <2>2 DEF Refund, RefundStatus
  <2>4. RefundsStay
    BY <2>1, <2>3 DEF RefundsStay
  <2>5. /\ calling' \subseteq Refunds /\ refundCalls' \in [Refunds -> Nat]
        /\ UNCHANGED <<state, delivered, claim, submitting, returned, settlement, book>>
    BY <1>5 DEF BooksInv, TypeOK, ExecuteRefund, RefundUncertain
  <2>6. TypeOK'
    BY <2>3, <2>5 DEF BooksInv, TypeOK
  <2>7. OrderOk'
    BY <2>4, <2>5 DEF BooksInv, OrderOk, Settled, RefundsStay
  <2> QED
    BY <2>4, <2>5, <2>6, <2>7, QuietStep
<1> QED
  BY <1>1, <1>2, <1>3, <1>4, <1>5

\* delivered(): the whole sale becomes receivable, and there was no refund before.
LEMMA DeliveredStep ==
  ASSUME BooksInv, Delivered
  PROVE  BooksInv'
<1>1. /\ state = "SHIPPED" /\ state' = "DELIVERED" /\ delivered' = TRUE
      /\ book' = [book EXCEPT !.receivable = @ + NetSale - Fees]
      /\ UNCHANGED <<claim, refund, submitting, calling, refundCalls, returned, settlement>>
  BY DEF Delivered
<1>2. ~delivered /\ ~Settled /\ \A r \in Refunds : refund[r].status = "NONE"
  BY <1>1 DEF BooksInv, OrderOk
<1>3. NetSale \in Int /\ Fees \in Int /\ book \in Book
  BY AmountsAssumption DEF BooksInv, TypeOK
<1>4. /\ book' \in Book /\ book'.receivable = book.receivable + NetSale - Fees
      /\ book'.clearing = book.clearing /\ book'.variance = book.variance
      /\ book'.bank = book.bank /\ book'.deposit = book.deposit
  BY <1>1, <1>3 DEF Book
<1>5. TypeOK'
  BY <1>1, <1>4 DEF BooksInv, TypeOK, OrderState, NormalFlow
<1>6. OrderOk' /\ RowsOk'
  BY <1>1, <1>2 DEF BooksInv, OrderOk, RowsOk, Settled
<1>7. RefundsStay
  BY <1>1 DEF RefundsStay
<1>8. Recovered' = Recovered
  BY <1>1, RecoveredStays
<1>9. /\ Amount(Live)' = Amount(Live) /\ Amount(Succeeded)' = Amount(Succeeded)
      /\ \A c \in Claims : /\ Amount(Live \cap Of(c))' = Amount(Live \cap Of(c))
                           /\ Amount(Succeeded \cap Of(c))' = Amount(Succeeded \cap Of(c))
  BY <1>7, RefundSumsStay
<1>10. WithinLimits'
  BY <1>1, <1>4, <1>8, <1>9 DEF BooksInv, WithinLimits
<1>11. ClaimTellsRefunds'
  BY <1>1, <1>9 DEF BooksInv, ClaimTellsRefunds
<1>12. Amount(Succeeded) = 0
  <2>1. Succeeded = {}
    BY <1>2 DEF Succeeded
  <2> QED
    BY <2>1, TotalEmpty DEF Amount
<1>13. book.receivable = 0
  BY <1>2 DEF BooksInv, BooksClose
<1>14. BooksClose'
  BY <1>1, <1>2, <1>3, <1>4, <1>9, <1>12, <1>13 DEF BooksClose, Settled
<1>15. LedgerOk'
  BY <1>1, <1>2, <1>4 DEF BooksInv, LedgerOk, Settled
<1> QED
  BY <1>5, <1>6, <1>10, <1>11, <1>14, <1>15 DEF BooksInv

\* A claim's own steps: every other claim stays, and refunds and books too.
LEMMA OneClaimStep ==
  ASSUME BooksInv, TypeOK', NEW c \in Claims, UNCHANGED <<state, delivered, refund, settlement>>,
         delivered, \A d \in Claims \ {c} : claim'[d] = claim[d],
         claim'[c].status \notin {"NONE", "REFUNDED"},
         claim'[c].refunded = claim[c].refunded, claim[c].requested <= claim'[c].requested,
         ~(claim'[c].refunded # 0 /\ claim'[c].refunded = claim'[c].requested),
         claim'[c].recovery = claim[c].recovery, UNCHANGED book
  PROVE  BooksInv'
<1>1. OrderOk'
  BY DEF BooksInv, OrderOk, Settled
<1>2. RowsOk'
  BY DEF BooksInv, RowsOk
<1>3. RefundsStay
  BY DEF RefundsStay
<1>4. Recovered' = Recovered
  BY RecoveredStays
<1>5. ASSUME NEW d \in Claims
      PROVE  /\ claim'[d].refunded = claim[d].refunded
             /\ claim[d].requested <= claim'[d].requested
             /\ claim'[d].status = "REFUNDED" <=>
                  claim'[d].refunded # 0 /\ claim'[d].refunded = claim'[d].requested
  <2>1. CASE d = c
    BY <2>1
  <2>2. CASE d # c
    <3>1. claim'[d] = claim[d]
      BY <2>2
    <3>2. claim[d].requested \in Nat
      BY DEF BooksInv, TypeOK, Claim
    <3>3. claim[d].status = "REFUNDED" <=>
            claim[d].refunded # 0 /\ claim[d].refunded = claim[d].requested
      BY DEF BooksInv, ClaimTellsRefunds
    <3> QED
      BY <3>1, <3>2, <3>3
  <2> QED
    BY <2>1, <2>2
<1> QED
  BY <1>1, <1>2, <1>3, <1>4, <1>5, RowsStep DEF BooksInv, WithinLimits

LEMMA OpenClaimBooks ==
  ASSUME BooksInv, NEW c \in Claims, NEW amount \in 1 .. NetSale,
         NEW status \in {"READY", "EVIDENCE_REQUIRED", "MANUAL_REVIEW"},
         NEW operational \in BOOLEAN, OpenClaim(c, amount, status, operational)
  PROVE  BooksInv'
<1>1. amount \in Nat /\ amount >= 1
  BY AmountsAssumption
<1>2. /\ claim[c].status = "NONE" /\ delivered
      /\ claim' = [claim EXCEPT ![c].status = status, ![c].requested = amount,
                                ![c].operational = operational]
      /\ UNCHANGED <<state, delivered, refund, submitting, calling, refundCalls, returned,
                     settlement, book>>
  BY DEF OpenClaim
<1>3. claim \in [Claims -> Claim] /\ claim[c].requested = 0 /\ claim[c].refunded = 0
  BY <1>2 DEF BooksInv, TypeOK, RowsOk
<1>4. claim' = [claim EXCEPT ![c] = [claim[c] EXCEPT !.status = status, !.requested = amount,
                                                     !.operational = operational]]
  BY <1>2, <1>3
<1>5. [claim[c] EXCEPT !.status = status, !.requested = amount, !.operational = operational]
        \in Claim
  <2>1. [claim[c] EXCEPT !.status = status] \in Claim
    BY <1>3 DEF Claim, ClaimStatus
  <2>2. [claim[c] EXCEPT !.status = status, !.requested = amount] \in Claim
    BY <1>1, <1>3, <2>1 DEF Claim, ClaimStatus
  <2> QED
    BY <1>1, <1>3, <2>2 DEF Claim, ClaimStatus
<1>6. /\ claim' \in [Claims -> Claim]
      /\ claim'[c].status = status /\ claim'[c].requested = amount
      /\ claim'[c].refunded = claim[c].refunded /\ claim'[c].recovery = claim[c].recovery
      /\ \A d \in Claims \ {c} : claim'[d] = claim[d]
  BY <1>3, <1>4, <1>5 DEF Claim
<1>7. TypeOK'
  BY <1>2, <1>6 DEF BooksInv, TypeOK
<1>8. claim[c].requested <= claim'[c].requested
  BY <1>1, <1>3, <1>6
<1> QED
  BY <1>2, <1>3, <1>6, <1>7, <1>8, OneClaimStep

LEMMA ClaimSubmittedBooks ==
  ASSUME BooksInv, NEW c \in Claims, ClaimSubmitted(c)
  PROVE  BooksInv'
<1>1. /\ submitting' \subseteq Claims
      /\ UNCHANGED <<state, delivered, refund, calling, refundCalls, returned, settlement, book>>
      /\ \/ claim' = claim
         \/ claim[c].status = "READY" /\ claim' = [claim EXCEPT ![c].status = "SUPPLIER_REVIEW"]
  <2>1. claim \in [Claims -> Claim] /\ submitting \subseteq Claims
    BY DEF BooksInv, TypeOK
  <2>2. [claim EXCEPT ![c].status = claim[c].status] = claim
    BY <2>1 DEF Claim
  <2> QED
    BY <2>1, <2>2 DEF ClaimSubmitted
<1>2. claim \in [Claims -> Claim]
  BY DEF BooksInv, TypeOK
<1>3. CASE claim' = claim
  <2>1. TypeOK' /\ OrderOk' /\ RefundsStay
    BY <1>1, <1>3 DEF BooksInv, TypeOK, OrderOk, RefundsStay, Settled
  <2> QED
    BY <1>1, <1>3, <2>1, QuietStep
<1>4. CASE claim[c].status = "READY" /\ claim' = [claim EXCEPT ![c].status = "SUPPLIER_REVIEW"]
  <2>1. /\ claim' \in [Claims -> Claim] /\ claim'[c].status = "SUPPLIER_REVIEW"
        /\ claim'[c].requested = claim[c].requested /\ claim[c].requested \in Nat
        /\ claim'[c].refunded = claim[c].refunded /\ claim'[c].recovery = claim[c].recovery
        /\ \A d \in Claims \ {c} : claim'[d] = claim[d]
    BY <1>2, <1>4 DEF Claim, ClaimStatus
  <2>2. TypeOK'
    BY <1>1, <2>1 DEF BooksInv, TypeOK
  <2>3. delivered
    BY <1>4 DEF BooksInv, OrderOk
  <2>4. ~(claim[c].refunded # 0 /\ claim[c].refunded = claim[c].requested)
    BY <1>4 DEF BooksInv, ClaimTellsRefunds
  <2>5. claim[c].requested <= claim'[c].requested
    BY <2>1
  <2> QED
    BY <1>1, <2>1, <2>2, <2>3, <2>4, <2>5, OneClaimStep
<1> QED
  BY <1>1, <1>3, <1>4

LEMMA SupplierResponseBooks ==
  ASSUME BooksInv, NEW c \in Claims, NEW amount \in 0 .. Paid, NEW operational \in BOOLEAN,
         NEW response \in {"ACCEPTED", "REJECTED"},
         SupplierResponse(c, response, amount, operational)
  PROVE  BooksInv'
<1> DEFINE new == IF response = "ACCEPTED" THEN "REFUND_ELIGIBLE" ELSE "MANUAL_REVIEW"
<1>1. /\ claim[c].status \in {"SUPPLIER_REVIEW", "READY"}
      /\ claim' = [claim EXCEPT ![c].response = response, ![c].accepted = amount,
                                ![c].status = new]
      /\ UNCHANGED <<state, delivered, refund, submitting, calling, refundCalls, returned,
                     settlement, book>>
  BY DEF SupplierResponse
<1>2. new \in {"REFUND_ELIGIBLE", "MANUAL_REVIEW"} /\ amount \in Nat
  BY AmountsAssumption
<1> HIDE DEF new
<1>3. claim \in [Claims -> Claim]
  BY DEF BooksInv, TypeOK
<1>4. /\ claim' \in [Claims -> Claim] /\ claim'[c].status = new
      /\ claim'[c].requested = claim[c].requested /\ claim[c].requested \in Nat
      /\ claim'[c].refunded = claim[c].refunded /\ claim'[c].recovery = claim[c].recovery
      /\ \A d \in Claims \ {c} : claim'[d] = claim[d]
  BY <1>1, <1>2, <1>3 DEF Claim, ClaimStatus
<1>5. TypeOK'
  BY <1>1, <1>4 DEF BooksInv, TypeOK
<1>6. delivered
  BY <1>1 DEF BooksInv, OrderOk
<1>7. ~(claim[c].refunded # 0 /\ claim[c].refunded = claim[c].requested)
  BY <1>1 DEF BooksInv, ClaimTellsRefunds
<1>8. claim[c].requested <= claim'[c].requested
  BY <1>4
<1> QED
  BY <1>1, <1>2, <1>4, <1>5, <1>6, <1>7, <1>8, OneClaimStep

\* confirm_supplier_recovery: the deposit grows by what the supplier gives back.
LEMMA ConfirmRecoveryBooks ==
  ASSUME BooksInv, NEW c \in Claims, NEW amount \in 1 .. Paid, ConfirmRecovery(c, amount)
  PROVE  BooksInv'
<1>1. /\ claim[c].recovery = 0 /\ Recovered + amount <= Paid
      /\ claim' = [claim EXCEPT ![c].recovery = amount]
      /\ book' = [book EXCEPT !.deposit = @ + amount]
      /\ UNCHANGED <<state, delivered, refund, submitting, calling, refundCalls, returned,
                     settlement>>
  BY DEF ConfirmRecovery
<1>2. amount \in Nat /\ claim \in [Claims -> Claim] /\ book \in Book
  BY AmountsAssumption DEF BooksInv, TypeOK
<1>3. /\ claim' \in [Claims -> Claim] /\ claim'[c].recovery = amount
      /\ \A d \in Claims : /\ claim'[d].requested = claim[d].requested
                           /\ claim'[d].refunded = claim[d].refunded
                           /\ claim'[d].status = claim[d].status
                           /\ claim[d].requested \in Nat
      /\ \A d \in Claims \ {c} : claim'[d] = claim[d]
  BY <1>1, <1>2 DEF Claim
<1>4. /\ book' \in Book /\ book'.deposit = book.deposit + amount
      /\ book'.receivable = book.receivable /\ book'.clearing = book.clearing
      /\ book'.variance = book.variance /\ book'.bank = book.bank
  BY <1>1, <1>2 DEF Book
<1>5. TypeOK'
  BY <1>1, <1>3, <1>4 DEF BooksInv, TypeOK
<1>6. Recovered' = Recovered + amount
  <2> DEFINE f == [d \in Claims |-> claim[d].recovery]
             g == [d \in Claims |-> claim'[d].recovery]
  <2>1. Amounts(f, Claims)
    BY RowsAreAmounts, TypeRows DEF BooksInv, AreAmounts, Recoveries
  <2>2. Amounts(g, Claims)
    <3>1. (Rows => AreAmounts)'
      BY RowsAreAmounts, PTL
    <3>2. (TypeOK => Rows)'
      BY TypeRows, PTL
    <3> QED
      BY <1>5, <3>1, <3>2 DEF AreAmounts, Recoveries
  <2>3. /\ f[c] = 0 /\ g[c] = amount /\ \A d \in Claims \ {c} : f[d] = g[d]
        /\ Recovered = Total(f, Claims) /\ Recovered' = Total(g, Claims)
    BY <1>1, <1>3 DEF Recovered
  <2> HIDE DEF f, g
  <2>4. Total(g, Claims) = Total(f, Claims) - (IF c \in Claims THEN f[c] ELSE 0)
                                            + (IF c \in Claims THEN g[c] ELSE 0)
    BY <2>1, <2>2, <2>3, TotalChange
  <2>5. Total(f, Claims) \in Nat
    BY <2>1, TotalType
  <2> QED
    BY <1>2, <2>3, <2>4, <2>5
<1>7. Recovered' <= Paid /\ book'.deposit = Recovered'
  BY <1>1, <1>4, <1>6 DEF BooksInv, WithinLimits
<1>8. OrderOk' /\ RowsOk' /\ RefundsStay
  BY <1>1, <1>3 DEF BooksInv, OrderOk, RowsOk, RefundsStay, Settled
<1>9. \A d \in Claims :
        /\ claim'[d].refunded = claim[d].refunded
        /\ claim[d].requested <= claim'[d].requested
        /\ claim'[d].status = "REFUNDED" <=>
             claim'[d].refunded # 0 /\ claim'[d].refunded = claim'[d].requested
  <2>1. \A d \in Claims : claim[d].status = "REFUNDED" <=>
          claim[d].refunded # 0 /\ claim[d].refunded = claim[d].requested
    BY DEF BooksInv, ClaimTellsRefunds
  <2> QED
    BY <1>3, <2>1
<1> QED
  BY <1>1, <1>4, <1>5, <1>7, <1>8, <1>9, RowsStep

\* request_refund: the limits are asked of every refund that is or may still be paid.
LEMMA RequestRefundBooks ==
  ASSUME BooksInv, NEW r \in Refunds, NEW c \in Claims, NEW amount \in 1 .. NetSale,
         NEW by \in {"operations", "admin", "nobody"}, RequestRefund(r, c, amount, by)
  PROVE  BooksInv'
<1> DEFINE new == RefundRequested(c, amount, by)
<1>1. /\ refund[r].status = "NONE" /\ ~Settled /\ claim[c].status # "NONE"
      /\ Amount(Live) + amount <= NetSale
      /\ Amount(Live \cap Of(c)) + amount <= claim[c].requested
      /\ refund' = [refund EXCEPT ![r] = [status |-> new, claim |-> c, amount |-> amount]]
      /\ UNCHANGED <<state, delivered, claim, submitting, calling, refundCalls, returned,
                     settlement, book>>
  BY DEF RequestRefund
<1>2. amount \in Nat /\ amount >= 1
  BY AmountsAssumption
<1>3. new \in {"EVIDENCE_PENDING", "MANUAL_APPROVAL", "PENDING"}
  BY DEF RefundRequested
<1> HIDE DEF new
<1>4. /\ refund' \in [Refunds -> Refund] /\ refund'[r].status = new
      /\ refund'[r].amount = amount /\ refund'[r].claim = c
      /\ \A q \in Refunds \ {r} : refund'[q] = refund[q]
  BY <1>1, <1>2, <1>3 DEF BooksInv, TypeOK, Refund, RefundStatus
<1>5. TypeOK'
  BY <1>1, <1>4 DEF BooksInv, TypeOK
<1>6. Rows /\ Rows'
  <2>1. (TypeOK => Rows)'
    BY TypeRows, PTL
  <2> QED
    BY <1>5, <2>1, TypeRows DEF BooksInv
<1>7. /\ Amount(Live)' = Amount(Live) + amount /\ Amount(Succeeded)' = Amount(Succeeded)
      /\ \A d \in Claims :
           /\ Amount(Live \cap Of(d))' = Amount(Live \cap Of(d)) + (IF d = c THEN amount ELSE 0)
           /\ Amount(Succeeded \cap Of(d))' = Amount(Succeeded \cap Of(d))
  BY <1>1, <1>3, <1>4, <1>6, RequestedSums
<1>8. delivered
  BY <1>1 DEF BooksInv, OrderOk
<1>9. OrderOk'
  BY <1>1, <1>8 DEF BooksInv, OrderOk
<1>10. RowsOk'
  BY <1>1, <1>2, <1>4 DEF BooksInv, RowsOk
<1>11. Recovered' = Recovered
  BY <1>1, RecoveredStays
<1>12. WithinLimits'
  <2>1. ASSUME NEW d \in Claims PROVE Amount(Live \cap Of(d))' <= claim'[d].requested
    <3>1. Amount(Live \cap Of(d)) \in Nat /\ Amount(Live \cap Of(d)) <= claim[d].requested
      BY <1>6, SumTypes DEF SumsAreNatural, BooksInv, WithinLimits
    <3>2. Amount(Live \cap Of(d))' = Amount(Live \cap Of(d)) + (IF d = c THEN amount ELSE 0)
      BY <1>7
    <3>3. CASE d = c
      BY <1>1, <3>2, <3>3
    <3>4. CASE d # c
      BY <1>1, <3>1, <3>2, <3>4
    <3> QED
      BY <3>3, <3>4
  <2> QED
    BY <1>1, <1>7, <1>11, <2>1 DEF BooksInv, WithinLimits
<1>13. ClaimTellsRefunds'
  BY <1>1, <1>7 DEF BooksInv, ClaimTellsRefunds
<1>14. BooksClose' /\ LedgerOk'
  BY <1>1, <1>7 DEF BooksInv, BooksClose, LedgerOk, Settled
<1> QED
  BY <1>5, <1>9, <1>10, <1>12, <1>13, <1>14 DEF BooksInv

\* A booked refund moves receivable, refund and claim by the same amount.
LEMMA BookedBooks ==
  ASSUME BooksInv, AInv, AInv', NEW r \in Refunds, BookRefund(r), ~Settled,
         refund[r].status \notin {"NONE", "SUCCEEDED"},
         UNCHANGED <<state, delivered, submitting, settlement>>
  PROVE  BooksInv'
<1> DEFINE c == refund[r].claim
           amount == refund[r].amount
           total == claim[c].refunded + amount
           new == IF total = claim[c].requested THEN "REFUNDED" ELSE "PARTIALLY_REFUNDED"
<1>1. /\ book' = [book EXCEPT !.receivable = @ - amount]
      /\ refund' = [refund EXCEPT ![r].status = "SUCCEEDED"]
      /\ claim' = [claim EXCEPT ![c].refunded = total, ![c].status = new]
  BY DEF BookRefund
<1>2. /\ c \in Claims /\ amount \in Nat /\ amount >= 1 /\ claim[c].refunded \in Nat
      /\ claim \in [Claims -> Claim] /\ book \in Book /\ delivered
  BY DEF BooksInv, TypeOK, Claim, Refund, RowsOk, OrderOk
<1>3. total \in Nat /\ total # 0 /\ new \in {"REFUNDED", "PARTIALLY_REFUNDED"}
  BY <1>2
<1>4. \A d \in Claims : d = c => refund[r].claim = d
  OBVIOUS
<1>5. new = "REFUNDED" <=> total = claim[c].requested
  OBVIOUS
<1>6. Rows /\ Rows'
  BY DEF AInv
<1>7. /\ Amount(Live)' = Amount(Live) /\ Amount(Succeeded)' = Amount(Succeeded) + amount
      /\ \A d \in Claims :
           /\ Amount(Live \cap Of(d))' = Amount(Live \cap Of(d))
           /\ Amount(Succeeded \cap Of(d))' = Amount(Succeeded \cap Of(d))
                + (IF d = refund[r].claim THEN refund[r].amount ELSE 0)
  BY <1>1, <1>6, BookedSums
<1>8. claim[c].refunded = Amount(Succeeded \cap Of(c))
  BY <1>2 DEF BooksInv, ClaimTellsRefunds
<1>9. total = claim[c].refunded + amount
  OBVIOUS
<1>10. /\ refund'[r].status = "SUCCEEDED" /\ refund'[r].amount = amount
       /\ \A q \in Refunds \ {r} : refund'[q] = refund[q]
  BY <1>1 DEF BooksInv, TypeOK, Refund
<1>11. \A d \in Claims : d # c => Amount(Succeeded \cap Of(d))' = Amount(Succeeded \cap Of(d))
  <2>1. ASSUME NEW d \in Claims, d # c
        PROVE  Amount(Succeeded \cap Of(d))' = Amount(Succeeded \cap Of(d))
    <3>1. Amount(Succeeded \cap Of(d)) \in Nat
      BY <1>6, <2>1, SumTypes DEF SumsAreNatural
    <3>2. Amount(Succeeded \cap Of(d))' = Amount(Succeeded \cap Of(d))
            + (IF d = c THEN amount ELSE 0)
      BY <1>7, <2>1
    <3>3. (IF d = c THEN amount ELSE 0) = 0
      BY <2>1
    <3>4. \A x \in Nat : x + 0 = x
      OBVIOUS
    <3> HIDE DEF c, amount
    <3> QED
      BY <3>1, <3>2, <3>3, <3>4, Zenon
  <2> QED
    BY <2>1
<1>12. \A d \in Claims : d = c =>
         Amount(Succeeded \cap Of(d))' = Amount(Succeeded \cap Of(d)) + amount
  <2>1. ASSUME NEW d \in Claims, d = c
        PROVE  Amount(Succeeded \cap Of(d))' = Amount(Succeeded \cap Of(d)) + amount
    <3>1. Amount(Succeeded \cap Of(d))' = Amount(Succeeded \cap Of(d))
            + (IF d = c THEN amount ELSE 0)
      BY <1>7, <2>1
    <3>2. (IF d = c THEN amount ELSE 0) = amount
      BY <2>1
    <3> HIDE DEF c, amount
    <3> QED
      BY <3>1, <3>2, Zenon
  <2> QED
    BY <2>1
<1> HIDE DEF c, amount, total, new
<1>13. /\ claim'[c].refunded = total /\ claim'[c].status = new
       /\ \A d \in Claims : /\ claim'[d].requested = claim[d].requested
                            /\ claim'[d].recovery = claim[d].recovery
                            /\ claim'[d].status = "NONE" => claim[d].status = "NONE"
       /\ \A d \in Claims \ {c} : claim'[d] = claim[d]
       /\ claim' \in [Claims -> Claim]
  BY <1>1, <1>2, <1>3 DEF Claim, ClaimStatus
<1>14. /\ book' \in Book /\ book'.receivable = book.receivable - amount
       /\ book'.clearing = book.clearing /\ book'.variance = book.variance
       /\ book'.bank = book.bank /\ book'.deposit = book.deposit
  BY <1>1, <1>2 DEF Book
<1>15. TypeOK'
  BY <1>6, <1>13, <1>14 DEF BooksInv, TypeOK, Rows
<1>16. OrderOk'
  BY <1>2 DEF BooksInv, OrderOk
<1>17. RowsOk'
  <2>1. \A d \in Claims : claim'[d].status = "NONE" =>
          claim'[d].requested = 0 /\ claim'[d].refunded = 0
    BY <1>3, <1>13 DEF BooksInv, RowsOk
  <2>2. \A q \in Refunds : refund'[q].status # "NONE" => refund'[q].amount >= 1
    BY <1>2, <1>10 DEF BooksInv, RowsOk
  <2> QED
    BY <2>1, <2>2 DEF RowsOk
<1>18. Recovered' = Recovered
  BY <1>13, RecoveredStays
<1>19. WithinLimits'
  BY <1>7, <1>13, <1>14, <1>18 DEF BooksInv, WithinLimits
<1>20. ClaimTellsRefunds'
  <2>1. ASSUME NEW d \in Claims
        PROVE  /\ claim'[d].refunded = Amount(Succeeded \cap Of(d))'
               /\ claim'[d].status = "REFUNDED" <=>
                    claim'[d].refunded # 0 /\ claim'[d].refunded = claim'[d].requested
    <3>1. CASE d = c
      <4>1. /\ claim'[d].refunded = total /\ claim'[d].status = new
            /\ claim'[d].requested = claim[c].requested
        BY <1>13, <3>1
      <4>2. Amount(Succeeded \cap Of(d))' = Amount(Succeeded \cap Of(d)) + amount
        BY <1>12, <3>1
      <4>3. total = Amount(Succeeded \cap Of(d))'
        BY <1>8, <1>9, <3>1, <4>2
      <4>4. new = "REFUNDED" <=> total # 0 /\ total = claim[c].requested
        BY <1>3, <1>5
      <4> QED
        BY <4>1, <4>3, <4>4
    <3>2. CASE d # c
      <4>1. claim'[d] = claim[d] /\ Amount(Succeeded \cap Of(d))' = Amount(Succeeded \cap Of(d))
        BY <1>11, <1>13, <3>2
      <4>2. /\ claim[d].refunded = Amount(Succeeded \cap Of(d))
            /\ claim[d].status = "REFUNDED" <=>
                 claim[d].refunded # 0 /\ claim[d].refunded = claim[d].requested
        BY DEF BooksInv, ClaimTellsRefunds
      <4> QED
        BY <4>1, <4>2
    <3> QED
      BY <3>1, <3>2
  <2> QED
    BY <2>1 DEF ClaimTellsRefunds
<1>21. BooksClose'
  <2>1. book.receivable = NetSale - Fees - Amount(Succeeded)
    BY <1>2 DEF BooksInv, BooksClose
  <2>2. NetSale \in Int /\ Fees \in Int /\ Amount(Succeeded) \in Int
    BY <1>6, SumTypes, AmountsAssumption DEF SumsAreNatural
  <2>3. book'.receivable = NetSale - Fees - Amount(Succeeded)'
    BY <1>2, <1>7, <1>14, <2>1, <2>2
  <2> QED
    BY <1>2, <2>3 DEF BooksClose, Settled
<1>22. LedgerOk'
  BY <1>14 DEF BooksInv, LedgerOk, Settled
<1> QED
  BY <1>15, <1>16, <1>17, <1>19, <1>20, <1>21, <1>22 DEF BooksInv

\* The statement's own steps leave claims, refunds and the deposit alone.
LEMMA StatementLeavesRows ==
  ASSUME BooksInv, UNCHANGED <<claim, refund>>, book'.deposit = book.deposit
  PROVE  /\ RowsOk' /\ WithinLimits' /\ ClaimTellsRefunds'
         /\ Amount(Succeeded)' = Amount(Succeeded)
<1>1. RefundsStay
  BY DEF RefundsStay
<1>2. /\ Amount(Live)' = Amount(Live) /\ Amount(Succeeded)' = Amount(Succeeded)
      /\ \A c \in Claims : /\ Amount(Live \cap Of(c))' = Amount(Live \cap Of(c))
                           /\ Amount(Succeeded \cap Of(c))' = Amount(Succeeded \cap Of(c))
  BY <1>1, RefundSumsStay
<1>3. Recovered' = Recovered
  BY RecoveredStays
<1> QED
  BY <1>2, <1>3 DEF BooksInv, RowsOk, WithinLimits, ClaimTellsRefunds

LEMMA BookBalances ==
  ASSUME book \in Book
  PROVE  /\ book.receivable \in Int /\ book.clearing \in Int /\ book.variance \in Int
         /\ book.bank \in Int /\ book.deposit \in Int
BY DEF Book

\* reconcile_settlement: what is receivable becomes the statement's cash and its variance.
LEMMA ReconcileBooks ==
  ASSUME BooksInv, NEW actual \in Statements, NEW adjustment \in Adjustments,
         NEW operational \in BOOLEAN, ReconcileSettlement(actual, adjustment, operational)
  PROVE  BooksInv'
<1> DEFINE paid == Amount(Succeeded)
           expected == Expected(adjustment)
<1>1. /\ ~Settled /\ state = "DELIVERED" /\ state' = "SETTLEMENT_PENDING"
      /\ settlement' = [NoSettlement EXCEPT !.status = "STATEMENT", !.actual = actual,
                          !.adjustment = adjustment, !.expected = expected]
      /\ book' = [book EXCEPT !.receivable = @ + adjustment - expected,
                              !.clearing = @ + actual,
                              !.variance = @ - adjustment + expected - actual]
      /\ UNCHANGED <<delivered, claim, refund, submitting, calling, refundCalls, returned>>
  BY DEF ReconcileSettlement
<1>2. /\ actual \in Nat /\ adjustment \in Int /\ NetSale \in Int /\ Fees \in Int /\ paid \in Nat
      /\ book \in Book
  BY AmountsAssumption, SumTypes, TypeRows DEF BooksInv, TypeOK, SumsAreNatural
<1>3. expected = NetSale - Fees - paid + adjustment /\ expected \in Int
  BY <1>2 DEF Expected
<1>4. /\ delivered /\ book.receivable = NetSale - Fees - paid
      /\ book.clearing = 0 /\ book.variance = 0 /\ book.bank = 0
  BY <1>1 DEF BooksInv, OrderOk, BooksClose, LedgerOk
<1> HIDE DEF expected, paid
<1>5. /\ settlement' \in Settlement /\ settlement'.status = "STATEMENT"
      /\ settlement'.actual = actual /\ settlement'.adjustment = adjustment
      /\ settlement'.expected = expected
  BY <1>1, <1>2, <1>3 DEF NoSettlement, Settlement
<1>6. /\ book' \in Book /\ book'.deposit = book.deposit /\ book'.bank = book.bank
      /\ book'.receivable = book.receivable + adjustment - expected
      /\ book'.clearing = book.clearing + actual
      /\ book'.variance = book.variance - adjustment + expected - actual
  <2> DEFINE receivable == book.receivable + adjustment - expected
             clearing == book.clearing + actual
             variance == book.variance - adjustment + expected - actual
  <2>1. book' = [book EXCEPT !.receivable = receivable, !.clearing = clearing,
                            !.variance = variance]
    BY <1>1
  <2>2. receivable \in Int /\ clearing \in Int /\ variance \in Int
    BY <1>2, <1>3, BookBalances
  <2> HIDE DEF receivable, clearing, variance
  <2>3. book' = [receivable |-> receivable, clearing |-> clearing, variance |-> variance,
                 bank |-> book.bank, deposit |-> book.deposit]
    BY <1>2, <2>1 DEF Book
  <2>4. /\ book' \in Book /\ book'.deposit = book.deposit /\ book'.bank = book.bank
        /\ book'.receivable = receivable /\ book'.clearing = clearing /\ book'.variance = variance
    BY <1>2, <2>2, <2>3, BookBalances DEF Book
  <2> QED
    BY <2>4 DEF receivable, clearing, variance
<1>7. TypeOK'
  BY <1>1, <1>5, <1>6 DEF BooksInv, TypeOK, OrderState, NormalFlow
<1>8. OrderOk'
  BY <1>1, <1>4 DEF OrderOk
<1>9. RowsOk' /\ WithinLimits' /\ ClaimTellsRefunds' /\ Amount(Succeeded)' = Amount(Succeeded)
  BY <1>1, <1>6, StatementLeavesRows
<1>10. LedgerOk'
  BY <1>3, <1>5, <1>9 DEF LedgerOk, Settled, Expected, paid
<1>11. /\ book'.receivable = 0 /\ book'.variance = expected - actual - adjustment
       /\ book'.clearing = actual /\ book'.bank = 0
  BY <1>2, <1>3, <1>4, <1>6
<1>12. BooksClose'
  BY <1>5, <1>11 DEF BooksClose, Settled
<1> QED
  BY <1>7, <1>8, <1>9, <1>10, <1>12 DEF BooksInv

\* correct_settlement: the inverse postings take back all of the old statement.
LEMMA CorrectBooks ==
  ASSUME BooksInv, NEW actual \in Statements, NEW adjustment \in Adjustments,
         CorrectSettlement(actual, adjustment)
  PROVE  BooksInv'
<1> DEFINE paid == Amount(Succeeded)
           expected == Expected(adjustment)
           old == settlement
<1>1. /\ old.status = "STATEMENT"
      /\ settlement' = [settlement EXCEPT !.actual = actual, !.adjustment = adjustment,
                          !.expected = expected, !.revision = @ + 1]
      /\ book' = [book EXCEPT
           !.receivable = @ + old.expected - old.adjustment + adjustment - expected,
           !.clearing = @ - old.actual + actual,
           !.variance = @ + old.actual - old.expected + old.adjustment
                          - adjustment + expected - actual]
      /\ UNCHANGED <<state, delivered, claim, refund, submitting, calling, refundCalls, returned>>
  BY DEF CorrectSettlement
<1>2. /\ actual \in Nat /\ adjustment \in Int /\ NetSale \in Int /\ Fees \in Int /\ paid \in Nat
      /\ book \in Book /\ settlement \in Settlement
  BY AmountsAssumption, SumTypes, TypeRows DEF BooksInv, TypeOK, SumsAreNatural
<1>3. expected = NetSale - Fees - paid + adjustment /\ expected \in Int
  BY <1>2 DEF Expected
<1>4. /\ book.receivable = 0 /\ book.variance = old.expected - old.actual - old.adjustment
      /\ book.clearing = old.actual /\ book.bank = 0
      /\ old.expected = NetSale - Fees - paid + old.adjustment
  BY <1>1 DEF BooksInv, BooksClose, LedgerOk, Settled, Expected
<1>5. old.actual \in Nat /\ old.adjustment \in Int /\ old.expected \in Int /\ old.revision \in Nat
  BY <1>2 DEF Settlement
<1> HIDE DEF expected, paid
<1>6. /\ settlement' \in Settlement /\ settlement'.status = "STATEMENT"
      /\ settlement'.actual = actual /\ settlement'.adjustment = adjustment
      /\ settlement'.expected = expected
  <2> DEFINE revision == settlement.revision + 1
  <2>1. settlement' = [settlement EXCEPT !.actual = actual, !.adjustment = adjustment,
                         !.expected = expected, !.revision = revision]
    BY <1>1
  <2>2. revision \in Nat
    BY <1>5
  <2> HIDE DEF revision
  <2>3. settlement' = [status |-> settlement.status, expected |-> expected, actual |-> actual,
                       adjustment |-> adjustment, revision |-> revision]
    BY <1>2, <2>1 DEF Settlement
  <2>4. settlement'.status = "STATEMENT"
    BY <1>1, <2>3
  <2> QED
    BY <1>2, <1>3, <2>2, <2>3, <2>4 DEF Settlement
<1>7. /\ book' \in Book /\ book'.deposit = book.deposit /\ book'.bank = book.bank
      /\ book'.receivable = book.receivable + old.expected - old.adjustment + adjustment - expected
      /\ book'.clearing = book.clearing - old.actual + actual
      /\ book'.variance = book.variance + old.actual - old.expected + old.adjustment
                            - adjustment + expected - actual
  <2> DEFINE receivable == book.receivable + old.expected - old.adjustment + adjustment - expected
             clearing == book.clearing - old.actual + actual
             variance == book.variance + old.actual - old.expected + old.adjustment
                           - adjustment + expected - actual
  <2>1. book' = [book EXCEPT !.receivable = receivable, !.clearing = clearing,
                            !.variance = variance]
    BY <1>1
  <2>2. receivable \in Int /\ clearing \in Int /\ variance \in Int
    BY <1>2, <1>3, <1>5, BookBalances
  <2> HIDE DEF receivable, clearing, variance
  <2>3. book' = [receivable |-> receivable, clearing |-> clearing, variance |-> variance,
                 bank |-> book.bank, deposit |-> book.deposit]
    BY <1>2, <2>1 DEF Book
  <2>4. /\ book' \in Book /\ book'.deposit = book.deposit /\ book'.bank = book.bank
        /\ book'.receivable = receivable /\ book'.clearing = clearing /\ book'.variance = variance
    BY <1>2, <2>2, <2>3, BookBalances DEF Book
  <2> QED
    BY <2>4 DEF receivable, clearing, variance
<1>8. TypeOK'
  BY <1>1, <1>6, <1>7 DEF BooksInv, TypeOK
<1>9. OrderOk'
  BY <1>1, <1>6 DEF BooksInv, OrderOk, Settled
<1>10. RowsOk' /\ WithinLimits' /\ ClaimTellsRefunds' /\ Amount(Succeeded)' = Amount(Succeeded)
  BY <1>1, <1>7, StatementLeavesRows
<1>11. LedgerOk'
  BY <1>3, <1>6, <1>10 DEF LedgerOk, Settled, Expected, paid
<1>12. /\ book'.receivable = 0 /\ book'.variance = expected - actual - adjustment
       /\ book'.clearing = actual /\ book'.bank = 0
  BY <1>2, <1>3, <1>4, <1>5, <1>7
<1>13. BooksClose'
  BY <1>6, <1>12 DEF BooksClose, Settled
<1> QED
  BY <1>8, <1>9, <1>10, <1>11, <1>13 DEF BooksInv

LEMMA ConfirmCashBooks ==
  ASSUME BooksInv, ConfirmCash
  PROVE  BooksInv'
<1> DEFINE old == settlement
<1>1. /\ old.status = "STATEMENT" /\ settlement' = [settlement EXCEPT !.status = "CASH"]
      /\ book' = [book EXCEPT !.bank = @ + old.actual, !.clearing = @ - old.actual]
      /\ state' \in {"CLOSED", "SETTLED"}
      /\ UNCHANGED <<delivered, claim, refund, submitting, calling, refundCalls, returned>>
  BY DEF ConfirmCash
<1>2. book \in Book /\ settlement \in Settlement
  BY DEF BooksInv, TypeOK
<1>3. /\ book.receivable = 0 /\ book.variance = old.expected - old.actual - old.adjustment
      /\ book.clearing = old.actual /\ book.bank = 0 /\ delivered
      /\ old.expected = Expected(old.adjustment)
  BY <1>1 DEF BooksInv, BooksClose, LedgerOk, OrderOk, Settled
<1>4. /\ settlement' \in Settlement /\ settlement'.status = "CASH"
      /\ settlement'.actual = old.actual /\ settlement'.adjustment = old.adjustment
      /\ settlement'.expected = old.expected /\ old.actual \in Nat
  BY <1>1, <1>2 DEF Settlement
<1>5. /\ book' \in Book /\ book'.deposit = book.deposit /\ book'.receivable = book.receivable
      /\ book'.variance = book.variance /\ book'.bank = book.bank + old.actual
      /\ book'.clearing = book.clearing - old.actual
  <2> DEFINE bank == book.bank + old.actual
             clearing == book.clearing - old.actual
  <2>1. book' = [book EXCEPT !.bank = bank, !.clearing = clearing]
    BY <1>1
  <2>2. bank \in Int /\ clearing \in Int
    BY <1>2, <1>4, BookBalances
  <2> HIDE DEF bank, clearing
  <2>3. book' = [receivable |-> book.receivable, clearing |-> clearing, variance |-> book.variance,
                 bank |-> bank, deposit |-> book.deposit]
    BY <1>2, <2>1 DEF Book
  <2>4. /\ book' \in Book /\ book'.deposit = book.deposit /\ book'.receivable = book.receivable
        /\ book'.variance = book.variance /\ book'.bank = bank /\ book'.clearing = clearing
    BY <1>2, <2>2, <2>3, BookBalances DEF Book
  <2> QED
    BY <2>4 DEF bank, clearing
<1>6. TypeOK'
  BY <1>1, <1>4, <1>5 DEF BooksInv, TypeOK, OrderState, NormalFlow
<1>7. OrderOk'
  BY <1>1, <1>3 DEF OrderOk
<1>8. RowsOk' /\ WithinLimits' /\ ClaimTellsRefunds' /\ Amount(Succeeded)' = Amount(Succeeded)
  BY <1>1, <1>5, StatementLeavesRows
<1>9. LedgerOk'
  BY <1>3, <1>4, <1>8 DEF LedgerOk, Settled, Expected
<1>10. book'.clearing = 0 /\ book'.bank = old.actual
  BY <1>3, <1>4, <1>5
<1>11. BooksClose'
  BY <1>3, <1>4, <1>5, <1>10 DEF BooksClose, Settled
<1> QED
  BY <1>6, <1>7, <1>8, <1>9, <1>11 DEF BooksInv

-----------------------------------------------------------------------------
LEMMA BooksStart == Init => BooksInv
<1> SUFFICES ASSUME Init PROVE BooksInv
  OBVIOUS
<1>1. TypeOK
  <2>1. state \in OrderState
    BY DEF Init, OrderState, NormalFlow
  <2>2. claim \in [Claims -> Claim]
    BY DEF Init, Claim, ClaimStatus
  <2>3. refund \in [Refunds -> Refund]
    BY DEF Init, Refund, RefundStatus
  <2>4. settlement \in Settlement /\ book \in Book
    BY DEF Init, NoSettlement, Settlement, Book
  <2> QED
    BY <2>1, <2>2, <2>3, <2>4 DEF Init, TypeOK
<1>2. OrderOk /\ RowsOk
  BY DEF Init, OrderOk, RowsOk, Settled, NoSettlement
<1>3. Live = {} /\ Succeeded = {}
  BY DEF Init, Live, Succeeded
<1>4. /\ Amount(Live) = 0 /\ Amount(Succeeded) = 0
      /\ \A c \in Claims : Amount(Live \cap Of(c)) = 0 /\ Amount(Succeeded \cap Of(c)) = 0
  <2>1. \A c \in Claims : Live \cap Of(c) = {} /\ Succeeded \cap Of(c) = {}
    BY <1>3
  <2> QED
    BY <1>3, <2>1, TotalEmpty DEF Amount
<1>5. Recovered = 0
  <2> DEFINE f == [c \in Claims |-> claim[c].recovery]
             none == [c \in Claims |-> 0]
  <2>1. Amounts(f, Claims) /\ \A c \in Claims : f[c] = 0
    BY AmountsAssumption DEF Init, Amounts
  <2>2. Units(f, Claims) = {}
    <3>1. \A c \in Claims : 1 .. f[c] = {}
      BY <2>1
    <3> QED
      BY <3>1 DEF Units
  <2> QED
    BY <2>2, FS_EmptySet DEF Recovered, Total
<1>6. WithinLimits /\ ClaimTellsRefunds
  <2>1. \A c \in Claims : /\ claim[c].requested = 0 /\ claim[c].refunded = 0
                          /\ claim[c].status = "NONE"
    BY DEF Init
  <2>2. book.deposit = 0
    BY DEF Init
  <2>3. WithinLimits
    <3>1. 0 <= NetSale /\ 0 <= Paid
      BY AmountsAssumption
    <3>2. ASSUME NEW c \in Claims PROVE Amount(Live \cap Of(c)) <= claim[c].requested
      <4>1. Amount(Live \cap Of(c)) = 0
        BY <1>4, <3>2, Zenon
      <4>2. claim[c].requested = 0
        BY <2>1
      <4>3. 0 <= 0
        OBVIOUS
      <4> QED
        BY <4>1, <4>2, <4>3, Zenon
    <3> QED
      BY <1>4, <1>5, <2>2, <3>1, <3>2 DEF WithinLimits
  <2>4. ClaimTellsRefunds
    BY <1>4, <2>1 DEF ClaimTellsRefunds
  <2> QED
    BY <2>3, <2>4
<1>7. BooksClose /\ LedgerOk
  BY DEF Init, BooksClose, LedgerOk, Settled, NoSettlement
<1> QED
  BY <1>1, <1>2, <1>6, <1>7 DEF BooksInv

LEMMA BooksInductive == AInv /\ AInv' /\ BooksInv /\ [Next]_vars => BooksInv'
<1> SUFFICES ASSUME AInv, AInv', BooksInv, [Next]_vars PROVE BooksInv'
  OBVIOUS
<1>1. CASE Delivered
  BY <1>1, DeliveredStep
<1>2. CASE Cancel \/ UNCHANGED vars
  BY <1>2, QuietSteps
<1>3. CASE ConfirmCash
  BY <1>3, ConfirmCashBooks
<1>4. ASSUME NEW c \in Claims, NEW amount \in 1 .. NetSale, NEW operational \in BOOLEAN,
             NEW status \in {"READY", "EVIDENCE_REQUIRED", "MANUAL_REVIEW"},
             OpenClaim(c, amount, status, operational)
      PROVE BooksInv'
  BY <1>4, OpenClaimBooks
<1>5. ASSUME NEW c \in Claims, SubmitClaim(c) PROVE BooksInv'
  BY <1>5, QuietSteps
<1>6. ASSUME NEW c \in Claims, ClaimSubmitted(c) PROVE BooksInv'
  BY <1>6, ClaimSubmittedBooks
<1>7. ASSUME NEW c \in Claims, NEW amount \in 0 .. Paid, NEW operational \in BOOLEAN,
             NEW response \in {"ACCEPTED", "REJECTED"},
             SupplierResponse(c, response, amount, operational)
      PROVE BooksInv'
  BY <1>7, SupplierResponseBooks
<1>8. ASSUME NEW c \in Claims, NEW amount \in 1 .. Paid, ConfirmRecovery(c, amount)
      PROVE BooksInv'
  BY <1>8, ConfirmRecoveryBooks
<1>9. ASSUME NEW r \in Refunds, NEW c \in Claims, NEW amount \in 1 .. NetSale,
             NEW by \in {"operations", "admin", "nobody"}, RequestRefund(r, c, amount, by)
      PROVE BooksInv'
  BY <1>9, RequestRefundBooks
<1>10. ASSUME NEW r \in Refunds,
              ExecuteRefund(r) \/ MarketplaceRefunds(r) \/ RefundUncertain(r) \/ RefundCrash(r)
       PROVE BooksInv'
  BY <1>10, QuietSteps
<1>11. ASSUME NEW r \in Refunds, RecordRefund(r) PROVE BooksInv'
  <2>1. refund[r].status \in {"SENDING", "UNKNOWN"}
    BY <1>11 DEF AInv, RefundOk, RecordRefund
  <2>2. ~Settled
    BY <2>1, UnbookedMeansUnsettled
  <2>3. BookRefund(r) /\ UNCHANGED <<state, delivered, submitting, settlement>>
    BY <1>11, <2>1 DEF RecordRefund
  <2> QED
    BY <2>1, <2>2, <2>3, BookedBooks
<1>12. ASSUME NEW r \in Refunds, ConfirmRefund(r) PROVE BooksInv'
  <2>1. /\ BookRefund(r) /\ refund[r].status = "EVIDENCE_PENDING" /\ ~Settled
        /\ UNCHANGED <<state, delivered, submitting, settlement>>
    BY <1>12 DEF ConfirmRefund
  <2> QED
    BY <2>1, BookedBooks
<1>13. ASSUME NEW actual \in Statements, NEW adjustment \in Adjustments,
              NEW operational \in BOOLEAN,
              ReconcileSettlement(actual, adjustment, operational)
       PROVE BooksInv'
  BY <1>13, ReconcileBooks
<1>14. ASSUME NEW actual \in Statements, NEW adjustment \in Adjustments,
              CorrectSettlement(actual, adjustment)
       PROVE BooksInv'
  BY <1>14, CorrectBooks
<1> QED
  BY <1>1, <1>2, <1>3, <1>4, <1>5, <1>6, <1>7, <1>8, <1>9, <1>10, <1>11, <1>12, <1>13, <1>14
  DEF Next

\* The books, the limits and the types together.
THEOREM ABooks == Spec => []BooksInv
<1> QED
  BY AInvariant, BooksStart, BooksInductive, PTL DEF Spec

\* Every row and every balance has its type in every reachable state.
THEOREM ATypes == Spec => []TypeOK
<1>1. BooksInv => TypeOK
  BY DEF BooksInv
<1> QED
  BY <1>1, ABooks, PTL

\* No customer gets back more than was asked for or sold, no supplier gives back more than it
\* was paid (request_refund, execute_refund, confirm_refund, confirm_supplier_recovery).
THEOREM AWithinLimits == Spec => []WithinLimits
<1>1. BooksInv => WithinLimits
  BY DEF BooksInv
<1> QED
  BY <1>1, ABooks, PTL

\* Receivable, clearing and variance come out even in every order of refunds, statements and
\* corrections (delivered, reconcile_settlement, correct_settlement, confirm_settlement_cash).
THEOREM ABooksClose == Spec => []BooksClose
<1>1. BooksInv => BooksClose
  BY DEF BooksInv
<1> QED
  BY <1>1, ABooks, PTL

\* A claim's refunded amount is the sum of its booked refunds, and it is REFUNDED exactly when
\* that is all it asked for (execute_refund, confirm_refund).
THEOREM AClaimTellsRefunds == Spec => []ClaimTellsRefunds
<1>1. BooksInv => ClaimTellsRefunds
  BY DEF BooksInv
<1> QED
  BY <1>1, ABooks, PTL
=============================================================================
