----------------------------- MODULE AfterSales -----------------------------
(***************************************************************************)
(* A shipped order until its books are closed: claims, customer refunds,   *)
(* supplier recoveries, the marketplace's statement and the bank's cash    *)
(* (packages/application/after_sales.py, and the evidence-backed commands  *)
(* of operations.py that reach the same rows).                             *)
(*                                                                         *)
(* Every command is one transaction under the treasury lock. The refund    *)
(* job is two transactions around the marketplace's refund call, which may *)
(* time out before or after its effect; the claim's submission is a read,  *)
(* a call and a transaction. Amounts are small integers, the accounts are  *)
(* this order's share of the ledger.                                       *)
(***************************************************************************)
EXTENDS OrderStates, Sums

CONSTANTS Claims, Refunds,
          NetSale,         \* gross_sale - discount
          Fees,            \* fee + promotion_cost
          Paid,            \* what the supplier was paid
          AutoLimit,       \* settings.auto_refund_limit
          Statements,      \* bound: what a statement may say was paid out
          Adjustments,     \* bound: adjustments a statement may carry
          MaxCorrections   \* bound on corrections of the statement

ASSUME AmountsAssumption ==
  /\ IsFiniteSet(Claims) /\ IsFiniteSet(Refunds)
  /\ NetSale \in Nat /\ Fees \in 0 .. NetSale /\ Paid \in Nat /\ AutoLimit \in Nat
  /\ Statements \subseteq Nat /\ Adjustments \subseteq Int /\ MaxCorrections \in Nat

VARIABLES
  state,        \* orders.state
  delivered,    \* orders.delivered_at is set
  claim,        \* claim[c]: the claim row
  refund,       \* refund[r]: the refund row
  submitting,   \* claims whose submit_claim call is out
  calling,      \* refunds whose marketplace call is out
  refundCalls,  \* refundCalls[r]: marketplace refund calls made
  returned,     \* refunds the customer has got from the marketplace
  settlement,   \* the settlement row
  book          \* balances that this order has moved

vars == <<state, delivered, claim, refund, submitting, calling, refundCalls, returned,
          settlement, book>>

ClaimStatus ==
  {"NONE", "READY", "EVIDENCE_REQUIRED", "MANUAL_REVIEW", "SUPPLIER_REVIEW",
   "REFUND_ELIGIBLE", "PARTIALLY_REFUNDED", "REFUNDED"}
RefundStatus ==
  {"NONE", "EVIDENCE_PENDING", "MANUAL_APPROVAL", "PENDING", "SENDING", "UNKNOWN", "SUCCEEDED"}

Claim ==
  [status : ClaimStatus, requested : Nat, operational : BOOLEAN,
   response : {"NONE", "ACCEPTED", "REJECTED"}, accepted : Nat,
   recovery : Nat, refunded : Nat]
Refund == [status : RefundStatus, claim : Claims, amount : Nat]
Settlement ==
  [status : {"NONE", "STATEMENT", "CASH"}, expected : Int, actual : Nat,
   adjustment : Int, revision : Nat]
Book == [receivable : Int, clearing : Int, variance : Int, bank : Int, deposit : Int]

TypeOK ==
  /\ state \in OrderState /\ delivered \in BOOLEAN
  /\ claim \in [Claims -> Claim] /\ refund \in [Refunds -> Refund]
  /\ submitting \subseteq Claims
  /\ calling \subseteq Refunds /\ returned \subseteq Refunds
  /\ refundCalls \in [Refunds -> Nat]
  /\ settlement \in Settlement /\ book \in Book

NoSettlement ==
  [status |-> "NONE", expected |-> 0, actual |-> 0, adjustment |-> 0, revision |-> 0]

\* add_shipment has committed; nobody has claimed anything.
Init ==
  /\ state = "SHIPPED" /\ delivered = FALSE
  /\ claim = [c \in Claims |->
       [status |-> "NONE", requested |-> 0, operational |-> FALSE, response |-> "NONE",
        accepted |-> 0, recovery |-> 0, refunded |-> 0]]
  /\ refund \in [Refunds -> [status : {"NONE"}, claim : Claims, amount : {0}]]
  /\ submitting = {} /\ calling = {} /\ returned = {}
  /\ refundCalls = [r \in Refunds |-> 0]
  /\ settlement = NoSettlement
  /\ book = [receivable |-> 0, clearing |-> 0, variance |-> 0, bank |-> 0, deposit |-> 0]

-----------------------------------------------------------------------------
(* Sums over the rows, as the queries of the code take them *)

Amount(rs) == Total([r \in Refunds |-> refund[r].amount], rs)

\* Slip: a refund whose result is unknown does not count.
LiveButNotUnknown == {r \in Refunds : refund[r].status \notin {"NONE", "UNKNOWN"}}

\* Every refund that was, may be or still can be paid.
Live == {r \in Refunds : refund[r].status # "NONE"}
Of(c) == {r \in Refunds : refund[r].claim = c}
Succeeded == {r \in Refunds : refund[r].status = "SUCCEEDED"}
Recovered == Total([c \in Claims |-> claim[c].recovery], Claims)

\* Slip: an uncertain refund does not hold the settlement up.
RefundsAreDoneOrUnknown ==
  \A r \in Refunds : refund[r].status \in {"NONE", "SUCCEEDED", "UNKNOWN"}

\* No refund other than a booked one.
RefundsAreDone == \A r \in Refunds : refund[r].status \in {"NONE", "SUCCEEDED"}

ClaimsAreDone == \A c \in Claims : claim[c].status \in {"NONE", "REFUNDED"}

Settled == settlement.status # "NONE"

Expected(adjustment) == NetSale - Fees - Amount(Succeeded) + adjustment

-----------------------------------------------------------------------------
(* The order *)

\* delivered(): the sale is recognized.
Delivered ==
  /\ state = "SHIPPED"
  /\ state' = "DELIVERED" /\ delivered' = TRUE
  /\ book' = [book EXCEPT !.receivable = @ + NetSale - Fees]
  /\ UNCHANGED <<claim, refund, submitting, calling, refundCalls, returned, settlement>>

\* cancel() of a paid order, which only stops the order (and is reviewed); from the
\* statement on it leaves the state alone.
Cancel ==
  /\ state \in {"SHIPPED", "DELIVERED"}
  /\ state' = "CANCEL_REQUESTED"
  /\ UNCHANGED <<delivered, claim, refund, submitting, calling, refundCalls, returned,
                 settlement, book>>

-----------------------------------------------------------------------------
(* Claims *)

\* open_claim; which status a new claim has depends on category, evidence and date.
OpenClaim(c, amount, status, operational) ==
  /\ claim[c].status = "NONE"
  /\ delivered /\ ~Settled /\ amount \in 1 .. NetSale
  /\ claim' = [claim EXCEPT ![c].status = status, ![c].requested = amount,
                            ![c].operational = operational]
  /\ UNCHANGED <<state, delivered, refund, submitting, calling, refundCalls, returned,
                 settlement, book>>

\* submit_claim: the job reads the claim and calls the supplier ...
SubmitClaim(c) ==
  /\ claim[c].status = "READY" /\ ~claim[c].operational
  /\ submitting' = submitting \cup {c}
  /\ UNCHANGED <<state, delivered, claim, refund, calling, refundCalls, returned,
                 settlement, book>>

\* Slip: the status is written without looking at it again.
ClaimSubmittedBlind(c) ==
  /\ c \in submitting
  /\ claim' = [claim EXCEPT ![c].status = "SUPPLIER_REVIEW"]
  /\ submitting' = submitting \ {c}
  /\ UNCHANGED <<state, delivered, refund, calling, refundCalls, returned, settlement, book>>

\* ... and then records the submission, or the call has failed.
ClaimSubmitted(c) ==
  /\ c \in submitting
  /\ \/ claim' = [claim EXCEPT ![c].status = IF @ = "READY" THEN "SUPPLIER_REVIEW" ELSE @]
     \/ UNCHANGED claim
  /\ submitting' = submitting \ {c}
  /\ UNCHANGED <<state, delivered, refund, calling, refundCalls, returned, settlement, book>>

\* supplier_response; an operator may record one without a submission.
SupplierResponse(c, response, amount, operational) ==
  /\ claim[c].response = "NONE"
  /\ claim[c].status \in {"SUPPLIER_REVIEW"} \cup (IF operational THEN {"READY"} ELSE {})
  /\ amount <= claim[c].requested /\ amount <= Paid
  /\ response = "REJECTED" => amount = 0
  /\ claim' = [claim EXCEPT ![c].response = response, ![c].accepted = amount,
       ![c].status = IF response = "ACCEPTED" THEN "REFUND_ELIGIBLE" ELSE "MANUAL_REVIEW"]
  /\ UNCHANGED <<state, delivered, refund, submitting, calling, refundCalls, returned,
                 settlement, book>>

\* confirm_supplier_recovery: a credit of the supplier's deposit.
ConfirmRecovery(c, amount) ==
  /\ claim[c].recovery = 0
  /\ amount \in 1 .. claim[c].accepted
  /\ Recovered + amount <= Paid
  /\ claim' = [claim EXCEPT ![c].recovery = amount]
  /\ book' = [book EXCEPT !.deposit = @ + amount]
  /\ UNCHANGED <<state, delivered, refund, submitting, calling, refundCalls, returned,
                 settlement>>

-----------------------------------------------------------------------------
(* Refunds *)

\* request_refund, by an operator who will bring evidence of a refund made outside
\* (operations.py), by an administrator, or by nobody in particular.
RefundRequested(c, amount, by) ==
  IF by = "operations" THEN "EVIDENCE_PENDING"
  ELSE IF by = "nobody" /\ (amount > AutoLimit \/ claim[c].status = "MANUAL_REVIEW")
       THEN "MANUAL_APPROVAL" ELSE "PENDING"

\* Slip: refunds with an unknown result are left out of the sums.
RequestRefundForgetful(r, c, amount, by) ==
  /\ refund[r].status = "NONE" /\ ~Settled
  /\ claim[c].status \in {"REFUND_ELIGIBLE", "MANUAL_REVIEW", "PARTIALLY_REFUNDED", "REFUNDED"}
  /\ amount >= 1
  /\ Amount(LiveButNotUnknown) + amount <= NetSale
  /\ Amount(LiveButNotUnknown \cap Of(c)) + amount <= claim[c].requested
  /\ refund' = [refund EXCEPT ![r] =
       [status |-> RefundRequested(c, amount, by), claim |-> c, amount |-> amount]]
  /\ UNCHANGED <<state, delivered, claim, submitting, calling, refundCalls, returned,
                 settlement, book>>

RequestRefund(r, c, amount, by) ==
  /\ refund[r].status = "NONE" /\ ~Settled
  /\ claim[c].status \in {"REFUND_ELIGIBLE", "MANUAL_REVIEW", "PARTIALLY_REFUNDED", "REFUNDED"}
  /\ amount >= 1
  /\ Amount(Live) + amount <= NetSale
  /\ Amount(Live \cap Of(c)) + amount <= claim[c].requested
  /\ refund' = [refund EXCEPT ![r] =
       [status |-> RefundRequested(c, amount, by), claim |-> c, amount |-> amount]]
  /\ UNCHANGED <<state, delivered, claim, submitting, calling, refundCalls, returned,
                 settlement, book>>

\* Slip: a refund found SENDING is sent again.
ExecuteRefundAgain(r) ==
  /\ refund[r].status \in {"PENDING", "SENDING"}
  /\ refund' = [refund EXCEPT ![r].status = "SENDING"]
  /\ calling' = calling \cup {r}
  /\ refundCalls' = [refundCalls EXCEPT ![r] = @ + 1]
  /\ UNCHANGED <<state, delivered, claim, submitting, returned, settlement, book>>

\* execute_refund, first transaction: it goes out once; an execution that finds it
\* SENDING (a crash, or another worker after the lease) makes it UNKNOWN.
ExecuteRefund(r) ==
  /\ \/ /\ refund[r].status = "PENDING"
        /\ refund' = [refund EXCEPT ![r].status = "SENDING"]
        /\ calling' = calling \cup {r}
        /\ refundCalls' = [refundCalls EXCEPT ![r] = @ + 1]
     \/ /\ refund[r].status = "SENDING"
        /\ refund' = [refund EXCEPT ![r].status = "UNKNOWN"]
        /\ UNCHANGED <<calling, refundCalls>>
  /\ UNCHANGED <<state, delivered, claim, submitting, returned, settlement, book>>

\* The marketplace gives the customer the money back.
MarketplaceRefunds(r) ==
  /\ r \in calling \ returned
  /\ returned' = returned \cup {r}
  /\ UNCHANGED <<state, delivered, claim, refund, submitting, calling, refundCalls,
                 settlement, book>>

\* The call ends without an answer, before or after its effect.
RefundUncertain(r) ==
  /\ r \in calling
  /\ refund' = [refund EXCEPT ![r].status = "UNKNOWN"]
  /\ calling' = calling \ {r}
  /\ UNCHANGED <<state, delivered, claim, submitting, refundCalls, returned, settlement, book>>

\* The worker dies while the call is out.
RefundCrash(r) ==
  /\ r \in calling
  /\ calling' = calling \ {r}
  /\ UNCHANGED <<state, delivered, claim, refund, submitting, refundCalls, returned,
                 settlement, book>>

\* A booked refund: receivable, refund and claim, in one transaction.
BookRefund(r) ==
  LET c == refund[r].claim
      total == claim[c].refunded + refund[r].amount
  IN /\ book' = [book EXCEPT !.receivable = @ - refund[r].amount]
     /\ refund' = [refund EXCEPT ![r].status = "SUCCEEDED"]
     /\ claim' = [claim EXCEPT ![c].refunded = total,
          ![c].status = IF total = claim[c].requested THEN "REFUNDED" ELSE "PARTIALLY_REFUNDED"]

\* execute_refund, second transaction, after the marketplace's answer.
RecordRefund(r) ==
  /\ r \in calling \cap returned
  /\ calling' = calling \ {r}
  /\ IF refund[r].status = "SUCCEEDED" THEN UNCHANGED <<book, refund, claim>> ELSE BookRefund(r)
  /\ UNCHANGED <<state, delivered, submitting, refundCalls, returned, settlement>>

\* operations.confirm_refund: evidence of a refund that was made outside.
ConfirmRefund(r) ==
  LET c == refund[r].claim IN
  /\ refund[r].status = "EVIDENCE_PENDING"
  /\ claim[c].status \in {"REFUND_ELIGIBLE", "MANUAL_REVIEW", "PARTIALLY_REFUNDED"}
  /\ state = "DELIVERED" /\ ~Settled
  /\ Amount(Live) <= NetSale /\ Amount(Live \cap Of(c)) <= claim[c].requested
  /\ claim[c].refunded + refund[r].amount <= claim[c].requested
  /\ Amount(Succeeded) + refund[r].amount <= NetSale - Fees
  /\ BookRefund(r)
  /\ returned' = returned \cup {r}
  /\ UNCHANGED <<state, delivered, submitting, calling, refundCalls, settlement>>

-----------------------------------------------------------------------------
(* Settlement *)

\* Slip: uncertain refunds are taken for refunds that never happened.
ReconcileSettlementEarly(actual, adjustment, operational) ==
  /\ ~Settled /\ state = "DELIVERED"
  /\ RefundsAreDoneOrUnknown /\ Expected(adjustment) >= 0
  /\ settlement' = [NoSettlement EXCEPT !.status = "STATEMENT", !.actual = actual,
                      !.adjustment = adjustment, !.expected = Expected(adjustment)]
  /\ book' = [book EXCEPT !.receivable = @ + adjustment - Expected(adjustment),
                          !.clearing = @ + actual,
                          !.variance = @ - adjustment + Expected(adjustment) - actual]
  /\ state' = "SETTLEMENT_PENDING"
  /\ UNCHANGED <<delivered, claim, refund, submitting, calling, refundCalls, returned>>

\* reconcile_settlement; operations.py also asks for closed and recovered claims.
ReconcileSettlement(actual, adjustment, operational) ==
  /\ ~Settled /\ state = "DELIVERED"
  /\ RefundsAreDone /\ Expected(adjustment) >= 0
  /\ operational => ClaimsAreDone /\ \A c \in Claims : claim[c].recovery >= claim[c].accepted
  /\ settlement' = [NoSettlement EXCEPT !.status = "STATEMENT", !.actual = actual,
                      !.adjustment = adjustment, !.expected = Expected(adjustment)]
  /\ book' = [book EXCEPT !.receivable = @ + adjustment - Expected(adjustment),
                          !.clearing = @ + actual,
                          !.variance = @ - adjustment + Expected(adjustment) - actual]
  /\ state' = "SETTLEMENT_PENDING"
  /\ UNCHANGED <<delivered, claim, refund, submitting, calling, refundCalls, returned>>

\* Slip: the old adjustment is not reversed.
CorrectSettlementOnce(actual, adjustment) ==
  /\ settlement.status = "STATEMENT" /\ state = "SETTLEMENT_PENDING"
  /\ settlement.revision < MaxCorrections
  /\ RefundsAreDone /\ Expected(adjustment) >= 0
  /\ settlement' = [settlement EXCEPT !.actual = actual, !.adjustment = adjustment,
                      !.expected = Expected(adjustment), !.revision = @ + 1]
  /\ book' = [book EXCEPT
       !.receivable = @ + settlement.expected + adjustment - Expected(adjustment),
       !.clearing = @ - settlement.actual + actual]
  /\ UNCHANGED <<state, delivered, claim, refund, submitting, calling, refundCalls, returned>>

\* correct_settlement: inverse postings, then those of the new statement.
CorrectSettlement(actual, adjustment) ==
  LET expected == Expected(adjustment) IN
  /\ settlement.status = "STATEMENT" /\ state = "SETTLEMENT_PENDING"
  /\ settlement.revision < MaxCorrections
  /\ RefundsAreDone /\ expected >= 0
  /\ settlement' = [settlement EXCEPT !.actual = actual, !.adjustment = adjustment,
                      !.expected = expected, !.revision = @ + 1]
  /\ book' = [book EXCEPT
       !.receivable = @ + settlement.expected - settlement.adjustment + adjustment - expected,
       !.clearing = @ - settlement.actual + actual,
       !.variance = @ + settlement.actual - settlement.expected + settlement.adjustment
                      - adjustment + expected - actual]
  /\ UNCHANGED <<state, delivered, claim, refund, submitting, calling, refundCalls, returned>>

\* confirm_settlement_cash: the bank has the money.
ConfirmCash ==
  /\ settlement.status = "STATEMENT"
  /\ settlement' = [settlement EXCEPT !.status = "CASH"]
  /\ book' = [book EXCEPT !.bank = @ + settlement.actual, !.clearing = @ - settlement.actual]
  /\ state' = IF settlement.actual = settlement.expected /\ ClaimsAreDone
              THEN "CLOSED" ELSE "SETTLED"
  /\ UNCHANGED <<delivered, claim, refund, submitting, calling, refundCalls, returned>>

-----------------------------------------------------------------------------
Next ==
  \/ Delivered \/ Cancel \/ ConfirmCash
  \/ \E c \in Claims :
       \/ \E amount \in 1 .. NetSale, status \in {"READY", "EVIDENCE_REQUIRED", "MANUAL_REVIEW"},
             operational \in BOOLEAN : OpenClaim(c, amount, status, operational)
       \/ SubmitClaim(c) \/ ClaimSubmitted(c)
       \/ \E amount \in 0 .. Paid, operational \in BOOLEAN, response \in {"ACCEPTED", "REJECTED"} :
            SupplierResponse(c, response, amount, operational)
       \/ \E amount \in 1 .. Paid : ConfirmRecovery(c, amount)
  \/ \E r \in Refunds :
       \/ \E c \in Claims, amount \in 1 .. NetSale, by \in {"operations", "admin", "nobody"} :
            RequestRefund(r, c, amount, by)
       \/ ExecuteRefund(r) \/ MarketplaceRefunds(r) \/ RefundUncertain(r) \/ RefundCrash(r)
       \/ RecordRefund(r) \/ ConfirmRefund(r)
  \/ \E actual \in Statements, adjustment \in Adjustments :
       \/ \E operational \in BOOLEAN : ReconcileSettlement(actual, adjustment, operational)
       \/ CorrectSettlement(actual, adjustment)

Spec == Init /\ [][Next]_vars

-----------------------------------------------------------------------------
(* Safety *)

\* The customer never gets back more than the sale, nor for a claim more than it asked
\* for, although refunds are sent, time out and are confirmed by evidence; and suppliers
\* never give back more than they were paid for the order.
WithinLimits ==
  /\ Amount(Live) <= NetSale
  /\ \A c \in Claims : Amount(Live \cap Of(c)) <= claim[c].requested
  /\ Recovered <= Paid /\ book.deposit = Recovered

\* The marketplace is asked for a refund at most once, and only for one that shows it.
OneRefundCall ==
  \A r \in Refunds :
    /\ refundCalls[r] <= 1
    /\ refundCalls[r] = 1 => refund[r].status \in {"SENDING", "UNKNOWN", "SUCCEEDED"}

\* The statement knows every refund the customer has got: none is in flight, and
\* none happens after it.
SettlementKnowsRefunds == Settled => calling = {} /\ returned = Succeeded

\* The books close: before the statement the receivable is the sale less the booked
\* refunds, after it nothing; clearing holds the statement's cash until the bank has it.
BooksClose ==
  IF Settled
  THEN /\ book.receivable = 0
       /\ book.variance = settlement.expected - settlement.actual - settlement.adjustment
       /\ <<book.clearing, book.bank>> = IF settlement.status = "CASH"
            THEN <<0, settlement.actual>> ELSE <<settlement.actual, 0>>
  ELSE book.receivable = IF delivered THEN NetSale - Fees - Amount(Succeeded) ELSE 0

\* A claim tells what its customer got back.
ClaimTellsRefunds ==
  \A c \in Claims :
    /\ claim[c].refunded = Amount(Succeeded \cap Of(c))
    /\ claim[c].status = "REFUNDED" <=> claim[c].refunded # 0 /\ claim[c].refunded = claim[c].requested

\* A closed order has nothing left to do: cash as expected, every claim refunded.
ClosedIsComplete ==
  state = "CLOSED" =>
    /\ settlement.status = "CASH" /\ settlement.actual = settlement.expected
    /\ ClaimsAreDone /\ RefundsAreDone
=============================================================================
