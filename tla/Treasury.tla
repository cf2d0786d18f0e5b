------------------------------ MODULE Treasury ------------------------------
(***************************************************************************)
(* What the orders share: the bank account, the deposits at the suppliers, *)
(* the stock and the daily payment limit (application/finance.py), under   *)
(* every command that touches them. One supplier has one product here and  *)
(* an order takes one unit of it.                                          *)
(*                                                                         *)
(* Each action is one transaction under the treasury lock, so the sums are *)
(* always taken over a settled state; what is hard is that between two     *)
(* transactions of one order any other order, an import of a supplier file *)
(* or midnight may come. The protocol of one payment (workers, receipts,   *)
(* leases) is OrderDispatch's; here a call is only what it leaves in the   *)
(* rows, the late failure of a confirmed payment included.                 *)
(***************************************************************************)
EXTENDS Sums

CONSTANTS Orders, Suppliers,
          SupplierOf,     \* the supplier of an order
          Cost,           \* its cost_snapshot
          ByEvidence,     \* the orders whose payment a person makes and proves
          OpeningBank, OpeningDeposit,
          Reserves,       \* safety, refund and tax reserves together
          AutoLimit, DailyLimit,
          Figures,        \* bound: the stocks a supplier reports
          Transfers,      \* bound: the amounts of deposits and of incoming money
          MaxAssets       \* bound: the most that is in the bank and the deposits together

ASSUME TreasuryBounds ==
  /\ IsFiniteSet(Orders) /\ IsFiniteSet(Suppliers)
  /\ SupplierOf \in [Orders -> Suppliers] /\ Cost \in [Orders -> Nat] /\ ByEvidence \subseteq Orders
  /\ OpeningBank \in Nat /\ OpeningDeposit \in [Suppliers -> Nat] /\ Reserves \in Nat
  /\ AutoLimit \in Nat /\ DailyLimit \in Nat /\ Figures \subseteq Nat /\ Transfers \subseteq Nat
  /\ MaxAssets \in Nat

VARIABLES
  bank,        \* the balance of BANK
  deposit,     \* the balances of DEPOSIT:{supplier}
  held,        \* an order's reservation
  payment,     \* an order's payment
  cancelled,   \* the orders with cancel_requested
  gone,        \* the orders whose unit was shipped, or whose paid cancellation is complete
  recounted,   \* those of them whose state counts as committed stock again
  product      \* a supplier's product: its stock and the figure last imported

cashVars == <<bank, deposit>>
orderVars == <<held, payment, cancelled, gone, recounted>>
treasuryVars == <<cashVars, orderVars, product>>

\* current: the product still has the last_inventory_at it had when the unit was taken.
Reservation == [status : {"NONE", "HELD", "SPENT", "RELEASED"}, bank : Nat, deposit : Nat,
                current : BOOLEAN]
\* The rest of a row matters only while it is HELD.
Row(status) == [status |-> status, bank |-> 0, deposit |-> 0, current |-> FALSE]
Waiting == {"PENDING", "EVIDENCE_PENDING", "MANUAL_APPROVAL"}
Exposed == {"SENDING", "UNKNOWN", "SUCCEEDED"}
\* dispatched: when dispatched_at falls, seen from today.
Payment == [status : {"NONE", "CANCELLED"} \cup Waiting \cup Exposed,
            approved : BOOLEAN, proof : BOOLEAN, dispatched : {"never", "today", "earlier"}]

TreasuryTypeOK ==
  /\ bank \in Nat /\ deposit \in [Suppliers -> Nat]
  /\ held \in [Orders -> Reservation] /\ payment \in [Orders -> Payment]
  /\ cancelled \subseteq Orders /\ gone \subseteq Orders
  /\ recounted \subseteq gone
  /\ product \in [Suppliers -> [stock : Nat, figure : Nat]]

TreasuryInit ==
  /\ bank = OpeningBank /\ deposit = OpeningDeposit
  /\ held = [o \in Orders |-> Row("NONE")]
  /\ payment = [o \in Orders |-> [status |-> "NONE", approved |-> FALSE, proof |-> FALSE, dispatched |-> "never"]]
  /\ cancelled = {} /\ gone = {} /\ recounted = {}
  /\ product \in [Suppliers -> {[stock |-> f, figure |-> f] : f \in Figures}]

-----------------------------------------------------------------------------
(* The sums of finance.py *)

HeldOrders == {o \in Orders : held[o].status = "HELD"}
Of(s) == {o \in Orders : SupplierOf[o] = s}

BankHeld == Total([o \in Orders |-> held[o].bank], HeldOrders)
DepositHeld(s) == Total([o \in Orders |-> held[o].deposit], HeldOrders \cap Of(s))

Assets == bank + Total(deposit, Suppliers)

\* treasury()
FreeBank == bank - BankHeld - Reserves
FreeDeposit(s) == IF deposit[s] > DepositHeld(s) THEN deposit[s] - DepositHeld(s) ELSE 0
AvailableCash(s) == IF FreeBank >= 0 THEN FreeBank + FreeDeposit(s) ELSE 0

\* daily_commitments(): what waits or is uncertain counts on any day.
Committed(p) ==
  \/ p.status \in {"PENDING", "EVIDENCE_PENDING", "SENDING", "UNKNOWN"}
  \/ p.status = "SUCCEEDED" /\ p.dispatched = "today"
DailyCommitments(os) == Total(Cost, {o \in os : Committed(payment[o])})

\* The test of every command that commits a payment, the payment itself left out.
WithinDailyLimit(o) == DailyCommitments(Orders \ {o}) + Cost[o] <= DailyLimit

\* The orders whose unit the supplier still has, and those that apply_price takes off a new
\* figure: a cancellation that comes after the shipment makes an order count once more.
Allocated(s) == {o \in Of(s) \ gone : held[o].status \in {"HELD", "SPENT"}}
Counted(s) == Allocated(s) \cup (Of(s) \cap recounted)

\* money_exposed: paid, perhaps paid, or paid by hand as somebody has recorded.
MoneyExposed(o) == payment[o].status \in Exposed \/ payment[o].proof

-----------------------------------------------------------------------------
(* Reservations *)

\* Slip: every order may spend the free cash of the others.
ReserveFromBalance(o) ==
  LET s == SupplierOf[o]
      fromDeposit == IF Cost[o] < FreeDeposit(s) THEN Cost[o] ELSE FreeDeposit(s) IN
  /\ held[o].status = "NONE" /\ o \notin cancelled
  /\ Cost[o] <= bank - Reserves + FreeDeposit(s) /\ product[s].stock > 0
  /\ held' = [held EXCEPT ![o] = [status |-> "HELD", bank |-> Cost[o] - fromDeposit,
                                  deposit |-> fromDeposit, current |-> TRUE]]
  /\ product' = [product EXCEPT ![s].stock = @ - 1]
  /\ UNCHANGED <<cashVars, payment, cancelled, gone, recounted>>

\* reserve(): the supplier's deposit is used up before the bank.
Reserve(o) ==
  LET s == SupplierOf[o]
      fromDeposit == IF Cost[o] < FreeDeposit(s) THEN Cost[o] ELSE FreeDeposit(s) IN
  /\ held[o].status = "NONE" /\ o \notin cancelled
  /\ Cost[o] <= AvailableCash(s) /\ product[s].stock > 0
  /\ held' = [held EXCEPT ![o] = [status |-> "HELD", bank |-> Cost[o] - fromDeposit,
                                  deposit |-> fromDeposit, current |-> TRUE]]
  /\ product' = [product EXCEPT ![s].stock = @ - 1]
  /\ UNCHANGED <<cashVars, payment, cancelled, gone, recounted>>

\* Slip: the unit goes back into whatever stock there is.
ReleaseIntoAnyStock(o, restore) ==
  LET s == SupplierOf[o] IN
  /\ held[o].status = "HELD" /\ ~MoneyExposed(o)
  /\ o \in cancelled \/ (~restore /\ payment[o].status = "NONE")
  /\ held' = [held EXCEPT ![o] = Row("RELEASED")]
  /\ payment' = IF payment[o].status = "NONE" THEN payment
                ELSE [payment EXCEPT ![o].status = "CANCELLED"]
  /\ product' = IF restore THEN [product EXCEPT ![s].stock = @ + 1] ELSE product
  /\ UNCHANGED <<cashVars, cancelled, gone, recounted>>

\* release(), with the cancellation of an order that is not yet paid: at once or after the
\* supplier's word; a line a supplier had or has rejected keeps its unit (restore FALSE).
Release(o, restore) ==
  LET s == SupplierOf[o] IN
  /\ held[o].status = "HELD" /\ ~MoneyExposed(o)
  /\ o \in cancelled \/ (~restore /\ payment[o].status = "NONE")
  /\ held' = [held EXCEPT ![o] = Row("RELEASED")]
  /\ payment' = IF payment[o].status = "NONE" THEN payment
                ELSE [payment EXCEPT ![o].status = "CANCELLED"]
  /\ product' = IF restore /\ held[o].current THEN [product EXCEPT ![s].stock = @ + 1] ELSE product
  /\ UNCHANGED <<cashVars, cancelled, gone, recounted>>

\* cancel() and request_cancellation: a payment that may not have been made is cancelled.
\* A shipped order may be cancelled too, and unless it is being settled its state changes.
Cancel(o) ==
  /\ o \notin cancelled
  /\ cancelled' = cancelled \cup {o}
  /\ payment' = IF payment[o].status \in Waiting /\ ~MoneyExposed(o)
                THEN [payment EXCEPT ![o].status = "CANCELLED"] ELSE payment
  /\ recounted' \in {recounted, recounted \cup ({o} \cap gone)}
  /\ UNCHANGED <<cashVars, held, gone, product>>

-----------------------------------------------------------------------------
(* Payments *)

Ready(o) == IF o \in ByEvidence THEN "EVIDENCE_PENDING" ELSE "PENDING"

\* prepare_payment
Prepare(o) ==
  /\ held[o].status = "HELD" /\ o \notin cancelled /\ payment[o].status = "NONE"
  /\ payment' = [payment EXCEPT ![o].status =
       IF Cost[o] > AutoLimit \/ ~WithinDailyLimit(o) THEN "MANUAL_APPROVAL" ELSE Ready(o)]
  /\ UNCHANGED <<cashVars, held, cancelled, gone, recounted, product>>

\* Slip: the limit is not asked again.
ApproveAnyDay(o) ==
  /\ payment[o].status = "MANUAL_APPROVAL" /\ o \notin cancelled
  /\ payment' = [payment EXCEPT ![o].status = Ready(o), ![o].approved = TRUE]
  /\ UNCHANGED <<cashVars, held, cancelled, gone, recounted, product>>

\* approve_payment
Approve(o) ==
  /\ payment[o].status = "MANUAL_APPROVAL" /\ o \notin cancelled /\ WithinDailyLimit(o)
  /\ payment' = [payment EXCEPT ![o].status = Ready(o), ![o].approved = TRUE]
  /\ UNCHANGED <<cashVars, held, cancelled, gone, recounted, product>>

\* execute_payment before the call. A failed check of anything else sends the payment to a
\* person, like the limit.
Dispatch(o) ==
  /\ payment[o].status = "PENDING" /\ o \notin cancelled
  /\ \/ /\ WithinDailyLimit(o)
        /\ payment' = [payment EXCEPT ![o].status = "SENDING", ![o].dispatched = "today"]
     \/ payment' = [payment EXCEPT ![o].status = "MANUAL_APPROVAL"]
  /\ UNCHANGED <<cashVars, held, cancelled, gone, recounted, product>>

\* The call fails, or its job runs again and finds it out. The handler looks neither at
\* the status nor at the day, so a confirmed payment becomes uncertain again.
Uncertain(o) ==
  /\ payment[o].status \in Exposed /\ o \notin ByEvidence
  /\ payment' = [payment EXCEPT ![o].status = "UNKNOWN"]
  /\ UNCHANGED <<cashVars, held, cancelled, gone, recounted, product>>

\* settle_payment
Settle(o) ==
  LET s == SupplierOf[o] IN
  /\ held[o].status = "HELD" /\ bank >= held[o].bank /\ deposit[s] >= held[o].deposit
  /\ bank' = bank - held[o].bank
  /\ deposit' = [deposit EXCEPT ![s] = @ - held[o].deposit]
  /\ held' = [held EXCEPT ![o] = Row("SPENT")]

\* finalize_payment, after the call or after reconcile_payment found the receipt.
Finalize(o) ==
  /\ payment[o].status \in {"SENDING", "UNKNOWN"} /\ Settle(o)
  /\ payment' = [payment EXCEPT ![o].status = "SUCCEEDED"]
  /\ UNCHANGED <<cancelled, gone, recounted, product>>

\* record_evidence: somebody has paid by hand.
RecordEvidence(o) ==
  /\ o \in ByEvidence \ cancelled /\ held[o].status = "HELD"
  /\ payment[o].status \in {"EVIDENCE_PENDING", "MANUAL_APPROVAL"}
  /\ payment' = [payment EXCEPT ![o].proof = TRUE]
  /\ UNCHANGED <<cashVars, held, cancelled, gone, recounted, product>>

\* confirm_evidence: the money has left by hand; it counts on the day of its confirmation.
ConfirmEvidence(o) ==
  /\ payment[o].status = "EVIDENCE_PENDING" /\ payment[o].proof /\ o \notin cancelled
  /\ Cost[o] > AutoLimit => payment[o].approved
  /\ WithinDailyLimit(o) /\ Settle(o)
  /\ payment' = [payment EXCEPT ![o].status = "SUCCEEDED", ![o].dispatched = "today"]
  /\ UNCHANGED <<cancelled, gone, recounted, product>>

-----------------------------------------------------------------------------
(* Everything around them *)

\* operations.funds, of a supplier's deposit.
Fund(s, amount) ==
  /\ FreeBank >= amount
  /\ bank' = bank - amount /\ deposit' = [deposit EXCEPT ![s] = @ + amount]
  /\ UNCHANGED <<orderVars, product>>

\* confirm_settlement_cash: the marketplace has paid into the bank.
Receive(amount) ==
  /\ Assets + amount <= MaxAssets
  /\ bank' = bank + amount
  /\ UNCHANGED <<deposit, orderVars, product>>

\* The supplier gives back what it was paid for an order: to its deposit, after a claim
\* (confirm_supplier_recovery), or as it was paid (confirm_recovery). What was given back
\* before is not kept here.
Recover(s, toBank, toDeposit) ==
  /\ \E o \in Of(s) : payment[o].status = "SUCCEEDED" /\ toBank + toDeposit <= Cost[o]
  /\ Assets + toBank + toDeposit <= MaxAssets
  /\ bank' = bank + toBank
  /\ deposit' = [deposit EXCEPT ![s] = @ + toDeposit]
  /\ UNCHANGED <<orderVars, product>>

\* apply_price: what is allocated and not yet shipped is taken off the supplier's figure.
Import(s, figure) ==
  LET allocated == Cardinality(Counted(s)) IN
  /\ product' = [product EXCEPT ![s] =
       [stock |-> IF figure > allocated THEN figure - allocated ELSE 0, figure |-> figure]]
  /\ held' = [o \in Orders |-> IF SupplierOf[o] = s THEN [held[o] EXCEPT !.current = FALSE] ELSE held[o]]
  /\ UNCHANGED <<cashVars, payment, cancelled, gone, recounted>>

\* add_shipment, or the completed cancellation of a paid order (OrderDispatch, PaidCancellation).
Leave(o) ==
  /\ held[o].status = "SPENT" /\ o \notin gone
  /\ gone' = gone \cup {o}
  /\ UNCHANGED <<cashVars, held, payment, cancelled, recounted, product>>

NewDay ==
  /\ \E o \in Orders : payment[o].dispatched = "today"
  /\ payment' = [o \in Orders |-> IF payment[o].dispatched = "today"
                                  THEN [payment[o] EXCEPT !.dispatched = "earlier"] ELSE payment[o]]
  /\ UNCHANGED <<cashVars, held, cancelled, gone, recounted, product>>

-----------------------------------------------------------------------------
Pay(o) ==
  Prepare(o) \/ Approve(o) \/ Dispatch(o) \/ Uncertain(o) \/ Finalize(o)
    \/ RecordEvidence(o) \/ ConfirmEvidence(o)

\* What happens to an order once it holds a reservation, and to the money.
TreasuryStep ==
  \/ \E o \in Orders : Pay(o) \/ Leave(o) \/ \E restore \in BOOLEAN : Release(o, restore)
  \/ \E s \in Suppliers, amount \in Transfers : Fund(s, amount)
  \/ \E amount \in Transfers : Receive(amount)
  \/ \E s \in Suppliers, toBank, toDeposit \in Transfers \cup {0} : Recover(s, toBank, toDeposit)
  \/ NewDay

TreasuryNext ==
  \/ TreasuryStep
  \/ \E o \in Orders : Reserve(o) \/ Cancel(o)
  \/ \E s \in Suppliers, figure \in Figures : Import(s, figure)

TreasurySpec == TreasuryInit /\ [][TreasuryNext]_treasuryVars

-----------------------------------------------------------------------------
(* Safety *)

\* What open orders hold is there: a settlement can never overdraw, whichever order comes
\* first; and the reserves are not touched by what the orders hold.
CommitmentsAreFunded ==
  /\ BankHeld = 0 \/ FreeBank >= 0
  /\ \A s \in Suppliers : deposit[s] >= DepositHeld(s)

\* Approved on one day and paid on another, uncertain over midnight, by hand or by the
\* provider: what is dispatched on a day, with everything that may still be dispatched on
\* it, is within the limit. A payment of an earlier day that a late failure makes uncertain
\* although its money is spent is the one thing that may come on top.
DailyLimitHolds ==
  DailyCommitments({o \in Orders :
    ~(payment[o].dispatched = "earlier" /\ held[o].status = "SPENT")}) <= DailyLimit

\* No unit is promised twice: stock for sale and the allocations the supplier still has to
\* ship fit in what it reported last, in any order of imports, releases and shipments.
StockIsNotCountedTwice ==
  \A s \in Suppliers :
    product[s].stock > 0 => product[s].stock + Cardinality(Allocated(s)) <= product[s].figure
=============================================================================
