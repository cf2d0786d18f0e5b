--------------------------- MODULE OrderDispatch ---------------------------
(***************************************************************************)
(* One API-mode order from RECEIVED to a paid supplier order:              *)
(* packages/application/commerce.py run by the workers of                  *)
(* apps/worker/main.py, beside an operator who may cancel, administrators  *)
(* who approve and reconcile, a marketplace customer who may cancel and a  *)
(* supplier and a payment provider that may time out.                      *)
(*                                                                         *)
(* Every database transaction of the code takes the CONTROL row            *)
(* (lock_treasury) first, so each is one atomic action; a handler is the   *)
(* sequence of its transactions and network calls, and everything may      *)
(* happen between two of them. Other orders are seen only through the      *)
(* outcomes of the checks they influence (cash, stock, daily limit), which *)
(* are left open.                                                          *)
(***************************************************************************)
EXTENDS OrderStates, JobTable, FiniteSets

CONSTANTS Workers,       \* worker processes
          Admins,        \* administrators' reconcile requests in flight
          MaxAttempts,   \* settings.max_job_attempts
          MaxFaults      \* bound: crashes and failed external calls in a behaviour

ASSUME MaxAttemptsAssumption == MaxAttempts \in Nat \ {0}
ASSUME MaxFaultsAssumption == MaxFaults \in Nat

VARIABLES
  state, cancelRequested,   \* orders.state, orders.cancel_requested
  supplierOrder,            \* supplier_orders.status, NONE when there is no row
  reservation,              \* reservations.status, NONE when there is no row
  payment,                  \* payments.status, NONE when there is no row
  approved,                 \* payments.approved_by is set
  posted,                   \* the journal supplier-payment:{payment} exists
  reviews,                  \* reviews not resolved: a category, a dead letter by its job's kind
  jobs,                     \* the queue rows of this order, by kind
  receipts,                 \* what the external systems have recorded
  paymentCalls,             \* pay_supplier requests sent so far
  marketCancelled,          \* the marketplace reports the order CANCELLED
  pc, task, lease,          \* each worker's position, job kind and lease token
  recon,                    \* each administrator's position in reconcile_payment
  faults                    \* crashes and failed external calls so far

orderVars == <<state, cancelRequested>>
moneyVars == <<reservation, payment, approved, posted>>
externalVars == <<receipts, paymentCalls, marketCancelled>>
workerVars == <<pc, task, lease>>
vars == <<orderVars, supplierOrder, moneyVars, reviews, jobs, externalVars,
          workerVars, recon, faults>>

JobKind == {"order.process", "supplier.submit", "supplier.cancel", "payment.execute"}
SupplierOrderStatus == {"NONE", "PENDING", "SENDING", "ACCEPTED", "CANCELLED"}
ReservationStatus == {"NONE", "HELD", "SPENT", "RELEASED"}
PaymentStatus == {"NONE", "PENDING", "MANUAL_APPROVAL", "SENDING", "UNKNOWN",
                  "SUCCEEDED", "CANCELLED"}
Receipt == {"create_orders", "cancel_order", "pay_supplier"}
ReviewCategory == {"ORDER_HELD", "PAYMENT_APPROVAL", "PAYMENT_RESULT_UNKNOWN",
                   "CANCELLATION_AFTER_PAYMENT", "CANCELLATION_AFTER_SUPPLIER_ORDER",
                   "PAYMENT_NOT_FOUND_REVERIFY_REQUIRED"} \cup JobKind
Outcome == {"ok", "retry", "fatal"}
Position == {"idle", "read", "fetch", "withdraw", "commit", "call", "refused",
             "record"} \cup Outcome

\* Slip: an uncertain payment is not counted as exposure.
ExposedButNotUnknown == {"SENDING", "SUCCEEDED"}

\* Money may have left the bank (commerce.cancel's set).
Exposed == {"SENDING", "UNKNOWN", "SUCCEEDED"}

TypeOK ==
  /\ state \in OrderState /\ cancelRequested \in BOOLEAN
  /\ supplierOrder \in SupplierOrderStatus
  /\ reservation \in ReservationStatus
  /\ payment \in PaymentStatus
  /\ approved \in BOOLEAN /\ posted \in BOOLEAN
  /\ reviews \subseteq ReviewCategory
  /\ jobs \in [JobKind -> JobRow]
  /\ receipts \subseteq Receipt
  /\ paymentCalls \in Nat
  /\ marketCancelled \in BOOLEAN
  /\ pc \in [Workers -> Position]
  /\ task \in [Workers -> JobKind \cup {"none"}]
  /\ lease \in [Workers -> Nat]
  /\ recon \in [Admins -> {"idle", "lookup", "confirm"}]
  /\ faults \in Nat

\* ingest() has committed: the order is RECEIVED and order.process is queued.
Init ==
  /\ state = "RECEIVED" /\ cancelRequested = FALSE
  /\ supplierOrder = "NONE" /\ reservation = "NONE" /\ payment = "NONE"
  /\ approved = FALSE /\ posted = FALSE
  /\ reviews = {}
  /\ jobs = [k \in JobKind |->
              IF k = "order.process" THEN Enqueued(NoJob) ELSE NoJob]
  /\ receipts = {} /\ paymentCalls = 0 /\ marketCancelled = FALSE
  /\ pc = [w \in Workers |-> "idle"]
  /\ task = [w \in Workers |-> "none"]
  /\ lease = [w \in Workers |-> 0]
  /\ recon = [a \in Admins |-> "idle"]
  /\ faults = 0

-----------------------------------------------------------------------------
(* Helpers *)

Enqueue(k) == jobs' = [jobs EXCEPT ![k] = Enqueued(@)]
Review(cs) == reviews' = reviews \cup cs
GoTo(w, position) == pc' = [pc EXCEPT ![w] = position] /\ UNCHANGED <<task, lease>>
\* An idle worker remembers nothing of its last job.
Rest(w) ==
  /\ pc' = [pc EXCEPT ![w] = "idle"]
  /\ task' = [task EXCEPT ![w] = "none"]
  /\ lease' = [lease EXCEPT ![w] = 0]
At(w, kind, position) == pc[w] = position /\ task[w] = kind

\* hold(): park the order for a human unless it is already parked or ending.
Hold ==
  /\ state' = IF state \in HoldExempt THEN state ELSE "MANUAL_REVIEW"
  /\ Review({"ORDER_HELD"})

Fault == faults < MaxFaults /\ faults' = faults + 1

Rollback == UNCHANGED <<orderVars, supplierOrder, moneyVars, reviews, jobs>>

\* release(): gives a HELD reservation back; nothing to do when there is none.
Released == IF reservation = "HELD" THEN "RELEASED" ELSE reservation

-----------------------------------------------------------------------------
(* The worker's claim, completion and crash (Worker.tick) *)

FirstPosition(k) ==
  CASE k = "order.process"   -> "read"
    [] k = "supplier.cancel" -> "call"
    [] OTHER                 -> "fetch"

Claim(w, k) ==
  /\ pc[w] = "idle"
  /\ Claimable(jobs[k]) /\ jobs[k].attempts < MaxAttempts
  /\ jobs' = [jobs EXCEPT ![k] = Claimed(@)]
  /\ pc' = [pc EXCEPT ![w] = FirstPosition(k)]
  /\ task' = [task EXCEPT ![w] = k]
  /\ lease' = [lease EXCEPT ![w] = jobs'[k].lease]
  /\ UNCHANGED <<orderVars, supplierOrder, moneyVars, reviews, externalVars, recon, faults>>

Bury(w, k) ==
  /\ pc[w] = "idle"
  /\ Claimable(jobs[k]) /\ jobs[k].attempts >= MaxAttempts
  /\ jobs' = [jobs EXCEPT ![k] = Exhausted(@)]
  /\ Review({k})
  /\ UNCHANGED <<orderVars, supplierOrder, moneyVars, externalVars, workerVars, recon, faults>>

\* Slip: the job dies without a word.
CompleteSilently(w) ==
  /\ pc[w] \in Outcome
  /\ jobs' = [jobs EXCEPT ![task[w]] = Completed(@, lease[w], pc[w], MaxAttempts)]
  /\ Rest(w)
  /\ UNCHANGED <<orderVars, supplierOrder, moneyVars, reviews, externalVars, recon, faults>>

Complete(w) ==
  /\ pc[w] \in Outcome
  /\ jobs' = [jobs EXCEPT ![task[w]] = Completed(@, lease[w], pc[w], MaxAttempts)]
  /\ IF jobs[task[w]].lease = lease[w] /\ jobs'[task[w]].status = "DEAD"
       THEN Review({task[w]})
       ELSE UNCHANGED reviews
  /\ Rest(w)
  /\ UNCHANGED <<orderVars, supplierOrder, moneyVars, externalVars, recon, faults>>

\* The process dies: its transactions so far stay, the rest never happens.
Crash(w) ==
  /\ pc[w] # "idle" /\ Fault
  /\ Rest(w)
  /\ UNCHANGED <<orderVars, supplierOrder, moneyVars, reviews, jobs, externalVars, recon>>

-----------------------------------------------------------------------------
(* cancel(): one transaction, for the operator and for a worker that has     *)
(* seen the marketplace's cancellation.                                      *)

CancelAgain ==
  /\ state = "CANCELLED" \/ cancelRequested
  /\ Rollback

\* Money may have moved: only a human can undo it.
CancelExposed ==
  /\ ~cancelRequested /\ state # "CANCELLED" /\ payment \in Exposed
  /\ cancelRequested' = TRUE
  /\ CanGo(state, "CANCEL_REQUESTED")
  /\ state' = "CANCEL_REQUESTED"
  /\ Review({"CANCELLATION_AFTER_PAYMENT"})
  /\ UNCHANGED <<supplierOrder, moneyVars, jobs>>

\* Slip: nobody is asked to cancel at the supplier.
CancelNotRelayed ==
  /\ ~cancelRequested /\ state # "CANCELLED" /\ payment \notin Exposed
  /\ supplierOrder \in {"SENDING", "ACCEPTED"}
  /\ CanGo(state, "CANCEL_REQUESTED")
  /\ cancelRequested' = TRUE /\ state' = "CANCEL_REQUESTED"
  /\ payment' = IF payment = "NONE" THEN "NONE" ELSE "CANCELLED"
  /\ Review({"CANCELLATION_AFTER_SUPPLIER_ORDER"})
  /\ UNCHANGED <<supplierOrder, reservation, approved, posted, jobs>>

\* Slip: the cash is given back before the supplier has confirmed.
CancelReleasesEarly ==
  /\ ~cancelRequested /\ state # "CANCELLED" /\ payment \notin Exposed
  /\ supplierOrder \in {"SENDING", "ACCEPTED"}
  /\ CanGo(state, "CANCEL_REQUESTED")
  /\ cancelRequested' = TRUE /\ state' = "CANCEL_REQUESTED"
  /\ payment' = IF payment = "NONE" THEN "NONE" ELSE "CANCELLED"
  /\ reservation' = Released
  /\ Enqueue("supplier.cancel")
  /\ Review({"CANCELLATION_AFTER_SUPPLIER_ORDER"})
  /\ UNCHANGED <<supplierOrder, approved, posted>>

\* The supplier may hold the order: its confirmation comes first.
CancelAtSupplier ==
  /\ ~cancelRequested /\ state # "CANCELLED" /\ payment \notin Exposed
  /\ supplierOrder \in {"SENDING", "ACCEPTED"}
  /\ CanGo(state, "CANCEL_REQUESTED")
  /\ cancelRequested' = TRUE
  /\ state' = "CANCEL_REQUESTED"
  /\ payment' = IF payment = "NONE" THEN "NONE" ELSE "CANCELLED"
  /\ Enqueue("supplier.cancel")
  /\ Review({"CANCELLATION_AFTER_SUPPLIER_ORDER"})
  /\ UNCHANGED <<supplierOrder, reservation, approved, posted>>

\* Nothing has left the house: cancel on the spot.
CancelLocally ==
  /\ ~cancelRequested /\ state # "CANCELLED" /\ payment \notin Exposed
  /\ supplierOrder \notin {"SENDING", "ACCEPTED"}
  /\ CanGo(state, "CANCEL_REQUESTED")
  /\ cancelRequested' = TRUE
  /\ state' = "CANCELLED"
  /\ payment' = IF payment = "NONE" THEN "NONE" ELSE "CANCELLED"
  /\ supplierOrder' = IF supplierOrder = "NONE" THEN "NONE" ELSE "CANCELLED"
  /\ reservation' = Released
  /\ UNCHANGED <<approved, posted, reviews, jobs>>

CancelEffect == CancelAgain \/ CancelExposed \/ CancelAtSupplier \/ CancelLocally

OperatorCancel ==
  /\ CancelEffect
  /\ UNCHANGED <<externalVars, workerVars, recon, faults>>

\* The customer cancels at the marketplace; nobody is told until get_order is asked.
CustomerCancels ==
  /\ marketCancelled' = TRUE
  /\ UNCHANGED <<orderVars, supplierOrder, moneyVars, reviews, jobs, receipts,
                 paymentCalls, workerVars, recon, faults>>

-----------------------------------------------------------------------------
(* order.process, supplier.submit and payment.execute start by asking the    *)
(* marketplace whether the order still stands.                               *)

ReadOrder(w) ==
  /\ pc[w] = "read"
  /\ GoTo(w, IF state = "RECEIVED" THEN "fetch" ELSE "ok")
  /\ UNCHANGED <<orderVars, supplierOrder, moneyVars, reviews, jobs, externalVars, recon, faults>>

\* get_order; a connector that is not available refuses for good.
FetchOrder(w) ==
  /\ pc[w] = "fetch"
  /\ \/ GoTo(w, IF marketCancelled THEN "withdraw" ELSE "commit") /\ UNCHANGED faults
     \/ GoTo(w, "fatal") /\ Fault
  /\ UNCHANGED <<orderVars, supplierOrder, moneyVars, reviews, jobs, externalVars, recon>>

Withdraw(w) ==
  /\ pc[w] = "withdraw"
  /\ CancelEffect
  /\ GoTo(w, "ok")
  /\ UNCHANGED <<externalVars, recon, faults>>

-----------------------------------------------------------------------------
(* order.process: validate, reserve cash and stock, open the supplier order  *)

NoBusinessEffects == supplierOrder = "NONE" /\ reservation = "NONE" /\ payment = "NONE"

ValidationPasses ==
  /\ state' = "SUPPLIER_ORDER_PENDING"
  /\ reservation' = "HELD"
  /\ supplierOrder' = "PENDING"
  /\ Enqueue("supplier.submit")
  /\ UNCHANGED <<cancelRequested, payment, approved, posted, reviews>>

ValidationHolds ==
  /\ Hold
  /\ UNCHANGED <<cancelRequested, supplierOrder, moneyVars, jobs>>

ValidateReceived(w) ==
  /\ At(w, "order.process", "commit")
  /\ \/ state # "RECEIVED" /\ Rollback /\ GoTo(w, "ok")
     \/ /\ state = "RECEIVED" /\ (cancelRequested \/ ~NoBusinessEffects)
        /\ Rollback /\ GoTo(w, "fatal")
     \/ /\ state = "RECEIVED" /\ ~cancelRequested /\ NoBusinessEffects
        /\ \/ Rollback /\ GoTo(w, "retry")           \* hold_until not reached
           \/ ValidationPasses /\ GoTo(w, "ok")
           \/ ValidationHolds /\ GoTo(w, "ok")
  /\ UNCHANGED <<externalVars, recon, faults>>

-----------------------------------------------------------------------------
(* supplier.submit: dispatch the order to the supplier, then prepare payment *)

SubmitSupplier(w) ==
  /\ At(w, "supplier.submit", "commit")
  /\ \/ /\ supplierOrder \in {"ACCEPTED", "CANCELLED"}
        /\ Rollback /\ GoTo(w, "ok")
     \/ /\ supplierOrder \notin {"ACCEPTED", "CANCELLED"} /\ cancelRequested
        /\ Enqueue("supplier.cancel") /\ GoTo(w, "ok")
        /\ UNCHANGED <<orderVars, supplierOrder, moneyVars, reviews>>
     \/ /\ supplierOrder \notin {"ACCEPTED", "CANCELLED"} /\ ~cancelRequested
        /\ \/ /\ Hold /\ GoTo(w, "ok")               \* a check failed
              /\ UNCHANGED <<cancelRequested, supplierOrder, moneyVars, jobs>>
           \/ /\ supplierOrder' = "SENDING" /\ GoTo(w, "call")
              /\ UNCHANGED <<orderVars, moneyVars, reviews, jobs>>
  /\ UNCHANGED <<externalVars, recon, faults>>

\* Slip: a timed-out call is taken for an answer.
CallSupplierTrusting(w, kind, operation) ==
  /\ At(w, kind, "call")
  /\ receipts' \in {receipts, receipts \cup {operation}}
  /\ GoTo(w, "record")
  /\ UNCHANGED <<orderVars, supplierOrder, moneyVars, reviews, jobs, paymentCalls,
                 marketCancelled, recon, faults>>

\* A supplier call: done and answered, never arrived, or done but not answered.
CallSupplier(w, kind, operation) ==
  /\ At(w, kind, "call")
  /\ \/ receipts' = receipts \cup {operation} /\ GoTo(w, "record") /\ UNCHANGED faults
     \/ UNCHANGED receipts /\ Fault /\ \E outcome \in {"retry", "fatal"} : GoTo(w, outcome)
     \/ receipts' = receipts \cup {operation} /\ Fault /\ GoTo(w, "fatal")
  /\ UNCHANGED <<orderVars, supplierOrder, moneyVars, reviews, jobs, paymentCalls,
                 marketCancelled, recon>>

\* prepare_payment, in the transaction that moves the order to SUPPLIER_ORDERED.
PreparePayment ==
  \/ /\ payment # "NONE"
     /\ state' = "SUPPLIER_ORDERED"
     /\ UNCHANGED <<payment, reviews, jobs>>
  \/ /\ payment = "NONE"                             \* destination not approved
     /\ state' = "MANUAL_REVIEW" /\ Review({"ORDER_HELD"})
     /\ UNCHANGED <<payment, jobs>>
  \/ /\ payment = "NONE"                             \* above a limit
     /\ state' = "SUPPLIER_ORDERED"
     /\ payment' = "MANUAL_APPROVAL" /\ Review({"PAYMENT_APPROVAL"})
     /\ UNCHANGED jobs
  \/ /\ payment = "NONE"
     /\ state' = "SUPPLIER_ORDERED"
     /\ payment' = "PENDING" /\ Enqueue("payment.execute")
     /\ UNCHANGED reviews

RecordSupplierOrder(w) ==
  /\ At(w, "supplier.submit", "record")
  /\ \/ /\ cancelRequested
        /\ supplierOrder' = "ACCEPTED" /\ Enqueue("supplier.cancel") /\ GoTo(w, "ok")
        /\ UNCHANGED <<orderVars, moneyVars, reviews>>
     \/ /\ ~cancelRequested /\ CanGo(state, "SUPPLIER_ORDERED")
        /\ supplierOrder' = "ACCEPTED" /\ PreparePayment /\ GoTo(w, "ok")
        /\ UNCHANGED <<cancelRequested, reservation, approved, posted>>
     \/ /\ ~cancelRequested /\ ~CanGo(state, "SUPPLIER_ORDERED")
        /\ Rollback /\ GoTo(w, "fatal")
  /\ UNCHANGED <<externalVars, recon, faults>>

-----------------------------------------------------------------------------
(* supplier.cancel *)

RecordSupplierCancel(w) ==
  /\ At(w, "supplier.cancel", "record")
  /\ \/ /\ payment \in Exposed
        /\ Review({"CANCELLATION_AFTER_PAYMENT"}) /\ GoTo(w, "ok")
        /\ UNCHANGED <<orderVars, supplierOrder, moneyVars, jobs>>
     \/ /\ payment \notin Exposed /\ reservation # "SPENT" /\ CanGo(state, "CANCELLED")
        /\ supplierOrder' = "CANCELLED" /\ reservation' = Released
        /\ state' = "CANCELLED" /\ GoTo(w, "ok")
        /\ UNCHANGED <<cancelRequested, payment, approved, posted, reviews, jobs>>
     \/ /\ payment \notin Exposed /\ (reservation = "SPENT" \/ ~CanGo(state, "CANCELLED"))
        /\ Rollback /\ GoTo(w, "fatal")
  /\ UNCHANGED <<externalVars, recon, faults>>

-----------------------------------------------------------------------------
(* payment.execute *)

\* Slip: a job that finds its payment SENDING sends it once more.
ExecutePaymentResends(w) ==
  /\ At(w, "payment.execute", "commit")
  /\ payment \in {"PENDING", "SENDING"} /\ ~cancelRequested
  /\ state = "SUPPLIER_ORDERED"
  /\ payment' = "SENDING" /\ GoTo(w, "call")
  /\ UNCHANGED <<orderVars, supplierOrder, reservation, approved, posted, reviews,
                 jobs, externalVars, recon, faults>>

\* Slip: status and flag are those read before the marketplace was asked.
ExecutePaymentStale(w) ==
  /\ At(w, "payment.execute", "commit")
  /\ payment' = "SENDING" /\ GoTo(w, "call")
  /\ UNCHANGED <<orderVars, supplierOrder, reservation, approved, posted, reviews,
                 jobs, externalVars, recon, faults>>

\* Slip: a payment that is out is left to whoever sent it.
ExecutePaymentLeavesSending(w) ==
  /\ At(w, "payment.execute", "commit")
  /\ \/ /\ payment # "PENDING"
        /\ Rollback /\ GoTo(w, "ok")
     \/ /\ payment = "PENDING" /\ ~cancelRequested /\ state = "SUPPLIER_ORDERED"
        /\ payment' = "SENDING" /\ GoTo(w, "call")
        /\ UNCHANGED <<orderVars, supplierOrder, reservation, approved, posted, reviews, jobs>>
  /\ UNCHANGED <<externalVars, recon, faults>>

ExecutePayment(w) ==
  /\ At(w, "payment.execute", "commit")
  /\ \/ /\ payment \notin {"PENDING", "SENDING"}
        /\ Rollback /\ GoTo(w, "ok")
     \/ /\ payment = "SENDING"                       \* someone else's request is out
        /\ payment' = "UNKNOWN" /\ Review({"PAYMENT_RESULT_UNKNOWN"}) /\ GoTo(w, "ok")
        /\ UNCHANGED <<orderVars, supplierOrder, reservation, approved, posted, jobs>>
     \/ /\ payment = "PENDING" /\ cancelRequested
        /\ payment' = "CANCELLED" /\ GoTo(w, "ok")
        /\ UNCHANGED <<orderVars, supplierOrder, reservation, approved, posted, reviews, jobs>>
     \/ /\ payment = "PENDING" /\ ~cancelRequested   \* a check failed
        /\ payment' = "MANUAL_APPROVAL" /\ Hold /\ GoTo(w, "ok")
        /\ UNCHANGED <<cancelRequested, supplierOrder, reservation, approved, posted, jobs>>
     \/ /\ payment = "PENDING" /\ ~cancelRequested /\ state = "SUPPLIER_ORDERED"
        /\ \/ /\ payment' = "MANUAL_APPROVAL"        \* daily limit
              /\ Review({"PAYMENT_APPROVAL"}) /\ GoTo(w, "ok")
           \/ payment' = "SENDING" /\ UNCHANGED reviews /\ GoTo(w, "call")
        /\ UNCHANGED <<orderVars, supplierOrder, reservation, approved, posted, jobs>>
  /\ UNCHANGED <<externalVars, recon, faults>>

\* pay_supplier: done and answered, never arrived, or done but not answered.
CallProvider(w) ==
  /\ At(w, "payment.execute", "call")
  /\ paymentCalls' = paymentCalls + 1
  /\ \/ receipts' = receipts \cup {"pay_supplier"} /\ GoTo(w, "record") /\ UNCHANGED faults
     \/ /\ receipts' \in {receipts, receipts \cup {"pay_supplier"}} 
        /\ Fault /\ GoTo(w, "refused")
  /\ UNCHANGED <<orderVars, supplierOrder, moneyVars, reviews, jobs, marketCancelled, recon>>

\* The IntegrationError handler: the status is set whatever it is by now.
RecordUnknown(w) ==
  /\ At(w, "payment.execute", "refused")
  /\ payment' = "UNKNOWN" /\ Review({"PAYMENT_RESULT_UNKNOWN"})
  /\ GoTo(w, "ok")
  /\ UNCHANGED <<orderVars, supplierOrder, reservation, approved, posted, jobs,
                 externalVars, recon, faults>>

\* finalize_payment with settle_payment: the ledger entry, the spent reservation
\* and the order's move to SHIPMENT_PENDING, in one transaction. Whether an account
\* would be overdrawn is one of the open checks: a refusal rolls everything back.
CanFinalize ==
  /\ payment \in {"SENDING", "UNKNOWN"}
  /\ reservation = "HELD"
  /\ cancelRequested \/ CanGo(state, "SUPPLIER_PAID")

FinalizeEffect ==
  /\ CanFinalize
  /\ payment' = "SUCCEEDED" /\ reservation' = "SPENT" /\ posted' = TRUE
  /\ IF cancelRequested
       THEN Review({"CANCELLATION_AFTER_PAYMENT"}) /\ UNCHANGED state
       ELSE state' = "SHIPMENT_PENDING" /\ UNCHANGED reviews
  /\ UNCHANGED <<cancelRequested, supplierOrder, approved, jobs>>

FinalizePayment(w) ==
  /\ At(w, "payment.execute", "record")
  /\ \/ FinalizeEffect /\ GoTo(w, "ok")
     \/ payment = "SUCCEEDED" /\ Rollback /\ GoTo(w, "ok")
     \/ payment # "SUCCEEDED" /\ Rollback /\ GoTo(w, "fatal")
  /\ UNCHANGED <<externalVars, recon, faults>>

-----------------------------------------------------------------------------
(* Administrators *)

\* approve_payment; the daily limit is one of the open checks. A validated
\* supplier, amount and destination snapshot is part of the request.
ApprovePayment ==
  /\ payment = "MANUAL_APPROVAL" /\ ~cancelRequested
  /\ payment' = "PENDING" /\ approved' = TRUE
  /\ reviews' = reviews \ {"PAYMENT_APPROVAL"}
  /\ Enqueue("payment.execute")
  /\ UNCHANGED <<orderVars, supplierOrder, reservation, posted, externalVars,
                 workerVars, recon, faults>>

\* reconcile_payment reads the status, asks the provider, then finalizes.
ReconcileStart(a) ==
  /\ recon[a] = "idle" /\ payment \in Exposed
  /\ recon' = [recon EXCEPT ![a] = "lookup"]
  /\ UNCHANGED <<orderVars, supplierOrder, moneyVars, reviews, jobs, externalVars, workerVars, faults>>

\* Slip: any answer of the provider is taken for a receipt.
ReconcileLookupTrusting(a) ==
  /\ recon[a] = "lookup"
  /\ recon' = [recon EXCEPT ![a] = "confirm"]
  /\ UNCHANGED <<orderVars, supplierOrder, moneyVars, reviews, jobs, externalVars,
                 workerVars, faults>>

\* get_transaction; NOT_FOUND only opens a review (its own transaction, merged
\* here because reviews are only ever added to by it).
ReconcileLookup(a) ==
  /\ recon[a] = "lookup"
  /\ \/ /\ "pay_supplier" \in receipts
        /\ recon' = [recon EXCEPT ![a] = "confirm"] /\ UNCHANGED reviews
     \/ /\ "pay_supplier" \notin receipts
        /\ recon' = [recon EXCEPT ![a] = "idle"]
        /\ Review({"PAYMENT_NOT_FOUND_REVERIFY_REQUIRED"})
  /\ UNCHANGED <<orderVars, supplierOrder, moneyVars, jobs, externalVars, workerVars, faults>>

ReconcileConfirm(a) ==
  /\ recon[a] = "confirm"
  /\ FinalizeEffect \/ Rollback
  /\ recon' = [recon EXCEPT ![a] = "idle"]
  /\ UNCHANGED <<externalVars, workerVars, faults>>

-----------------------------------------------------------------------------
WorkerStep(w) ==
  \/ ReadOrder(w) \/ FetchOrder(w) \/ Withdraw(w)
  \/ ValidateReceived(w)
  \/ SubmitSupplier(w) \/ CallSupplier(w, "supplier.submit", "create_orders")
  \/ RecordSupplierOrder(w)
  \/ CallSupplier(w, "supplier.cancel", "cancel_order") \/ RecordSupplierCancel(w)
  \/ ExecutePayment(w) \/ CallProvider(w) \/ RecordUnknown(w) \/ FinalizePayment(w)
  \/ Complete(w)

TakeJob(w) == \E k \in JobKind : Claim(w, k) \/ Bury(w, k)

HumanStep ==
  \/ OperatorCancel \/ CustomerCancels \/ ApprovePayment
  \/ \E a \in Admins : ReconcileStart(a) \/ ReconcileLookup(a) \/ ReconcileConfirm(a)

Next ==
  \/ \E w \in Workers : WorkerStep(w) \/ TakeJob(w) \/ Crash(w)
  \/ HumanStep

Spec == Init /\ [][Next]_vars

\* Workers keep polling (main's loop; a crashed process is started again, see
\* docker-compose) and an expired lease is eventually noticed. People are free.
FairSpec == Spec /\ \A w \in Workers : WF_vars(WorkerStep(w)) /\ WF_vars(TakeJob(w))

-----------------------------------------------------------------------------
(* Safety *)

\* However many workers run payment.execute, however often a lease expires and
\* whatever times out, the provider is asked to pay at most once ("never blindly
\* retry a money request", execute_payment).
AtMostOnePaymentRequest == paymentCalls <= 1

\* The statuses of a payment whose money may be, or is, on its way.
AtRisk == {"SENDING", "UNKNOWN", "SUCCEEDED"}

\* Money the provider has moved is always visible as exposure with its cash still
\* set aside or spent: no cancellation, hold or late job may forget it.
MovedMoneyIsVisible ==
  "pay_supplier" \in receipts => payment \in AtRisk /\ reservation \in {"HELD", "SPENT"}

\* The books never precede the money: a ledger entry exists exactly for a spent
\* reservation, only after a provider receipt, and no SUCCEEDED lacks one.
LedgerFollowsMoney ==
  /\ posted <=> reservation = "SPENT"
  /\ posted => "pay_supplier" \in receipts
  /\ payment = "SUCCEEDED" => posted

\* An order that ends CANCELLED owes nothing: cash returned, no payment alive, and
\* no money moved although workers may still be running its jobs.
CancelledOwesNothing ==
  state = "CANCELLED" =>
    /\ reservation \in {"NONE", "RELEASED"}
    /\ payment \in {"NONE", "CANCELLED"}
    /\ "pay_supplier" \notin receipts

\* The supplier has confirmed the order after confirming its cancellation: the late answer
\* of a create_orders request whose order was cancelled meanwhile. Its cash is gone, a
\* second supplier.cancel finds its job done, and only the review of the cancellation
\* still asks anybody to look.
LateAcceptance ==
  /\ supplierOrder = "ACCEPTED" /\ state = "CANCELLED"
  /\ "cancel_order" \in receipts /\ "CANCELLATION_AFTER_SUPPLIER_ORDER" \in reviews

\* Cash stays set aside as long as a payment could still need it, and as long as the
\* supplier may be working on the order, cancelled or not. The one order at a supplier
\* without cash is a late acceptance, after the supplier has confirmed the cancellation.
CommitmentIsReserved ==
  /\ payment \in {"PENDING", "MANUAL_APPROVAL", "SENDING", "UNKNOWN"}
       => reservation \in {"HELD", "SPENT"}
  /\ supplierOrder \in {"SENDING", "ACCEPTED"}
       => reservation \in {"HELD", "SPENT"} \/ LateAcceptance

\* Both together: a cancelled order holds no cash, and whichever of cancellation, supplier's
\* answer and payment comes last, no other order is without the cash it may cost. The
\* supplier's acceptance that arrives after its own cancellation is the exception, and
\* leaves a review.
ReservationFollowsOrder == CancelledOwesNothing /\ CommitmentIsReserved

\* The supplier is never paid for an order it was not sent.
PaidOnlyWhatWasOrdered ==
  "pay_supplier" \in receipts => "create_orders" \in receipts

\* A job will be taken again, or its dead letter is in front of a person.
Pursued(k) == jobs[k].status \in {"PENDING", "RUNNING"} \/ k \in reviews

\* Held orders, uncertain or unapproved payments, cancellations that wait for the supplier
\* or for money, and every job that has died are in front of a person.
HaltIsReported ==
  /\ state = "MANUAL_REVIEW" => "ORDER_HELD" \in reviews
  /\ payment = "UNKNOWN" => "PAYMENT_RESULT_UNKNOWN" \in reviews
  /\ payment = "MANUAL_APPROVAL" => reviews \cap {"PAYMENT_APPROVAL", "ORDER_HELD"} # {}
  /\ state = "CANCEL_REQUESTED" =>
       reviews \cap {"CANCELLATION_AFTER_PAYMENT", "CANCELLATION_AFTER_SUPPLIER_ORDER"} # {}
  /\ \A k \in JobKind : jobs[k].status = "DEAD" => k \in reviews

\* A payment approved when its job had done its work, or was about to: enqueue returns the
\* old row, and nothing takes the payment up again (PendingPaymentHasAJob below is violated
\* by it), nor what a worker with an expired lease has sent for it before it died.
ApprovedInVain == approved /\ jobs["payment.execute"].status = "DONE"

\* Between two stages the order is in a job or in front of a person: until it is validated,
\* until the supplier has answered, until a payment is there, and until that is sent and
\* answered. The one exception is ApprovedInVain.
StageIsPursued ==
  /\ state = "RECEIVED" => Pursued("order.process")
  /\ supplierOrder \in {"PENDING", "SENDING"} =>
       \/ Pursued("supplier.submit")
       \/ reviews \cap {"ORDER_HELD", "CANCELLATION_AFTER_SUPPLIER_ORDER"} # {}
  /\ supplierOrder = "ACCEPTED" /\ payment \in {"NONE", "CANCELLED"} =>
       reviews \cap {"ORDER_HELD", "CANCELLATION_AFTER_SUPPLIER_ORDER"} # {}
  /\ payment \in {"PENDING", "SENDING"} =>
       \/ Pursued("payment.execute") \/ "CANCELLATION_AFTER_PAYMENT" \in reviews
       \/ ApprovedInVain

\* Nothing stops without a review, over late answers, expired leases and crashes, but for
\* the payment that was approved in vain.
NothingWaitsSilently == HaltIsReported /\ StageIsPursued

-----------------------------------------------------------------------------
(* Action properties *)

\* A cancellation that is recorded before the money is sent keeps it from being
\* sent, although the payment job may already be running.
CancellationStopsUnsentMoney ==
  [][cancelRequested /\ payment \notin AtRisk => payment' \notin AtRisk]_vars

\* Exposure is never taken back: an uncertain payment does not become payable,
\* approvable or cancelled again, and its cash is not released.
ExposureIsIrrevocable ==
  [][(payment \in AtRisk) =>
       (payment' \in AtRisk) /\ reservation' # "RELEASED"]_vars

\* The books of this order go through the stages of MoneyMovement.
Stage ==
  IF reservation = "SPENT" THEN "settled"
  ELSE IF payment \in AtRisk THEN "outstanding"
  ELSE IF reservation = "HELD" THEN "committed"
  ELSE IF reservation = "RELEASED" THEN "void" ELSE "none"

Money == INSTANCE MoneyMovement WITH
           stage <- Stage, transferred <- "pay_supplier" \in receipts

MoneySpec == Money!Spec

-----------------------------------------------------------------------------
(* Liveness, under FairSpec *)

\* A cancellation without exposure reaches CANCELLED unless the job that asks the
\* supplier dies.
CancellationEnds ==
  cancelRequested /\ payment \notin AtRisk
    ~> state = "CANCELLED" \/ jobs["supplier.cancel"].status = "DEAD"

\* A request for money does not stay out for ever: it is recorded as paid or uncertain,
\* unless its job dies or finds the order cancelled at the marketplace, which leaves the
\* payment SENDING; then a review says that the cancellation met a payment.
SendingIsResolved ==
  payment = "SENDING"
    ~> \/ payment # "SENDING" \/ "CANCELLATION_AFTER_PAYMENT" \in reviews
       \/ jobs["payment.execute"].status = "DEAD"

-----------------------------------------------------------------------------
(* What the repository says and the code does not do *)

\* docs/payment-safety.md:21 "explicit transaction lookup may confirm an existing
\* receipt": an UNKNOWN payment whose receipt exists can be finalized.
UnknownCanBeConfirmed ==
  payment = "UNKNOWN" /\ "pay_supplier" \in receipts => CanFinalize

\* tests/test_workflows.py:160: after approve_payment the worker pays. A payment
\* waiting to be dispatched has a job that will (or a dead letter that says so).
PendingPaymentHasAJob ==
  payment = "PENDING" => jobs["payment.execute"].status \in {"PENDING", "RUNNING", "DEAD"}
=============================================================================
