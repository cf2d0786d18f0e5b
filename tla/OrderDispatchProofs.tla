------------------------- MODULE OrderDispatchProofs -------------------------
(***************************************************************************)
(* The safety of OrderDispatch for any number of workers, administrators,  *)
(* attempts and faults.                                                    *)
(***************************************************************************)
EXTENDS OrderDispatch, TLAPS

-----------------------------------------------------------------------------
(* Type correctness *)

\* Every state an action of OrderDispatch assigns is a state of the graph.
LEMMA AssignedStates ==
  {"RECEIVED", "SUPPLIER_ORDER_PENDING", "SUPPLIER_ORDERED", "SHIPMENT_PENDING",
   "MANUAL_REVIEW", "CANCEL_REQUESTED", "CANCELLED"} \subseteq OrderState
<1>1. /\ NormalFlow[1] = "RECEIVED" /\ NormalFlow[6] = "SUPPLIER_ORDER_PENDING"
      /\ NormalFlow[7] = "SUPPLIER_ORDERED" /\ NormalFlow[9] = "SHIPMENT_PENDING"
  BY DEF NormalFlow
<1>2. {"RECEIVED", "SUPPLIER_ORDER_PENDING", "SUPPLIER_ORDERED", "SHIPMENT_PENDING"}
        \subseteq {NormalFlow[i] : i \in 1 .. 14}
  BY <1>1
<1>3. {"MANUAL_REVIEW", "CANCEL_REQUESTED", "CANCELLED"} \subseteq ExceptionStates
  BY DEF ExceptionStates
<1>. QED
  BY <1>2, <1>3 DEF OrderState

\* What the queue operators return is a queue row.
LEMMA JobRows ==
  ASSUME NEW job \in JobRow
  PROVE  /\ Enqueued(job) \in JobRow
         /\ Claimed(job) \in JobRow
         /\ Exhausted(job) \in JobRow
BY DEF JobRow, JobStatus, Enqueued, Claimed, Exhausted

\* The completion of a claim leaves a queue row, whatever its outcome was.
LEMMA CompletedRow ==
  ASSUME NEW job \in JobRow, NEW token, NEW outcome
  PROVE  Completed(job, token, outcome, MaxAttempts) \in JobRow
BY DEF JobRow, JobStatus, Completed

\* An order that has just been ingested has its types.
LEMMA TypeInit == Init => TypeOK
<1>. SUFFICES ASSUME Init PROVE TypeOK
  OBVIOUS
<1>1. NoJob \in JobRow /\ Enqueued(NoJob) \in JobRow
  BY DEF NoJob, JobRow, JobStatus, Enqueued
<1>2. jobs \in [JobKind -> JobRow]
  BY <1>1 DEF Init
<1>3. state \in OrderState
  BY AssignedStates DEF Init
<1>4. /\ pc \in [Workers -> Position]
      /\ task \in [Workers -> JobKind \cup {"none"}]
      /\ lease \in [Workers -> Nat]
      /\ recon \in [Admins -> {"idle", "lookup", "confirm"}]
  BY DEF Init, Position
<1>. QED
  BY <1>2, <1>3, <1>4 DEF Init, TypeOK, SupplierOrderStatus, ReservationStatus, PaymentStatus

\* The actions that only move a worker keep the types of its three variables.
LEMMA WorkerTypes ==
  ASSUME TypeOK, NEW w \in Workers, NEW position \in Position,
         GoTo(w, position) \/ Rest(w)
  PROVE  /\ pc' \in [Workers -> Position]
         /\ task' \in [Workers -> JobKind \cup {"none"}]
         /\ lease' \in [Workers -> Nat]
BY DEF TypeOK, GoTo, Rest, Position

\* enqueue() leaves a table of queue rows.
LEMMA EnqueueTypes ==
  ASSUME TypeOK, NEW k \in JobKind, Enqueue(k)
  PROVE  jobs' \in [JobKind -> JobRow]
BY JobRows DEF TypeOK, Enqueue, JobRow, Enqueued, JobStatus

\* A worker that is not idle has a job.
Busy == \A w \in Workers : pc[w] # "idle" => task[w] \in JobKind

\* What a step may do to the workers: move one that has a job, give a job to one or send one
\* to rest.
LEMMA BusyNext == TypeOK /\ Busy /\ [Next]_vars => Busy'
<1>. SUFFICES ASSUME TypeOK, Busy, [Next]_vars PROVE Busy'
  OBVIOUS
<1>1. ASSUME NEW w \in Workers, NEW position, pc[w] # "idle", GoTo(w, position) PROVE Busy'
  BY <1>1 DEF TypeOK, Busy, GoTo
<1>2. ASSUME NEW w \in Workers, Rest(w) PROVE Busy'
  BY <1>2 DEF TypeOK, Busy, Rest
<1>3. ASSUME NEW w \in Workers, NEW k \in JobKind, Claim(w, k) PROVE Busy'
  BY <1>3 DEF TypeOK, Busy, Claim
<1>4. CASE UNCHANGED workerVars
  BY <1>4 DEF Busy, workerVars
<1>5. ASSUME NEW w \in Workers, WorkerStep(w) PROVE Busy'
  <2>1. CASE ReadOrder(w) \/ FetchOrder(w) \/ Withdraw(w) \/ ValidateReceived(w)
    BY <2>1, <1>1 DEF ReadOrder, FetchOrder, Withdraw, ValidateReceived, At
  <2>2. CASE \/ SubmitSupplier(w) \/ RecordSupplierOrder(w) \/ RecordSupplierCancel(w)
             \/ CallSupplier(w, "supplier.submit", "create_orders")
             \/ CallSupplier(w, "supplier.cancel", "cancel_order")
    BY <2>2, <1>1 DEF SubmitSupplier, RecordSupplierOrder, RecordSupplierCancel, CallSupplier, At
  <2>3. CASE ExecutePayment(w) \/ CallProvider(w) \/ RecordUnknown(w) \/ FinalizePayment(w)
    BY <2>3, <1>1 DEF ExecutePayment, CallProvider, RecordUnknown, FinalizePayment, At
  <2>4. CASE Complete(w)
    BY <2>4, <1>2 DEF Complete
  <2>. QED
    BY <1>5, <2>1, <2>2, <2>3, <2>4 DEF WorkerStep
<1>6. ASSUME NEW w \in Workers, TakeJob(w) \/ Crash(w) PROVE Busy'
  BY <1>6, <1>2, <1>3, <1>4 DEF TakeJob, Bury, Crash
<1>7. CASE HumanStep
  BY <1>7, <1>4 DEF HumanStep, OperatorCancel, CustomerCancels, ApprovePayment, ReconcileStart,
     ReconcileLookup, ReconcileConfirm
<1>. QED
  BY <1>4, <1>5, <1>6, <1>7 DEF Next, vars, workerVars

\* No step leaves the types.
LEMMA TypeNext == TypeOK /\ Busy /\ [Next]_vars => TypeOK'
<1>. SUFFICES ASSUME TypeOK, Busy, [Next]_vars PROVE TypeOK'
  OBVIOUS
<1>. USE AssignedStates, EnqueueTypes
<1>1. ASSUME NEW w \in Workers, NEW k \in JobKind, Claim(w, k) PROVE TypeOK'
  BY <1>1, JobRows DEF TypeOK, Claim, Claimed, JobRow, JobStatus, FirstPosition, Position,
              orderVars, moneyVars, externalVars
<1>2. ASSUME NEW w \in Workers, NEW k \in JobKind, Bury(w, k) PROVE TypeOK'
  <2>1. jobs' \in [JobKind -> JobRow]
    BY <1>2, JobRows DEF TypeOK, Bury
  <2>2. reviews' \subseteq ReviewCategory
    BY <1>2 DEF TypeOK, Bury, Review, ReviewCategory
  <2>. QED
    BY <1>2, <2>1, <2>2 DEF TypeOK, Bury, orderVars, moneyVars, externalVars, workerVars
<1>3. ASSUME NEW w \in Workers, Complete(w) PROVE TypeOK'
  <2>1. jobs' \in [JobKind -> JobRow]
    BY <1>3, CompletedRow DEF TypeOK, Complete
  <2>2. reviews' \subseteq ReviewCategory
    BY <1>3 DEF TypeOK, Busy, Complete, Outcome, Review, ReviewCategory
  <2>. QED
    BY <1>3, <2>1, <2>2 DEF TypeOK, Complete, Rest, Position, orderVars, moneyVars, externalVars
<1>4. ASSUME NEW w \in Workers, Crash(w) PROVE TypeOK'
  BY <1>4 DEF TypeOK, Crash, Fault, Rest, Position, orderVars, moneyVars, externalVars
<1>5. ASSUME CancelEffect
      PROVE  /\ state' \in OrderState /\ cancelRequested' \in BOOLEAN
             /\ supplierOrder' \in SupplierOrderStatus
             /\ reservation' \in ReservationStatus /\ payment' \in PaymentStatus
             /\ approved' \in BOOLEAN /\ posted' \in BOOLEAN
             /\ reviews' \subseteq ReviewCategory /\ jobs' \in [JobKind -> JobRow]
  <2>1. CASE CancelAgain
    BY <2>1 DEF TypeOK, CancelAgain, Rollback, orderVars, moneyVars
  <2>2. CASE CancelExposed
    BY <2>2 DEF TypeOK, CancelExposed, Review, ReviewCategory, moneyVars
  <2>3. CASE CancelAtSupplier
    <3>1. jobs' \in [JobKind -> JobRow]
      BY <2>3 DEF CancelAtSupplier, JobKind
    <3>. QED
      BY <2>3, <3>1 DEF TypeOK, CancelAtSupplier, Review, ReviewCategory, PaymentStatus
  <2>4. CASE CancelLocally
    BY <2>4 DEF TypeOK, CancelLocally, Released, PaymentStatus, SupplierOrderStatus, ReservationStatus
  <2>. QED
    BY <1>5, <2>1, <2>2, <2>3, <2>4 DEF CancelEffect
<1>6. CASE OperatorCancel
  BY <1>5, <1>6 DEF OperatorCancel, TypeOK, externalVars, workerVars
<1>7. CASE CustomerCancels
  BY <1>7 DEF CustomerCancels, Rollback, TypeOK, orderVars, moneyVars, workerVars
<1>8. ASSUME NEW w \in Workers, ReadOrder(w) \/ FetchOrder(w) PROVE TypeOK'
  BY <1>8 DEF ReadOrder, FetchOrder, GoTo, Fault, Position, Outcome, TypeOK,
              orderVars, moneyVars, externalVars
<1>9. ASSUME NEW w \in Workers, Withdraw(w) PROVE TypeOK'
  BY <1>5, <1>9 DEF Withdraw, GoTo, Position, Outcome, TypeOK, externalVars
<1>10. ASSUME NEW w \in Workers, ValidateReceived(w) PROVE TypeOK'
  BY <1>10 DEF ValidateReceived, Rollback, ValidationPasses, ValidationHolds, Hold, HoldExempt,
               Review, ReviewCategory, GoTo, Position, Outcome, JobKind, TypeOK,
               SupplierOrderStatus, ReservationStatus, orderVars, moneyVars, externalVars
<1>11. ASSUME NEW w \in Workers, SubmitSupplier(w) PROVE TypeOK'
  BY <1>11 DEF SubmitSupplier, Rollback, Hold, HoldExempt, Review, ReviewCategory, GoTo,
               Position, Outcome, JobKind, TypeOK, SupplierOrderStatus,
               orderVars, moneyVars, externalVars
<1>12. ASSUME NEW w \in Workers, NEW kind \in JobKind, NEW operation \in Receipt,
              CallSupplier(w, kind, operation)
       PROVE  TypeOK'
  BY <1>12 DEF CallSupplier, GoTo, Fault, Position, Outcome, TypeOK, orderVars, moneyVars
<1>13. ASSUME NEW w \in Workers, RecordSupplierOrder(w) PROVE TypeOK'
  BY <1>13 DEF RecordSupplierOrder, PreparePayment, Rollback, Review, ReviewCategory, GoTo,
               Position, Outcome, JobKind, TypeOK, SupplierOrderStatus, PaymentStatus,
               orderVars, moneyVars, externalVars
<1>14. ASSUME NEW w \in Workers, RecordSupplierCancel(w) PROVE TypeOK'
  BY <1>14 DEF RecordSupplierCancel, Released, Rollback, Review, ReviewCategory, GoTo,
               Position, Outcome, TypeOK, SupplierOrderStatus, ReservationStatus,
               orderVars, moneyVars, externalVars
<1>15. ASSUME NEW w \in Workers, ExecutePayment(w) PROVE TypeOK'
  <2>1. /\ pc' \in [Workers -> Position] /\ task' = task /\ lease' = lease
        /\ UNCHANGED <<jobs, externalVars, recon, faults>>
    BY <1>15 DEF ExecutePayment, Rollback, GoTo, Position, Outcome, TypeOK
  <2>2. /\ payment' \in PaymentStatus /\ state' \in OrderState
        /\ reviews' \subseteq ReviewCategory
        /\ UNCHANGED <<cancelRequested, supplierOrder, reservation, approved, posted>>
    BY <1>15 DEF ExecutePayment, Rollback, Hold, Review, ReviewCategory, TypeOK,
                 PaymentStatus, orderVars, moneyVars
  <2>. QED
    BY <2>1, <2>2 DEF TypeOK, externalVars
<1>16. ASSUME NEW w \in Workers, CallProvider(w) PROVE TypeOK'
  <2>1. /\ paymentCalls' \in Nat /\ faults' \in Nat
        /\ pc' \in [Workers -> Position] /\ task' = task /\ lease' = lease
    BY <1>16 DEF CallProvider, GoTo, Fault, Position, TypeOK
  <2>2. receipts' \subseteq receipts \cup {"pay_supplier"}
    BY <1>16 DEF CallProvider
  <2>3. receipts' \subseteq Receipt
    BY <2>2 DEF TypeOK, Receipt
  <2>. QED
    BY <1>16, <2>1, <2>3 DEF CallProvider, TypeOK, orderVars, moneyVars
<1>17. ASSUME NEW w \in Workers, RecordUnknown(w) PROVE TypeOK'
  BY <1>17 DEF RecordUnknown, Review, ReviewCategory, GoTo, Position, Outcome, TypeOK,
               PaymentStatus, orderVars, externalVars
<1>18. ASSUME NEW w \in Workers, FinalizePayment(w) PROVE TypeOK'
  <2>1. /\ pc' \in [Workers -> Position] /\ task' = task /\ lease' = lease
        /\ UNCHANGED <<cancelRequested, supplierOrder, approved, jobs, externalVars, recon, faults>>
    BY <1>18 DEF FinalizePayment, FinalizeEffect, Rollback, GoTo, Position, Outcome, TypeOK,
       orderVars, moneyVars
  <2>2. /\ payment' \in PaymentStatus /\ reservation' \in ReservationStatus
        /\ state' \in OrderState /\ posted' \in BOOLEAN /\ reviews' \subseteq ReviewCategory
    BY <1>18 DEF FinalizePayment, FinalizeEffect, Rollback, Review, ReviewCategory, TypeOK,
       PaymentStatus, ReservationStatus, orderVars, moneyVars
  <2>. QED
    BY <2>1, <2>2 DEF TypeOK, externalVars
<1>19. CASE ApprovePayment
  BY <1>19 DEF ApprovePayment, JobKind, TypeOK, PaymentStatus, orderVars, externalVars, workerVars
<1>20. ASSUME NEW a \in Admins, ReconcileStart(a) \/ ReconcileLookup(a) PROVE TypeOK'
  BY <1>20 DEF ReconcileStart, ReconcileLookup, Review, ReviewCategory, TypeOK,
               orderVars, moneyVars, externalVars, workerVars
<1>21. ASSUME NEW a \in Admins, ReconcileConfirm(a) PROVE TypeOK'
  BY <1>21 DEF ReconcileConfirm, FinalizeEffect, Rollback, Review, ReviewCategory, TypeOK,
               PaymentStatus, ReservationStatus, orderVars, moneyVars, externalVars, workerVars
<1>22. CASE UNCHANGED vars
  BY <1>22 DEF vars, TypeOK, orderVars, moneyVars, externalVars, workerVars
<1>. QED
  BY <1>1, <1>2, <1>3, <1>4, <1>6, <1>7, <1>8, <1>9, <1>10, <1>11, <1>12, <1>13, <1>14,
     <1>15, <1>16, <1>17, <1>18, <1>19, <1>20, <1>21, <1>22
  DEF Next, WorkerStep, TakeJob, HumanStep, JobKind, Receipt

\* Every reachable state has its type, whatever the workers and people do.
THEOREM TypeCorrect == Spec => []TypeOK
<1>1. Init => TypeOK /\ Busy
  BY TypeInit DEF Init, Busy
<1>. QED
  BY <1>1, TypeNext, BusyNext, PTL DEF Spec

-----------------------------------------------------------------------------
(* The inductive invariant, in seven parts. A worker is Paying from the       *)
(* moment its transaction has set the payment SENDING until it has recorded   *)
(* what came of it.                                                           *)

Paying(w) == task[w] = "payment.execute" /\ pc[w] \in {"call", "refused", "record"}
Paid == "pay_supplier" \in receipts

\* One dispatch, one request: SENDING is entered once, by one worker.
OneDispatch ==
  /\ paymentCalls \in {0, 1}
  /\ payment \notin AtRisk => paymentCalls = 0
  /\ \A w \in Workers : Paying(w) => payment \in AtRisk
  /\ \A w \in Workers : At(w, "payment.execute", "call") => paymentCalls = 0
  /\ \A v, w \in Workers : Paying(v) /\ Paying(w) => v = w

\* What anybody is about to write down as paid has been paid.
ReceiptsKnown ==
  /\ Paid => payment \in AtRisk /\ paymentCalls = 1
  /\ \A w \in Workers : At(w, "payment.execute", "record") => Paid
  /\ \A a \in Admins : recon[a] # "idle" => payment \in AtRisk
  /\ \A a \in Admins : recon[a] = "confirm" => Paid

\* The journal and the reservation change together.
Books ==
  /\ posted <=> reservation = "SPENT"
  /\ posted => Paid /\ payment \in AtRisk
  /\ payment = "SUCCEEDED" => posted

\* The reservation lives from the supplier order to the end of the payment.
Reserved ==
  /\ payment \notin {"NONE", "CANCELLED"} => reservation \in {"HELD", "SPENT"}
  /\ reservation = "NONE" <=> supplierOrder = "NONE"
  /\ reservation = "RELEASED" => cancelRequested
  /\ \A k \in {"supplier.submit", "supplier.cancel"} :
       jobs[k].status # "NONE" => supplierOrder # "NONE"
  /\ \A w \in Workers :
       task[w] \in {"supplier.submit", "supplier.cancel"} => supplierOrder # "NONE"

\* Who cancels and what a cancellation leaves behind.
Cancelling ==
  /\ jobs["supplier.cancel"].status # "NONE" => cancelRequested
  /\ \A w \in Workers : task[w] = "supplier.cancel" => cancelRequested
  /\ cancelRequested => payment \in {"NONE", "CANCELLED"} \cup AtRisk
  /\ state = "CANCELLED" => /\ cancelRequested
                            /\ reservation \in {"NONE", "RELEASED"}
                            /\ payment \in {"NONE", "CANCELLED"}

\* A payment is prepared only once the supplier has confirmed the order.
Ordered ==
  /\ payment # "NONE" => "create_orders" \in receipts
  /\ \A w \in Workers : At(w, "supplier.submit", "record") => "create_orders" \in receipts

Parts == /\ OneDispatch /\ ReceiptsKnown /\ Books
         /\ Reserved /\ Cancelling /\ Ordered /\ HaltIsReported

IInv == TypeOK /\ Busy /\ Parts

\* No step breaks a part: one step per action.
LEMMA PartsNext == IInv /\ [Next]_vars => Parts'
<1>. SUFFICES ASSUME IInv, [Next]_vars PROVE Parts'
  OBVIOUS
<1>1. ASSUME NEW w \in Workers, NEW k \in JobKind, Claim(w, k) PROVE Parts'
  BY <1>1 DEF IInv, TypeOK, Claim, Claimable, Claimed, FirstPosition, Position,
     orderVars, moneyVars, externalVars, Parts, OneDispatch, ReceiptsKnown, Books,
     Reserved, Cancelling, Ordered, HaltIsReported, Paying, Paid, At, AtRisk,
     JobKind, JobRow, ReservationStatus
<1>2. ASSUME NEW w \in Workers, NEW k \in JobKind, Bury(w, k) PROVE Parts'
  BY <1>2 DEF IInv, TypeOK, Bury, Claimable, Exhausted, Review, orderVars, moneyVars,
     externalVars, workerVars, Parts, OneDispatch, ReceiptsKnown, Books, Reserved,
     Cancelling, Ordered, HaltIsReported, Paying, Paid, At, AtRisk, JobKind,
     JobRow, ReservationStatus
<1>3. ASSUME NEW w \in Workers, Complete(w) PROVE Parts'
  BY <1>3 DEF IInv, TypeOK, Complete, Completed, Outcome, Review, Rest, orderVars,
     moneyVars, externalVars, Parts, OneDispatch, ReceiptsKnown, Books, Reserved,
     Cancelling, Ordered, HaltIsReported, Paying, Paid, At, AtRisk, JobKind,
     JobRow, ReservationStatus
<1>4. ASSUME NEW w \in Workers, Crash(w) PROVE Parts'
  BY <1>4 DEF IInv, TypeOK, Crash, Fault, Rest, orderVars, moneyVars, externalVars,
     Parts, OneDispatch, ReceiptsKnown, Books, Reserved, Cancelling, Ordered,
     HaltIsReported, Paying, Paid, At, AtRisk, JobKind, JobRow, ReservationStatus
<1>5. CASE OperatorCancel
  <2>1. CASE CancelAgain
    BY <1>5, <2>1 DEF IInv, TypeOK, OperatorCancel, CancelAgain, Rollback, orderVars,
       moneyVars, externalVars, workerVars, Parts, OneDispatch, ReceiptsKnown, Books,
       Reserved, Cancelling, Ordered, HaltIsReported, Paying, Paid, At, AtRisk,
       JobKind, JobRow, ReservationStatus
  <2>2. CASE CancelExposed
    BY <1>5, <2>2 DEF IInv, TypeOK, OperatorCancel, CancelExposed, Exposed, Review,
       moneyVars, externalVars, workerVars, Parts, OneDispatch, ReceiptsKnown, Books,
       Reserved, Cancelling, Ordered, HaltIsReported, Paying, Paid, At, AtRisk,
       JobKind, JobRow, ReservationStatus
  <2>3. CASE CancelAtSupplier
    BY <1>5, <2>3 DEF IInv, TypeOK, OperatorCancel, CancelAtSupplier, Exposed, Review,
       Enqueue, Enqueued, externalVars, workerVars, Parts, OneDispatch, ReceiptsKnown,
       Books, Reserved, Cancelling, Ordered, HaltIsReported, Paying, Paid, At,
       AtRisk, JobKind, JobRow, ReservationStatus
  <2>4. CASE CancelLocally
    BY <1>5, <2>4 DEF IInv, TypeOK, OperatorCancel, CancelLocally, Exposed, Released,
       externalVars, workerVars, Parts, OneDispatch, ReceiptsKnown, Books, Reserved,
       Cancelling, Ordered, HaltIsReported, Paying, Paid, At, AtRisk, JobKind,
       JobRow, ReservationStatus
  <2>. QED
    BY <1>5, <2>1, <2>2, <2>3, <2>4 DEF OperatorCancel, CancelEffect
<1>6. CASE CustomerCancels
  BY <1>6 DEF IInv, TypeOK, CustomerCancels, orderVars, moneyVars, workerVars, Parts,
     OneDispatch, ReceiptsKnown, Books, Reserved, Cancelling, Ordered,
     HaltIsReported, Paying, Paid, At, AtRisk, JobKind, JobRow, ReservationStatus
<1>7. ASSUME NEW w \in Workers, ReadOrder(w) \/ FetchOrder(w) PROVE Parts'
  BY <1>7 DEF IInv, TypeOK, ReadOrder, FetchOrder, GoTo, orderVars, moneyVars,
     externalVars, Parts, OneDispatch, ReceiptsKnown, Books, Reserved, Cancelling,
     Ordered, HaltIsReported, Paying, Paid, At, AtRisk, JobKind, JobRow, ReservationStatus
<1>8. ASSUME NEW w \in Workers, Withdraw(w) PROVE Parts'
  <2>1. CASE CancelAgain
    BY <1>8, <2>1 DEF IInv, TypeOK, Withdraw, CancelAgain, Rollback, orderVars,
       moneyVars, GoTo, externalVars, Parts, OneDispatch, ReceiptsKnown, Books,
       Reserved, Cancelling, Ordered, HaltIsReported, Paying, Paid, At, AtRisk,
       JobKind, JobRow, ReservationStatus
  <2>2. CASE CancelExposed
    BY <1>8, <2>2 DEF IInv, TypeOK, Withdraw, CancelExposed, Exposed, Review, moneyVars,
       GoTo, externalVars, Parts, OneDispatch, ReceiptsKnown, Books, Reserved,
       Cancelling, Ordered, HaltIsReported, Paying, Paid, At, AtRisk, JobKind,
       JobRow, ReservationStatus
  <2>3. CASE CancelAtSupplier
    BY <1>8, <2>3 DEF IInv, TypeOK, Withdraw, CancelAtSupplier, Exposed, Review,
       Enqueue, Enqueued, GoTo, externalVars, Parts, OneDispatch, ReceiptsKnown, Books,
       Reserved, Cancelling, Ordered, HaltIsReported, Paying, Paid, At, AtRisk,
       JobKind, JobRow, ReservationStatus
  <2>4. CASE CancelLocally
    BY <1>8, <2>4 DEF IInv, TypeOK, Withdraw, CancelLocally, Exposed, Released, GoTo,
       externalVars, Parts, OneDispatch, ReceiptsKnown, Books, Reserved, Cancelling,
       Ordered, HaltIsReported, Paying, Paid, At, AtRisk, JobKind, JobRow, ReservationStatus
  <2>. QED
    BY <1>8, <2>1, <2>2, <2>3, <2>4 DEF Withdraw, CancelEffect
<1>9. ASSUME NEW w \in Workers, ValidateReceived(w) PROVE Parts'
  BY <1>9 DEF IInv, TypeOK, ValidateReceived, Rollback, ValidationPasses,
     ValidationHolds, NoBusinessEffects, Hold, HoldExempt, Review, Enqueue, Enqueued,
     GoTo, orderVars, moneyVars, externalVars, Parts, OneDispatch, ReceiptsKnown, Books,
     Reserved, Cancelling, Ordered, HaltIsReported, Paying, Paid, At, AtRisk,
     JobKind, JobRow, ReservationStatus
<1>10. ASSUME NEW w \in Workers, SubmitSupplier(w) PROVE Parts'
  BY <1>10 DEF IInv, TypeOK, SubmitSupplier, Rollback, Hold, HoldExempt, Review,
     Enqueue, Enqueued, GoTo, orderVars, moneyVars, externalVars, Parts, OneDispatch,
     ReceiptsKnown, Books, Reserved, Cancelling, Ordered, HaltIsReported, Paying,
     Paid, At, AtRisk, JobKind, JobRow, ReservationStatus
<1>11. ASSUME NEW w \in Workers, CallSupplier(w, "supplier.submit", "create_orders") PROVE Parts'
  BY <1>11 DEF IInv, TypeOK, CallSupplier, GoTo, orderVars, moneyVars, Parts,
     OneDispatch, ReceiptsKnown, Books, Reserved, Cancelling, Ordered,
     HaltIsReported, Paying, Paid, At, AtRisk, JobKind, JobRow, ReservationStatus
<1>12. ASSUME NEW w \in Workers, CallSupplier(w, "supplier.cancel", "cancel_order") PROVE Parts'
  BY <1>12 DEF IInv, TypeOK, CallSupplier, GoTo, orderVars, moneyVars, Parts,
     OneDispatch, ReceiptsKnown, Books, Reserved, Cancelling, Ordered,
     HaltIsReported, Paying, Paid, At, AtRisk, JobKind, JobRow, ReservationStatus
<1>13. ASSUME NEW w \in Workers, RecordSupplierOrder(w) PROVE Parts'
  <2>1. OneDispatch'
    BY <1>13 DEF IInv, Parts, TypeOK, RecordSupplierOrder, PreparePayment, Rollback,
       Review, Enqueue, Enqueued, GoTo, orderVars, moneyVars, externalVars, Paying,
       Paid, At, AtRisk, JobKind, JobRow, ReservationStatus, OneDispatch
  <2>2. ReceiptsKnown'
    BY <1>13 DEF IInv, Parts, TypeOK, RecordSupplierOrder, PreparePayment, Rollback,
       Review, Enqueue, Enqueued, GoTo, orderVars, moneyVars, externalVars, Paying,
       Paid, At, AtRisk, JobKind, JobRow, ReservationStatus, OneDispatch, ReceiptsKnown
  <2>3. Books'
    BY <1>13 DEF IInv, Parts, TypeOK, RecordSupplierOrder, PreparePayment, Rollback,
       Review, Enqueue, Enqueued, GoTo, orderVars, moneyVars, externalVars, Paying,
       Paid, At, AtRisk, JobKind, JobRow, ReservationStatus, OneDispatch, ReceiptsKnown, Books
  <2>4. Reserved'
    BY <1>13 DEF IInv, Parts, TypeOK, RecordSupplierOrder, PreparePayment, Rollback,
       Review, Enqueue, Enqueued, GoTo, orderVars, moneyVars, externalVars, Paying,
       Paid, At, AtRisk, JobKind, JobRow, ReservationStatus, Books, Reserved, Cancelling, OneDispatch
  <2>5. Cancelling'
    BY <1>13 DEF IInv, Parts, TypeOK, RecordSupplierOrder, PreparePayment, Rollback,
       Review, Enqueue, Enqueued, GoTo, orderVars, moneyVars, externalVars, Paying,
       Paid, At, AtRisk, JobKind, JobRow, ReservationStatus, Reserved, Cancelling, OneDispatch,
       ReceiptsKnown, Books
  <2>6. Ordered'
    BY <1>13 DEF IInv, Parts, TypeOK, RecordSupplierOrder, PreparePayment, Rollback,
       Review, Enqueue, Enqueued, GoTo, orderVars, moneyVars, externalVars, Paying,
       Paid, At, AtRisk, JobKind, JobRow, ReservationStatus, Ordered, OneDispatch
  <2>7. HaltIsReported'
    BY <1>13 DEF IInv, Parts, TypeOK, RecordSupplierOrder, PreparePayment, Rollback,
       Review, Enqueue, Enqueued, GoTo, orderVars, moneyVars, externalVars, Paying,
       Paid, At, AtRisk, JobKind, JobRow, ReservationStatus, HaltIsReported, OneDispatch,
       ReceiptsKnown, Cancelling
  <2>. QED
    BY <2>1, <2>2, <2>3, <2>4, <2>5, <2>6, <2>7 DEF Parts
<1>14. ASSUME NEW w \in Workers, RecordSupplierCancel(w) PROVE Parts'
  <2>1. OneDispatch'
    BY <1>14 DEF IInv, Parts, TypeOK, RecordSupplierCancel, Exposed, Released, Rollback,
       Review, GoTo, orderVars, moneyVars, externalVars, Paying, Paid, At, AtRisk,
       JobKind, JobRow, ReservationStatus, OneDispatch
  <2>2. ReceiptsKnown'
    BY <1>14 DEF IInv, Parts, TypeOK, RecordSupplierCancel, Exposed, Released, Rollback,
       Review, GoTo, orderVars, moneyVars, externalVars, Paying, Paid, At, AtRisk,
       JobKind, JobRow, ReservationStatus, OneDispatch, ReceiptsKnown
  <2>3. Books'
    BY <1>14 DEF IInv, Parts, TypeOK, RecordSupplierCancel, Exposed, Released, Rollback,
       Review, GoTo, orderVars, moneyVars, externalVars, Paying, Paid, At, AtRisk,
       JobKind, JobRow, ReservationStatus, OneDispatch, ReceiptsKnown, Books
  <2>4. Reserved'
    BY <1>14 DEF IInv, Parts, TypeOK, RecordSupplierCancel, Exposed, Released, Rollback,
       Review, GoTo, orderVars, moneyVars, externalVars, Paying, Paid, At, AtRisk,
       JobKind, JobRow, ReservationStatus, Books, Reserved, Cancelling, OneDispatch
  <2>5. Cancelling'
    BY <1>14 DEF IInv, Parts, TypeOK, RecordSupplierCancel, Exposed, Released, Rollback,
       Review, GoTo, orderVars, moneyVars, externalVars, Paying, Paid, At, AtRisk,
       JobKind, JobRow, ReservationStatus, Reserved, Cancelling, OneDispatch, ReceiptsKnown, Books
  <2>6. Ordered'
    BY <1>14 DEF IInv, Parts, TypeOK, RecordSupplierCancel, Exposed, Released, Rollback,
       Review, GoTo, orderVars, moneyVars, externalVars, Paying, Paid, At, AtRisk,
       JobKind, JobRow, ReservationStatus, Ordered, OneDispatch
  <2>7. HaltIsReported'
    BY <1>14 DEF IInv, Parts, TypeOK, RecordSupplierCancel, Exposed, Released, Rollback,
       Review, GoTo, orderVars, moneyVars, externalVars, Paying, Paid, At, AtRisk,
       JobKind, JobRow, ReservationStatus, HaltIsReported, OneDispatch, ReceiptsKnown, Cancelling
  <2>. QED
    BY <2>1, <2>2, <2>3, <2>4, <2>5, <2>6, <2>7 DEF Parts
<1>15. ASSUME NEW w \in Workers, ExecutePayment(w) PROVE Parts'
  BY <1>15 DEF IInv, TypeOK, ExecutePayment, Rollback, Hold, HoldExempt, Review, GoTo,
     orderVars, moneyVars, externalVars, Parts, OneDispatch, ReceiptsKnown, Books,
     Reserved, Cancelling, Ordered, HaltIsReported, Paying, Paid, At, AtRisk,
     JobKind, JobRow, ReservationStatus
<1>16. ASSUME NEW w \in Workers, CallProvider(w) PROVE Parts'
  BY <1>16 DEF IInv, TypeOK, CallProvider, GoTo, orderVars, moneyVars, Parts,
     OneDispatch, ReceiptsKnown, Books, Reserved, Cancelling, Ordered,
     HaltIsReported, Paying, Paid, At, AtRisk, JobKind, JobRow, ReservationStatus
<1>17. ASSUME NEW w \in Workers, RecordUnknown(w) PROVE Parts'
  BY <1>17 DEF IInv, TypeOK, RecordUnknown, Review, GoTo, orderVars, externalVars,
     Parts, OneDispatch, ReceiptsKnown, Books, Reserved, Cancelling, Ordered,
     HaltIsReported, Paying, Paid, At, AtRisk, JobKind, JobRow, ReservationStatus
<1>18. ASSUME NEW w \in Workers, FinalizePayment(w) PROVE Parts'
  BY <1>18 DEF IInv, TypeOK, FinalizePayment, FinalizeEffect, CanFinalize, Rollback,
     Review, GoTo, orderVars, moneyVars, externalVars, Parts, OneDispatch,
     ReceiptsKnown, Books, Reserved, Cancelling, Ordered, HaltIsReported, Paying,
     Paid, At, AtRisk, JobKind, JobRow, ReservationStatus
<1>19. CASE ApprovePayment
  BY <1>19 DEF IInv, TypeOK, ApprovePayment, Enqueue, Enqueued, orderVars, externalVars,
     workerVars, Parts, OneDispatch, ReceiptsKnown, Books, Reserved, Cancelling,
     Ordered, HaltIsReported, Paying, Paid, At, AtRisk, JobKind, JobRow, ReservationStatus
<1>20. ASSUME NEW a \in Admins, ReconcileStart(a) \/ ReconcileLookup(a) PROVE Parts'
  BY <1>20 DEF IInv, TypeOK, ReconcileStart, ReconcileLookup, Exposed, Review,
     orderVars, moneyVars, externalVars, workerVars, Parts, OneDispatch, ReceiptsKnown,
     Books, Reserved, Cancelling, Ordered, HaltIsReported, Paying, Paid, At,
     AtRisk, JobKind, JobRow, ReservationStatus
<1>21. ASSUME NEW a \in Admins, ReconcileConfirm(a) PROVE Parts'
  BY <1>21 DEF IInv, TypeOK, ReconcileConfirm, FinalizeEffect, CanFinalize, Rollback,
     Review, orderVars, moneyVars, externalVars, workerVars, Parts, OneDispatch,
     ReceiptsKnown, Books, Reserved, Cancelling, Ordered, HaltIsReported, Paying,
     Paid, At, AtRisk, JobKind, JobRow, ReservationStatus
<1>22. CASE UNCHANGED vars
  BY <1>22 DEF IInv, TypeOK, vars, orderVars, moneyVars, externalVars, workerVars,
     Parts, OneDispatch, ReceiptsKnown, Books, Reserved, Cancelling, Ordered,
     HaltIsReported, Paying, Paid, At, AtRisk, JobKind, JobRow, ReservationStatus
<1>. QED
  BY <1>1, <1>2, <1>3, <1>4, <1>5, <1>6, <1>7, <1>8, <1>9, <1>10, <1>11, <1>12, <1>13, <1>14, <1>15, <1>16, <1>17, <1>18, <1>19, <1>20, <1>21, <1>22
  DEF Next, WorkerStep, TakeJob, HumanStep

\* An order that has just been ingested satisfies every part.
LEMMA PartsInit == Init => Parts
BY DEF Init, Parts, OneDispatch, ReceiptsKnown, Books, Reserved, Cancelling, Ordered,
       HaltIsReported, Paying, Paid, At, AtRisk, JobKind, NoJob, Enqueued

\* The inductive invariant holds in every reachable state.
THEOREM Invariant == Spec => []IInv
<1>1. Init => IInv
  BY TypeInit, PartsInit DEF IInv, Init, Busy
<1>2. IInv /\ [Next]_vars => IInv'
  BY TypeNext, BusyNext, PartsNext DEF IInv
<1>. QED
  BY <1>1, <1>2, PTL DEF Spec

-----------------------------------------------------------------------------
(* On top of it: what the supplier still works on, and who carries a stage on *)

Submitting(w) == task[w] = "supplier.submit" /\ pc[w] \in {"call", "record"}

\* The supplier has confirmed the cancellation, and the review of it is open.
CancellationConfirmed ==
  /\ state = "CANCELLED" /\ "cancel_order" \in receipts
  /\ "CANCELLATION_AFTER_SUPPLIER_ORDER" \in reviews

\* An order the supplier may be working on has its cash, or its cancellation was confirmed
\* before the answer of a worker that was submitting it.
AtSupplier ==
  /\ \A w \in Workers : At(w, "supplier.cancel", "record") => "cancel_order" \in receipts
  /\ supplierOrder \in {"SENDING", "ACCEPTED"} /\ cancelRequested =>
       payment \in AtRisk \/ "CANCELLATION_AFTER_SUPPLIER_ORDER" \in reviews
  /\ \A w \in Workers : Submitting(w) =>
       \/ supplierOrder \in {"SENDING", "ACCEPTED"}
       \/ supplierOrder = "CANCELLED" /\ CancellationConfirmed
  /\ supplierOrder \in {"SENDING", "ACCEPTED"} =>
       reservation \in {"HELD", "SPENT"} \/ LateAcceptance

\* No step breaks it.
LEMMA AtSupplierNext == IInv /\ AtSupplier /\ [Next]_vars => AtSupplier'
<1>. SUFFICES ASSUME IInv, AtSupplier, [Next]_vars PROVE AtSupplier'
  OBVIOUS
<1>. USE DEF IInv, TypeOK
<1>1. ASSUME NEW w \in Workers, NEW k \in JobKind, Claim(w, k) PROVE AtSupplier'
  BY <1>1 DEF Claim, FirstPosition, JobKind, AtSupplier, Submitting, At, LateAcceptance,
     CancellationConfirmed, orderVars, moneyVars, externalVars
<1>2. ASSUME NEW w \in Workers, NEW k \in JobKind, Bury(w, k) PROVE AtSupplier'
  BY <1>2 DEF Bury, Review, AtSupplier, Submitting, At, LateAcceptance,
     CancellationConfirmed, orderVars, moneyVars, externalVars, workerVars
<1>3. ASSUME NEW w \in Workers, Complete(w) \/ Crash(w) PROVE AtSupplier'
  BY <1>3 DEF Complete, Crash, Rest, Review, AtSupplier, Submitting, At, LateAcceptance,
     CancellationConfirmed, orderVars, moneyVars, externalVars
<1>4. ASSUME CancelEffect, UNCHANGED receipts,
             \A w \in Workers : Submitting(w)' => Submitting(w),
             \A w \in Workers : At(w, "supplier.cancel", "record")' => At(w, "supplier.cancel", "record")
      PROVE  AtSupplier'
  <2>1. CASE CancelAgain
    BY <1>4, <2>1 DEF CancelAgain, Rollback, AtSupplier, LateAcceptance, CancellationConfirmed,
       orderVars, moneyVars
  <2>2. CASE CancelExposed
    BY <1>4, <2>2 DEF CancelExposed, Exposed, AtRisk, Review, AtSupplier, LateAcceptance,
       CancellationConfirmed, Parts, Cancelling, moneyVars
  <2>3. CASE CancelAtSupplier
    BY <1>4, <2>3 DEF CancelAtSupplier, Review, AtSupplier, LateAcceptance,
       CancellationConfirmed, Parts, Cancelling
  <2>4. CASE CancelLocally
    BY <1>4, <2>4 DEF CancelLocally, AtSupplier, CancellationConfirmed
  <2>. QED
    BY <1>4, <2>1, <2>2, <2>3, <2>4 DEF CancelEffect
<1>5. CASE OperatorCancel
  BY <1>4, <1>5 DEF OperatorCancel, Submitting, At, externalVars, workerVars
<1>6. CASE CustomerCancels \/ ApprovePayment
  BY <1>6 DEF CustomerCancels, ApprovePayment, AtRisk, AtSupplier, Submitting, At, LateAcceptance,
     CancellationConfirmed, orderVars, moneyVars, externalVars, workerVars
<1>7. ASSUME NEW w \in Workers, ReadOrder(w) \/ FetchOrder(w) PROVE AtSupplier'
  BY <1>7 DEF ReadOrder, FetchOrder, GoTo, AtSupplier, Submitting, At, LateAcceptance,
     CancellationConfirmed, orderVars, moneyVars, externalVars
<1>8. ASSUME NEW w \in Workers, Withdraw(w) PROVE AtSupplier'
  BY <1>4, <1>8 DEF Withdraw, GoTo, Submitting, At, externalVars
<1>9. ASSUME NEW w \in Workers, ValidateReceived(w) PROVE AtSupplier'
  BY <1>9 DEF ValidateReceived, Rollback, ValidationPasses, ValidationHolds, NoBusinessEffects,
     Hold, HoldExempt, Review, GoTo, AtSupplier, Submitting, At, LateAcceptance,
     CancellationConfirmed, Parts, Reserved, orderVars, moneyVars, externalVars
<1>10. ASSUME NEW w \in Workers, SubmitSupplier(w) PROVE AtSupplier'
  BY <1>10 DEF SubmitSupplier, Rollback, Hold, HoldExempt, Review, GoTo, AtSupplier, Submitting,
     At, LateAcceptance, CancellationConfirmed, Parts, Reserved, ReservationStatus, orderVars,
     moneyVars, externalVars
<1>11. ASSUME NEW w \in Workers, CallSupplier(w, "supplier.submit", "create_orders") PROVE AtSupplier'
  BY <1>11 DEF CallSupplier, GoTo, AtSupplier, Submitting, At, LateAcceptance,
     CancellationConfirmed, orderVars, moneyVars
<1>12. ASSUME NEW w \in Workers, CallSupplier(w, "supplier.cancel", "cancel_order") PROVE AtSupplier'
  BY <1>12 DEF CallSupplier, GoTo, AtSupplier, Submitting, At, LateAcceptance,
     CancellationConfirmed, orderVars, moneyVars
<1>13. ASSUME NEW w \in Workers, RecordSupplierOrder(w) PROVE AtSupplier'
  <2>1. Submitting(w) /\ reservation \in ReservationStatus
    BY <1>13 DEF RecordSupplierOrder, Submitting, At
  <2>. QED
    BY <1>13, <2>1 DEF RecordSupplierOrder, PreparePayment, Rollback, Review, GoTo, AtSupplier,
       Submitting, At, AtRisk, LateAcceptance, CancellationConfirmed, Parts, Reserved,
       ReservationStatus, orderVars, moneyVars, externalVars
<1>14. ASSUME NEW w \in Workers, RecordSupplierCancel(w) PROVE AtSupplier'
  BY <1>14 DEF RecordSupplierCancel, Exposed, Rollback, Review, GoTo, AtSupplier,
     Submitting, At, AtRisk, LateAcceptance, CancellationConfirmed, Parts, Cancelling,
     orderVars, moneyVars, externalVars
<1>15. ASSUME NEW w \in Workers,
              \/ ExecutePayment(w) \/ CallProvider(w) \/ RecordUnknown(w) \/ FinalizePayment(w)
       PROVE  AtSupplier'
  <2>1. CASE ExecutePayment(w)
    BY <2>1 DEF ExecutePayment, Rollback, Hold, HoldExempt, Review, GoTo, AtSupplier, Submitting,
       At, AtRisk, LateAcceptance, CancellationConfirmed, orderVars, moneyVars, externalVars
  <2>2. CASE CallProvider(w) \/ RecordUnknown(w)
    BY <2>2 DEF CallProvider, RecordUnknown, Review, GoTo, AtSupplier, Submitting, At, AtRisk,
       LateAcceptance, CancellationConfirmed, orderVars, moneyVars, externalVars
  <2>3. CASE FinalizePayment(w)
    BY <2>3 DEF FinalizePayment, FinalizeEffect, CanFinalize, Rollback, Review, GoTo, AtSupplier,
       Submitting, At, AtRisk, LateAcceptance, CancellationConfirmed, Parts, Cancelling,
       orderVars, moneyVars, externalVars
  <2>. QED
    BY <1>15, <2>1, <2>2, <2>3
<1>16. ASSUME NEW a \in Admins, ReconcileStart(a) \/ ReconcileLookup(a) \/ ReconcileConfirm(a)
       PROVE  AtSupplier'
  BY <1>16 DEF ReconcileStart, ReconcileLookup, ReconcileConfirm, FinalizeEffect, CanFinalize,
     Rollback, Review, AtSupplier, Submitting, At, AtRisk, LateAcceptance,
     CancellationConfirmed, Parts, Cancelling, orderVars, moneyVars, externalVars, workerVars
<1>17. CASE UNCHANGED vars
  BY <1>17 DEF vars, AtSupplier, Submitting, At, LateAcceptance, CancellationConfirmed, orderVars,
     moneyVars, externalVars, workerVars
<1>. QED
  BY <1>1, <1>2, <1>3, <1>5, <1>6, <1>7, <1>8, <1>9, <1>10, <1>11, <1>12, <1>13, <1>14, <1>15,
     <1>16, <1>17 DEF Next, WorkerStep, TakeJob, HumanStep

\* Every stage is begun in its turn, and with the job that carries it.
StagesBegun ==
  /\ cancelRequested => state # "RECEIVED"
  /\ cancelRequested /\ payment \in AtRisk => "CANCELLATION_AFTER_PAYMENT" \in reviews
  /\ cancelRequested => supplierOrder # "PENDING"
  /\ payment = "CANCELLED" => cancelRequested
  /\ payment # "NONE" => supplierOrder \in {"ACCEPTED", "CANCELLED"}
  /\ payment = "NONE" => jobs["payment.execute"].status = "NONE"
  /\ \A w \in Workers : task[w] = "payment.execute" => payment # "NONE"

\* A handler that is about to end its job has done its stage or has asked a person.
HandlersEnd ==
  \A w \in Workers :
    /\ pc[w] = "read" => task[w] = "order.process"
    /\ At(w, "order.process", "ok") => state # "RECEIVED"
    /\ At(w, "supplier.submit", "ok") /\ supplierOrder \in {"PENDING", "SENDING"} =>
         reviews \cap {"ORDER_HELD", "CANCELLATION_AFTER_SUPPLIER_ORDER"} # {}
    /\ At(w, "payment.execute", "ok") /\ payment \in {"PENDING", "SENDING"} =>
         "CANCELLATION_AFTER_PAYMENT" \in reviews \/ approved

\* The invariant that carries NothingWaitsSilently.
CInv == AtSupplier /\ StagesBegun /\ HandlersEnd /\ StageIsPursued

\* No step begins a stage out of its turn.
LEMMA StagesBegunNext == IInv /\ StagesBegun /\ [Next]_vars => StagesBegun'
<1>. SUFFICES ASSUME IInv, StagesBegun, [Next]_vars PROVE StagesBegun'
  OBVIOUS
<1>1. ASSUME NEW w \in Workers, NEW k \in JobKind, Claim(w, k) PROVE StagesBegun'
  BY <1>1 DEF Claim, Claimed, Claimable, FirstPosition, IInv, TypeOK, Parts, OneDispatch,
     Paying, Reserved, Cancelling, Ordered, AtRisk, StagesBegun, At, JobKind, orderVars,
     workerVars, moneyVars, externalVars
<1>2. ASSUME NEW w \in Workers, NEW k \in JobKind, Bury(w, k) PROVE StagesBegun'
  BY <1>2 DEF Bury, Exhausted, Claimable, Review, IInv, TypeOK, Parts, OneDispatch, Paying,
     Reserved, Cancelling, Ordered, AtRisk, StagesBegun, At, JobKind, orderVars, moneyVars,
     externalVars, workerVars
<1>3. ASSUME NEW w \in Workers, Complete(w) PROVE StagesBegun'
  BY <1>3 DEF Complete, Completed, Outcome, Rest, Review, IInv, TypeOK, Parts, OneDispatch,
     Paying, Reserved, Cancelling, Ordered, AtRisk, StagesBegun, At, JobKind, orderVars,
     moneyVars, externalVars
<1>4. ASSUME NEW w \in Workers, Crash(w) PROVE StagesBegun'
  BY <1>4 DEF Crash, Rest, IInv, TypeOK, Parts, OneDispatch, Paying, Reserved, Cancelling,
     Ordered, AtRisk, StagesBegun, At, JobKind, orderVars, moneyVars, externalVars
<1>5. ASSUME CancelEffect, UNCHANGED task
      PROVE  StagesBegun'
  <2>1. CASE CancelAgain
    BY <1>5, <2>1 DEF CancelAgain, Rollback, orderVars, moneyVars, IInv, TypeOK, Parts,
       OneDispatch, Paying, Reserved, Cancelling, Ordered, AtRisk, StagesBegun, At, JobKind
  <2>2. CASE CancelExposed
    BY <1>5, <2>2 DEF CancelExposed, Exposed, Review, moneyVars, IInv, TypeOK, Parts,
       OneDispatch, Paying, Reserved, Cancelling, Ordered, AtRisk, StagesBegun, At, JobKind
  <2>3. CASE CancelAtSupplier
    BY <1>5, <2>3 DEF CancelAtSupplier, Exposed, Review, Enqueue, Enqueued, IInv, TypeOK,
       Parts, OneDispatch, Paying, Reserved, Cancelling, Ordered, AtRisk, StagesBegun, At,
       JobKind
  <2>4. CASE CancelLocally
    BY <1>5, <2>4 DEF CancelLocally, Exposed, IInv, TypeOK, Parts, OneDispatch, Paying,
       Reserved, Cancelling, Ordered, AtRisk, StagesBegun, At, JobKind
  <2>. QED
    BY <1>5, <2>1, <2>2, <2>3, <2>4 DEF CancelEffect
<1>6. CASE OperatorCancel
  BY <1>5, <1>6 DEF OperatorCancel, At, externalVars, workerVars
<1>7. CASE CustomerCancels
  BY <1>7 DEF CustomerCancels, IInv, TypeOK, Parts, OneDispatch, Paying, Reserved, Cancelling,
     Ordered, AtRisk, StagesBegun, At, JobKind, orderVars, moneyVars, workerVars
<1>8. CASE ApprovePayment
  BY <1>8 DEF ApprovePayment, Enqueue, Enqueued, IInv, TypeOK, Parts, OneDispatch, Paying,
     Reserved, Cancelling, Ordered, AtRisk, StagesBegun, At, JobKind, orderVars, externalVars,
     workerVars
<1>9. ASSUME NEW w \in Workers, ReadOrder(w) \/ FetchOrder(w) PROVE StagesBegun'
  BY <1>9 DEF ReadOrder, FetchOrder, GoTo, IInv, TypeOK, Parts, OneDispatch, Paying, Reserved,
     Cancelling, Ordered, AtRisk, StagesBegun, At, JobKind, orderVars, moneyVars, externalVars
<1>10. ASSUME NEW w \in Workers, Withdraw(w) PROVE StagesBegun'
  BY <1>5, <1>10 DEF Withdraw, GoTo, At, externalVars
<1>11. ASSUME NEW w \in Workers, ValidateReceived(w) PROVE StagesBegun'
  BY <1>11 DEF ValidateReceived, Rollback, ValidationPasses, ValidationHolds,
     NoBusinessEffects, Hold, HoldExempt, Review, Enqueue, Enqueued, GoTo, IInv, TypeOK,
     Parts, OneDispatch, Paying, Reserved, Cancelling, Ordered, AtRisk, StagesBegun, At,
     JobKind, orderVars, moneyVars, externalVars
<1>12. ASSUME NEW w \in Workers, SubmitSupplier(w) PROVE StagesBegun'
  BY <1>12 DEF SubmitSupplier, Rollback, Hold, HoldExempt, Review, Enqueue, Enqueued, GoTo,
     IInv, TypeOK, Parts, OneDispatch, Paying, Reserved, Cancelling, Ordered, AtRisk,
     StagesBegun, At, JobKind, orderVars, moneyVars, externalVars
<1>13. ASSUME NEW w \in Workers, NEW kind \in JobKind, NEW operation, CallSupplier(w, kind, operation)
       PROVE  StagesBegun'
  BY <1>13 DEF CallSupplier, GoTo, IInv, TypeOK, Parts, OneDispatch, Paying, Reserved,
     Cancelling, Ordered, AtRisk, StagesBegun, At, JobKind, orderVars, moneyVars
<1>14. ASSUME NEW w \in Workers, RecordSupplierOrder(w) PROVE StagesBegun'
  BY <1>14 DEF RecordSupplierOrder, PreparePayment, Rollback, Review, Enqueue, Enqueued, GoTo,
     IInv, TypeOK, Parts, OneDispatch, Paying, Reserved, Cancelling, Ordered, AtRisk,
     StagesBegun, At, JobKind, orderVars, moneyVars, externalVars
<1>15. ASSUME NEW w \in Workers, RecordSupplierCancel(w) PROVE StagesBegun'
  BY <1>15 DEF RecordSupplierCancel, Exposed, Rollback, Review, GoTo, IInv, TypeOK, Parts,
     OneDispatch, Paying, Reserved, Cancelling, Ordered, AtRisk, StagesBegun, At, JobKind,
     orderVars, moneyVars, externalVars
<1>16. ASSUME NEW w \in Workers, ExecutePayment(w) PROVE StagesBegun'
  BY <1>16 DEF ExecutePayment, Rollback, Hold, HoldExempt, Review, GoTo, IInv, TypeOK, Parts,
     OneDispatch, Paying, Reserved, Cancelling, Ordered, AtRisk, StagesBegun, At, JobKind,
     orderVars, moneyVars, externalVars
<1>17. ASSUME NEW w \in Workers, CallProvider(w) \/ RecordUnknown(w) PROVE StagesBegun'
  BY <1>17 DEF CallProvider, RecordUnknown, Review, GoTo, IInv, TypeOK, Parts, OneDispatch,
     Paying, Reserved, Cancelling, Ordered, AtRisk, StagesBegun, At, JobKind, orderVars,
     moneyVars, externalVars
<1>18. ASSUME NEW w \in Workers, FinalizePayment(w) PROVE StagesBegun'
  BY <1>18 DEF FinalizePayment, FinalizeEffect, CanFinalize, Rollback, Review, GoTo, IInv,
     TypeOK, Parts, OneDispatch, Paying, Reserved, Cancelling, Ordered, AtRisk, StagesBegun,
     At, JobKind, orderVars, moneyVars, externalVars
<1>19. ASSUME NEW a \in Admins, ReconcileStart(a) \/ ReconcileLookup(a) \/ ReconcileConfirm(a)
       PROVE  StagesBegun'
  BY <1>19 DEF ReconcileStart, ReconcileLookup, ReconcileConfirm, FinalizeEffect, CanFinalize,
     Rollback, Review, IInv, TypeOK, Parts, OneDispatch, Paying, Reserved, Cancelling,
     Ordered, AtRisk, StagesBegun, At, JobKind, orderVars, moneyVars, externalVars, workerVars
<1>20. CASE UNCHANGED vars
  BY <1>20 DEF vars, IInv, TypeOK, Parts, OneDispatch, Paying, Reserved, Cancelling, Ordered,
     AtRisk, StagesBegun, At, JobKind, orderVars, moneyVars, externalVars, workerVars
<1>. QED
  BY <1>1, <1>2, <1>3, <1>4, <1>6, <1>7, <1>8, <1>9, <1>10, <1>11, <1>12, <1>13, <1>14, <1>15,
     <1>16, <1>17, <1>18, <1>19, <1>20 DEF Next, WorkerStep, TakeJob, HumanStep, JobKind

\* No handler ends its job before its stage is done or a person is asked.
LEMMA HandlersEndNext ==
  IInv /\ AtSupplier /\ StagesBegun /\ HandlersEnd /\ [Next]_vars => HandlersEnd'
<1>. SUFFICES ASSUME IInv, AtSupplier, StagesBegun, HandlersEnd, [Next]_vars PROVE HandlersEnd'
  OBVIOUS
<1>1. ASSUME NEW w \in Workers, NEW k \in JobKind, Claim(w, k) PROVE HandlersEnd'
  BY <1>1 DEF Claim, Claimed, Claimable, FirstPosition, IInv, TypeOK, Parts, Reserved,
     Cancelling, AtSupplier, StagesBegun, HandlersEnd, At, AtRisk, orderVars, workerVars,
     moneyVars, externalVars
<1>2. ASSUME NEW w \in Workers, NEW k \in JobKind, Bury(w, k) PROVE HandlersEnd'
  BY <1>2 DEF Bury, Exhausted, Claimable, Review, IInv, TypeOK, Parts, Reserved, Cancelling,
     AtSupplier, StagesBegun, HandlersEnd, At, AtRisk, orderVars, moneyVars, externalVars,
     workerVars
<1>3. ASSUME NEW w \in Workers, Complete(w) PROVE HandlersEnd'
  BY <1>3 DEF Complete, Completed, Outcome, Rest, Review, IInv, TypeOK, Parts, Reserved,
     Cancelling, AtSupplier, StagesBegun, HandlersEnd, At, AtRisk, orderVars, moneyVars,
     externalVars
<1>4. ASSUME NEW w \in Workers, Crash(w) PROVE HandlersEnd'
  BY <1>4 DEF Crash, Rest, IInv, TypeOK, Parts, Reserved, Cancelling, AtSupplier, StagesBegun,
     HandlersEnd, At, AtRisk, orderVars, moneyVars, externalVars
<1>5. ASSUME CancelEffect, UNCHANGED task,
             \A w \in Workers : pc'[w] \in {pc[w], "ok"}
      PROVE  HandlersEnd'
  <2>1. CASE CancelAgain
    BY <1>5, <2>1 DEF CancelAgain, Rollback, orderVars, moneyVars, IInv, TypeOK, Parts,
       Reserved, Cancelling, AtSupplier, StagesBegun, HandlersEnd, At, AtRisk
  <2>2. CASE CancelExposed
    BY <1>5, <2>2 DEF CancelExposed, Exposed, Review, moneyVars, IInv, TypeOK, Parts,
       Reserved, Cancelling, AtSupplier, StagesBegun, HandlersEnd, At, AtRisk
  <2>3. CASE CancelAtSupplier
    BY <1>5, <2>3 DEF CancelAtSupplier, Exposed, Review, Enqueue, Enqueued, IInv, TypeOK,
       Parts, Reserved, Cancelling, AtSupplier, StagesBegun, HandlersEnd, At, AtRisk
  <2>4. CASE CancelLocally
    BY <1>5, <2>4 DEF CancelLocally, Exposed, IInv, TypeOK, Parts, Reserved, Cancelling,
       AtSupplier, StagesBegun, HandlersEnd, At, AtRisk
  <2>. QED
    BY <1>5, <2>1, <2>2, <2>3, <2>4 DEF CancelEffect
<1>6. CASE OperatorCancel
  BY <1>5, <1>6 DEF OperatorCancel, workerVars
<1>7. CASE CustomerCancels
  BY <1>7 DEF CustomerCancels, IInv, TypeOK, Parts, Reserved, Cancelling, AtSupplier,
     StagesBegun, HandlersEnd, At, AtRisk, orderVars, moneyVars, workerVars
<1>8. CASE ApprovePayment
  BY <1>8 DEF ApprovePayment, Enqueue, Enqueued, IInv, TypeOK, Parts, Reserved, Cancelling,
     AtSupplier, StagesBegun, HandlersEnd, At, AtRisk, orderVars, externalVars, workerVars
<1>9. ASSUME NEW w \in Workers, ReadOrder(w) \/ FetchOrder(w) PROVE HandlersEnd'
  BY <1>9 DEF ReadOrder, FetchOrder, GoTo, IInv, TypeOK, Parts, Reserved, Cancelling,
     AtSupplier, StagesBegun, HandlersEnd, At, AtRisk, orderVars, moneyVars, externalVars
<1>10. ASSUME NEW w \in Workers, Withdraw(w) PROVE HandlersEnd'
  <2>1. UNCHANGED task /\ \A x \in Workers : pc'[x] \in {pc[x], "ok"}
    BY <1>10 DEF Withdraw, GoTo, IInv, TypeOK
  <2>. QED
    BY <1>5, <1>10, <2>1 DEF Withdraw
<1>11. ASSUME NEW w \in Workers, ValidateReceived(w) PROVE HandlersEnd'
  BY <1>11 DEF ValidateReceived, Rollback, ValidationPasses, ValidationHolds,
     NoBusinessEffects, Hold, HoldExempt, Review, Enqueue, Enqueued, GoTo, IInv, TypeOK,
     Parts, Reserved, Cancelling, AtSupplier, StagesBegun, HandlersEnd, At, AtRisk, orderVars,
     moneyVars, externalVars
<1>12. ASSUME NEW w \in Workers, SubmitSupplier(w) PROVE HandlersEnd'
  <2>1. cancelRequested /\ supplierOrder = "SENDING" =>
          "CANCELLATION_AFTER_SUPPLIER_ORDER" \in reviews
    BY DEF AtSupplier, StagesBegun, AtRisk
  <2>2. cancelRequested => supplierOrder # "PENDING"
    BY DEF StagesBegun
  <2>3. /\ task' = task /\ \A x \in Workers \ {w} : pc'[x] = pc[x]
        /\ task[w] = "supplier.submit" /\ pc'[w] # "read"
        /\ UNCHANGED <<payment, approved>> /\ reviews \subseteq reviews'
        /\ state' = state \/ state' # "RECEIVED"
    BY <1>12 DEF SubmitSupplier, Rollback, Hold, Review, GoTo, At, IInv, TypeOK, orderVars, moneyVars
  <2>4. /\ supplierOrder' \in {"PENDING", "SENDING"} => supplierOrder \in {"PENDING", "SENDING"}
        /\ pc'[w] = "ok" /\ supplierOrder' \in {"PENDING", "SENDING"} =>
             cancelRequested \/ "ORDER_HELD" \in reviews'
    <3>1. supplierOrder # "NONE"
      BY <2>3 DEF IInv, Parts, Reserved
    <3>. QED
      BY <1>12, <3>1 DEF SubmitSupplier, Rollback, Hold, Review, GoTo, IInv, TypeOK,
         SupplierOrderStatus
  <2>. QED
    BY <2>1, <2>2, <2>3, <2>4 DEF HandlersEnd, At
<1>13. ASSUME NEW w \in Workers, NEW kind \in JobKind, NEW operation, CallSupplier(w, kind, operation)
       PROVE  HandlersEnd'
  BY <1>13 DEF CallSupplier, GoTo, IInv, TypeOK, Parts, Reserved, Cancelling, AtSupplier,
     StagesBegun, HandlersEnd, At, AtRisk, orderVars, moneyVars
<1>14. ASSUME NEW w \in Workers, RecordSupplierOrder(w) PROVE HandlersEnd'
  BY <1>14 DEF RecordSupplierOrder, PreparePayment, Rollback, Review, Enqueue, Enqueued, GoTo,
     IInv, TypeOK, Parts, Reserved, Cancelling, AtSupplier, StagesBegun, HandlersEnd, At,
     AtRisk, orderVars, moneyVars, externalVars
<1>15. ASSUME NEW w \in Workers, RecordSupplierCancel(w) PROVE HandlersEnd'
  BY <1>15 DEF RecordSupplierCancel, Exposed, Rollback, Review, GoTo, IInv, TypeOK, Parts,
     Reserved, Cancelling, AtSupplier, StagesBegun, HandlersEnd, At, AtRisk, orderVars,
     moneyVars, externalVars
<1>16. ASSUME NEW w \in Workers, ExecutePayment(w) PROVE HandlersEnd'
  BY <1>16 DEF ExecutePayment, Rollback, Hold, HoldExempt, Review, GoTo, IInv, TypeOK, Parts,
     Reserved, Cancelling, AtSupplier, StagesBegun, HandlersEnd, At, AtRisk, orderVars,
     moneyVars, externalVars
<1>17. ASSUME NEW w \in Workers, CallProvider(w) \/ RecordUnknown(w) PROVE HandlersEnd'
  BY <1>17 DEF CallProvider, RecordUnknown, Review, GoTo, IInv, TypeOK, Parts, Reserved,
     Cancelling, AtSupplier, StagesBegun, HandlersEnd, At, AtRisk, orderVars, moneyVars,
     externalVars
<1>18. ASSUME NEW w \in Workers, FinalizePayment(w) PROVE HandlersEnd'
  BY <1>18 DEF FinalizePayment, FinalizeEffect, CanFinalize, Rollback, Review, GoTo, IInv,
     TypeOK, Parts, Reserved, Cancelling, AtSupplier, StagesBegun, HandlersEnd, At, AtRisk,
     orderVars, moneyVars, externalVars
<1>19. ASSUME NEW a \in Admins, ReconcileStart(a) \/ ReconcileLookup(a) \/ ReconcileConfirm(a)
       PROVE  HandlersEnd'
  BY <1>19 DEF ReconcileStart, ReconcileLookup, ReconcileConfirm, FinalizeEffect, CanFinalize,
     Rollback, Review, IInv, TypeOK, Parts, Reserved, Cancelling, AtSupplier, StagesBegun,
     HandlersEnd, At, AtRisk, orderVars, moneyVars, externalVars, workerVars
<1>20. CASE UNCHANGED vars
  BY <1>20 DEF vars, IInv, TypeOK, Parts, Reserved, Cancelling, AtSupplier, StagesBegun,
     HandlersEnd, At, AtRisk, orderVars, moneyVars, externalVars, workerVars
<1>. QED
  BY <1>1, <1>2, <1>3, <1>4, <1>6, <1>7, <1>8, <1>9, <1>10, <1>11, <1>12, <1>13, <1>14, <1>15,
     <1>16, <1>17, <1>18, <1>19, <1>20 DEF Next, WorkerStep, TakeJob, HumanStep, JobKind

\* No step leaves a stage behind.
LEMMA StageIsPursuedNext == IInv /\ CInv /\ [Next]_vars => StageIsPursued'
<1>. SUFFICES ASSUME IInv, CInv, [Next]_vars PROVE StageIsPursued'
  OBVIOUS
<1>1. ASSUME NEW w \in Workers, NEW k \in JobKind, Claim(w, k) PROVE StageIsPursued'
  BY <1>1 DEF Claim, Claimed, Claimable, FirstPosition, IInv, TypeOK, CInv, Parts,
     HaltIsReported, Reserved, Cancelling, StagesBegun, HandlersEnd, StageIsPursued, Pursued,
     ApprovedInVain, At, AtRisk, JobKind, JobRow, orderVars, workerVars, moneyVars,
     externalVars
<1>2. ASSUME NEW w \in Workers, NEW k \in JobKind, Bury(w, k) PROVE StageIsPursued'
  BY <1>2 DEF Bury, Exhausted, Claimable, Review, IInv, TypeOK, CInv, Parts, HaltIsReported,
     Reserved, Cancelling, StagesBegun, HandlersEnd, StageIsPursued, Pursued, ApprovedInVain,
     At, AtRisk, JobKind, JobRow, orderVars, moneyVars, externalVars, workerVars
<1>3. ASSUME NEW w \in Workers, Complete(w) PROVE StageIsPursued'
  BY <1>3 DEF Complete, Completed, Outcome, Rest, Review, IInv, TypeOK, CInv, Parts,
     HaltIsReported, Reserved, Cancelling, StagesBegun, HandlersEnd, StageIsPursued, Pursued,
     ApprovedInVain, At, AtRisk, JobKind, JobRow, orderVars, moneyVars, externalVars
<1>4. ASSUME NEW w \in Workers, Crash(w) PROVE StageIsPursued'
  BY <1>4 DEF Crash, Rest, IInv, TypeOK, CInv, Parts, HaltIsReported, Reserved, Cancelling,
     StagesBegun, HandlersEnd, StageIsPursued, Pursued, ApprovedInVain, At, AtRisk, JobKind,
     JobRow, orderVars, moneyVars, externalVars
<1>5. ASSUME CancelEffect
      PROVE  StageIsPursued'
  <2>1. CASE CancelAgain
    BY <1>5, <2>1 DEF CancelAgain, Rollback, orderVars, moneyVars, IInv, TypeOK, CInv, Parts,
       HaltIsReported, Reserved, Cancelling, StagesBegun, HandlersEnd, StageIsPursued,
       Pursued, ApprovedInVain, At, AtRisk, JobKind, JobRow, AtSupplier
  <2>2. CASE CancelExposed
    BY <1>5, <2>2 DEF CancelExposed, Exposed, Review, moneyVars, IInv, TypeOK, CInv, Parts,
       HaltIsReported, Reserved, Cancelling, StagesBegun, HandlersEnd, StageIsPursued,
       Pursued, ApprovedInVain, At, AtRisk, JobKind, JobRow, AtSupplier
  <2>3. CASE CancelAtSupplier
    BY <1>5, <2>3 DEF CancelAtSupplier, Exposed, Review, Enqueue, Enqueued, IInv, TypeOK,
       CInv, Parts, HaltIsReported, Reserved, Cancelling, StagesBegun, HandlersEnd,
       StageIsPursued, Pursued, ApprovedInVain, At, AtRisk, JobKind, JobRow, AtSupplier
  <2>4. CASE CancelLocally
    BY <1>5, <2>4 DEF CancelLocally, Exposed, IInv, TypeOK, CInv, Parts, HaltIsReported,
       Reserved, Cancelling, StagesBegun, HandlersEnd, StageIsPursued, Pursued,
       ApprovedInVain, At, AtRisk, JobKind, JobRow, AtSupplier
  <2>. QED
    BY <1>5, <2>1, <2>2, <2>3, <2>4 DEF CancelEffect
<1>6. CASE OperatorCancel
  BY <1>5, <1>6 DEF OperatorCancel, At, externalVars, workerVars
<1>7. CASE CustomerCancels
  BY <1>7 DEF CustomerCancels, IInv, TypeOK, CInv, Parts, HaltIsReported, Reserved,
     Cancelling, StagesBegun, HandlersEnd, StageIsPursued, Pursued, ApprovedInVain, At,
     AtRisk, JobKind, JobRow, orderVars, moneyVars, workerVars
<1>8. CASE ApprovePayment
  <2>1. /\ payment = "MANUAL_APPROVAL" /\ payment' = "PENDING" /\ approved' = TRUE
        /\ UNCHANGED <<state, supplierOrder>> /\ reviews' = reviews \ {"PAYMENT_APPROVAL"}
        /\ jobs' = [jobs EXCEPT !["payment.execute"] = Enqueued(@)]
    BY <1>8 DEF ApprovePayment, Enqueue, orderVars
  <2>2. /\ jobs["payment.execute"].status \in JobStatus
        /\ jobs'["payment.execute"].status =
             IF jobs["payment.execute"].status = "NONE" THEN "PENDING"
             ELSE jobs["payment.execute"].status
        /\ \A k \in JobKind \ {"payment.execute"} : jobs'[k] = jobs[k]
    BY <2>1 DEF Enqueued, IInv, TypeOK, JobKind, JobRow
  <2>3. jobs["payment.execute"].status = "DEAD" => "payment.execute" \in reviews
    BY DEF IInv, Parts, HaltIsReported, JobKind
  <2>4. Pursued("payment.execute")' \/ ApprovedInVain'
    BY <2>1, <2>2, <2>3 DEF Pursued, ApprovedInVain, JobStatus
  <2>. QED
    BY <2>1, <2>2, <2>4 DEF CInv, StageIsPursued, Pursued, JobKind
<1>9. ASSUME NEW w \in Workers, ReadOrder(w) \/ FetchOrder(w) PROVE StageIsPursued'
  BY <1>9 DEF ReadOrder, FetchOrder, GoTo, IInv, TypeOK, CInv, Parts, HaltIsReported,
     Reserved, Cancelling, StagesBegun, HandlersEnd, StageIsPursued, Pursued, ApprovedInVain,
     At, AtRisk, JobKind, JobRow, orderVars, moneyVars, externalVars
<1>10. ASSUME NEW w \in Workers, Withdraw(w) PROVE StageIsPursued'
  BY <1>5, <1>10 DEF Withdraw, GoTo, At, externalVars
<1>11. ASSUME NEW w \in Workers, ValidateReceived(w) PROVE StageIsPursued'
  BY <1>11 DEF ValidateReceived, Rollback, ValidationPasses, ValidationHolds,
     NoBusinessEffects, Hold, HoldExempt, Review, Enqueue, Enqueued, GoTo, IInv, TypeOK, CInv,
     Parts, HaltIsReported, Reserved, Cancelling, StagesBegun, HandlersEnd, StageIsPursued,
     Pursued, ApprovedInVain, At, AtRisk, JobKind, JobRow, orderVars, moneyVars, externalVars
<1>12. ASSUME NEW w \in Workers, SubmitSupplier(w) PROVE StageIsPursued'
  <2>1. supplierOrder # "NONE" /\ (cancelRequested => supplierOrder # "PENDING")
    BY <1>12 DEF SubmitSupplier, At, IInv, Parts, Reserved, CInv, StagesBegun
  <2>2. /\ UNCHANGED payment /\ UNCHANGED approved /\ reviews \subseteq reviews'
        /\ state' = state \/ state' # "RECEIVED"
        /\ \A k \in {"order.process", "supplier.submit", "payment.execute"} : jobs'[k] = jobs[k]
    BY <1>12 DEF SubmitSupplier, Rollback, Hold, Review, Enqueue, orderVars, moneyVars, IInv,
       TypeOK, JobKind
  <2>3. \/ supplierOrder' = supplierOrder
        \/ supplierOrder \in {"PENDING", "SENDING"} /\ supplierOrder' = "SENDING"
    BY <1>12, <2>1 DEF SubmitSupplier, Rollback, IInv, TypeOK, SupplierOrderStatus
  <2>. QED
    BY <2>2, <2>3 DEF CInv, StageIsPursued, Pursued, ApprovedInVain
<1>13. ASSUME NEW w \in Workers, NEW kind \in JobKind, NEW operation, CallSupplier(w, kind, operation)
       PROVE  StageIsPursued'
  BY <1>13 DEF CallSupplier, GoTo, IInv, TypeOK, CInv, Parts, HaltIsReported, Reserved,
     Cancelling, StagesBegun, HandlersEnd, StageIsPursued, Pursued, ApprovedInVain, At,
     AtRisk, JobKind, JobRow, orderVars, moneyVars
<1>14. ASSUME NEW w \in Workers, RecordSupplierOrder(w) PROVE StageIsPursued'
  <2>1. /\ UNCHANGED approved /\ reviews \subseteq reviews'
        /\ state' = state \/ state' # "RECEIVED"
        /\ \A k \in {"order.process", "supplier.submit"} : jobs'[k] = jobs[k]
    BY <1>14 DEF RecordSupplierOrder, PreparePayment, Rollback, Review, Enqueue, orderVars,
       moneyVars, IInv, TypeOK, JobKind
  <2>2. \/ payment' = payment /\ jobs'["payment.execute"] = jobs["payment.execute"]
        \/ payment' = "MANUAL_APPROVAL"
        \/ payment' = "PENDING" /\ jobs'["payment.execute"].status = "PENDING"
    BY <1>14 DEF RecordSupplierOrder, PreparePayment, Rollback, Enqueue, Enqueued, moneyVars, IInv,
       TypeOK, JobKind, JobRow, CInv, StagesBegun
  <2>3. \/ supplierOrder' = supplierOrder /\ payment' = payment
        \/ /\ supplierOrder' = "ACCEPTED"
           /\ \/ payment' \notin {"NONE", "CANCELLED"} \/ "ORDER_HELD" \in reviews'
              \/ cancelRequested /\ payment' = payment
    BY <1>14 DEF RecordSupplierOrder, PreparePayment, Rollback, Review, moneyVars, CInv, StagesBegun
  <2>4. supplierOrder' = "ACCEPTED" /\ cancelRequested /\ payment' = payment
          /\ payment \in {"NONE", "CANCELLED"} => "CANCELLATION_AFTER_SUPPLIER_ORDER" \in reviews
    <3>1. Submitting(w)
      BY <1>14 DEF RecordSupplierOrder, At, Submitting
    <3>. QED
      BY <3>1 DEF CInv, AtSupplier, CancellationConfirmed, AtRisk
  <2>. QED
    BY <2>1, <2>2, <2>3, <2>4 DEF CInv, StageIsPursued, Pursued, ApprovedInVain
<1>15. ASSUME NEW w \in Workers, RecordSupplierCancel(w) PROVE StageIsPursued'
  BY <1>15 DEF RecordSupplierCancel, Exposed, Rollback, Review, GoTo, IInv, TypeOK, CInv,
     Parts, HaltIsReported, Reserved, Cancelling, StagesBegun, HandlersEnd, StageIsPursued,
     Pursued, ApprovedInVain, At, AtRisk, JobKind, JobRow, orderVars, moneyVars, externalVars
<1>16. ASSUME NEW w \in Workers, ExecutePayment(w) PROVE StageIsPursued'
  BY <1>16 DEF ExecutePayment, Rollback, Hold, HoldExempt, Review, GoTo, IInv, TypeOK, CInv,
     Parts, HaltIsReported, Reserved, Cancelling, StagesBegun, HandlersEnd, StageIsPursued,
     Pursued, ApprovedInVain, At, AtRisk, JobKind, JobRow, orderVars, moneyVars, externalVars
<1>17. ASSUME NEW w \in Workers, CallProvider(w) \/ RecordUnknown(w) PROVE StageIsPursued'
  BY <1>17 DEF CallProvider, RecordUnknown, Review, GoTo, IInv, TypeOK, CInv, Parts,
     HaltIsReported, Reserved, Cancelling, StagesBegun, HandlersEnd, StageIsPursued, Pursued,
     ApprovedInVain, At, AtRisk, JobKind, JobRow, orderVars, moneyVars, externalVars
<1>18. ASSUME NEW w \in Workers, FinalizePayment(w) PROVE StageIsPursued'
  BY <1>18 DEF FinalizePayment, FinalizeEffect, CanFinalize, Rollback, Review, GoTo, IInv,
     TypeOK, CInv, Parts, HaltIsReported, Reserved, Cancelling, StagesBegun, HandlersEnd,
     StageIsPursued, Pursued, ApprovedInVain, At, AtRisk, JobKind, JobRow, orderVars,
     moneyVars, externalVars
<1>19. ASSUME NEW a \in Admins, ReconcileStart(a) \/ ReconcileLookup(a) \/ ReconcileConfirm(a)
       PROVE  StageIsPursued'
  BY <1>19 DEF ReconcileStart, ReconcileLookup, ReconcileConfirm, FinalizeEffect, CanFinalize,
     Rollback, Review, IInv, TypeOK, CInv, Parts, HaltIsReported, Reserved, Cancelling,
     StagesBegun, HandlersEnd, StageIsPursued, Pursued, ApprovedInVain, At, AtRisk, JobKind,
     JobRow, orderVars, moneyVars, externalVars, workerVars
<1>20. CASE UNCHANGED vars
  BY <1>20 DEF vars, IInv, TypeOK, CInv, Parts, HaltIsReported, Reserved, Cancelling,
     StagesBegun, HandlersEnd, StageIsPursued, Pursued, ApprovedInVain, At, AtRisk, JobKind,
     JobRow, orderVars, moneyVars, externalVars, workerVars
<1>. QED
  BY <1>1, <1>2, <1>3, <1>4, <1>6, <1>7, <1>8, <1>9, <1>10, <1>11, <1>12, <1>13, <1>14, <1>15,
     <1>16, <1>17, <1>18, <1>19, <1>20 DEF Next, WorkerStep, TakeJob, HumanStep, JobKind

\* An order that has just been ingested satisfies it, and no step breaks it.
THEOREM CarriedOn == Spec => [](IInv /\ CInv)
<1>1. Init => CInv
  BY DEF Init, CInv, AtSupplier, Submitting, StagesBegun, HandlersEnd, StageIsPursued, Pursued, At,
     AtRisk, JobKind, NoJob, Enqueued
<1>2. IInv /\ CInv /\ [Next]_vars => CInv'
  BY AtSupplierNext, StagesBegunNext, HandlersEndNext, StageIsPursuedNext DEF CInv
<1>. QED
  BY <1>1, <1>2, Invariant, PTL DEF Spec

-----------------------------------------------------------------------------
(* What follows *)

\* The provider is asked to pay at most once, for any number of workers, lease
\* expiries, crashes, timeouts and reconciliations.
THEOREM PaysOnce == Spec => []AtMostOnePaymentRequest
<1>1. IInv => AtMostOnePaymentRequest
  BY DEF IInv, Parts, OneDispatch, AtMostOnePaymentRequest
<1>. QED
  BY <1>1, Invariant, PTL

\* Money that has moved stays visible as exposure over reserved or spent cash.
THEOREM MovedMoneyStaysVisible == Spec => []MovedMoneyIsVisible
<1>1. IInv => MovedMoneyIsVisible
  BY DEF IInv, Parts, ReceiptsKnown, Reserved, MovedMoneyIsVisible, Paid, AtRisk
<1>. QED
  BY <1>1, Invariant, PTL

\* The journal never precedes the provider's receipt.
THEOREM LedgerIsHonest == Spec => []LedgerFollowsMoney
<1>1. IInv => LedgerFollowsMoney
  BY DEF IInv, Parts, Books, LedgerFollowsMoney, Paid
<1>. QED
  BY <1>1, Invariant, PTL

\* A CANCELLED order has no cash tied up, no live payment and no money out.
THEOREM CancellationIsClean == Spec => []CancelledOwesNothing
<1>1. IInv => CancelledOwesNothing
  BY DEF IInv, Parts, ReceiptsKnown, Cancelling, CancelledOwesNothing, Paid, AtRisk
<1>. QED
  BY <1>1, Invariant, PTL

\* What may still be paid is covered by cash, and so is what a supplier may be working on,
\* before and after a cancellation; only an acceptance that arrives after the supplier's own
\* cancellation (submit_supplier's last transaction) is not, and the review of the
\* cancellation is open over it.
THEOREM CommitmentsAreCovered == Spec => []CommitmentIsReserved
<1>1. IInv /\ CInv => CommitmentIsReserved
  BY DEF IInv, Parts, Reserved, CInv, AtSupplier, CommitmentIsReserved
<1>. QED
  BY <1>1, CarriedOn, PTL

\* Whichever of cancellation, supplier's answer and payment comes last, a cancelled order
\* holds no cash and no other order lacks it (cancel, submit_supplier, prepare_payment,
\* cancel_supplier); the late acceptance is the exception.
THEOREM ReservationsFollow == Spec => []ReservationFollowsOrder
<1>1. CancelledOwesNothing /\ CommitmentIsReserved => ReservationFollowsOrder
  BY DEF ReservationFollowsOrder
<1>. QED
  BY <1>1, CancellationIsClean, CommitmentsAreCovered, PTL

\* Nobody is paid for an order he was not sent.
THEOREM PaymentsFollowOrders == Spec => []PaidOnlyWhatWasOrdered
<1>1. IInv => PaidOnlyWhatWasOrdered
  BY DEF IInv, Parts, ReceiptsKnown, Ordered, PaidOnlyWhatWasOrdered, Paid, AtRisk
<1>. QED
  BY <1>1, Invariant, PTL

\* Every halt of the order, dead jobs included, has an open review, and every stage before
\* the payment's answer is in a live job or in front of a person, but for a payment that
\* approve_payment has set PENDING over a job that is DONE (enqueue returns the old row).
THEOREM HaltsAreReviewed == Spec => []NothingWaitsSilently
<1>1. IInv /\ CInv => NothingWaitsSilently
  BY DEF IInv, Parts, CInv, NothingWaitsSilently
<1>. QED
  BY <1>1, CarriedOn, PTL

-----------------------------------------------------------------------------
(* What a step may never do, and the refinement *)

\* What a step may do to the money: nothing, or one of five things.
Keeps == /\ reservation' = reservation /\ (Paid' <=> Paid)
         /\ payment' \in AtRisk <=> payment \in AtRisk
Reserves == /\ reservation = "NONE" /\ reservation' = "HELD"
            /\ payment \notin AtRisk /\ payment' \notin AtRisk /\ (Paid' <=> Paid)
Releases == /\ reservation = "HELD" /\ reservation' = "RELEASED"
            /\ payment \notin AtRisk /\ payment' \notin AtRisk /\ (Paid' <=> Paid)
Dispatches == /\ reservation = "HELD" /\ reservation' = "HELD" /\ ~cancelRequested
              /\ payment \notin AtRisk /\ payment' \in AtRisk /\ (Paid' <=> Paid)
Transfers == /\ reservation = "HELD" /\ reservation' = "HELD"
             /\ payment \in AtRisk /\ payment' \in AtRisk /\ ~Paid /\ Paid'
Settles == /\ reservation = "HELD" /\ reservation' = "SPENT"
           /\ payment \in AtRisk /\ payment' \in AtRisk /\ Paid /\ Paid'
Moves == Keeps \/ Reserves \/ Releases \/ Dispatches \/ Transfers \/ Settles

\* Every step is one of the six moves as far as the money is concerned.
LEMMA MoneySteps == IInv /\ [Next]_vars => Moves
<1>. SUFFICES ASSUME IInv, [Next]_vars PROVE Moves
  OBVIOUS
<1>1. ASSUME NEW w \in Workers, NEW k \in JobKind, Claim(w, k) PROVE Moves
  BY <1>1 DEF Claim, moneyVars, externalVars, Moves, Keeps, Paid, AtRisk
<1>2. ASSUME NEW w \in Workers, NEW k \in JobKind, Bury(w, k) PROVE Moves
  BY <1>2 DEF Bury, moneyVars, externalVars, Moves, Keeps, Paid, AtRisk
<1>3. ASSUME NEW w \in Workers, Complete(w) PROVE Moves
  BY <1>3 DEF Complete, moneyVars, externalVars, Moves, Keeps, Paid, AtRisk
<1>4. ASSUME NEW w \in Workers, Crash(w) PROVE Moves
  BY <1>4 DEF Crash, moneyVars, externalVars, Moves, Keeps, Paid, AtRisk
<1>5. CASE OperatorCancel
  BY <1>5 DEF IInv, Parts, Books, Reserved, OperatorCancel, CancelEffect, CancelAgain,
     CancelExposed, CancelAtSupplier, CancelLocally, Released, Exposed, Rollback,
     externalVars, moneyVars, Moves, Keeps, Releases, Paid, AtRisk
<1>6. CASE CustomerCancels
  BY <1>6 DEF CustomerCancels, moneyVars, Moves, Keeps, Paid, AtRisk
<1>7. ASSUME NEW w \in Workers, ReadOrder(w) \/ FetchOrder(w) PROVE Moves
  BY <1>7 DEF ReadOrder, FetchOrder, moneyVars, externalVars, Moves, Keeps, Paid, AtRisk
<1>8. ASSUME NEW w \in Workers, Withdraw(w) PROVE Moves
  BY <1>8 DEF IInv, Parts, Books, Reserved, Withdraw, CancelEffect, CancelAgain,
     CancelExposed, CancelAtSupplier, CancelLocally, Released, Exposed, Rollback,
     externalVars, moneyVars, Moves, Keeps, Releases, Paid, AtRisk
<1>9. ASSUME NEW w \in Workers, ValidateReceived(w) PROVE Moves
  BY <1>9 DEF ValidateReceived, Rollback, ValidationPasses, ValidationHolds,
     NoBusinessEffects, moneyVars, externalVars, Moves, Keeps, Reserves, Paid, AtRisk
<1>10. ASSUME NEW w \in Workers, SubmitSupplier(w) PROVE Moves
  BY <1>10 DEF SubmitSupplier, Rollback, moneyVars, externalVars, Moves, Keeps, Paid,
     AtRisk
<1>11. ASSUME NEW w \in Workers, CallSupplier(w, "supplier.submit", "create_orders") PROVE Moves
  BY <1>11 DEF CallSupplier, moneyVars, Moves, Keeps, Paid, AtRisk
<1>12. ASSUME NEW w \in Workers, CallSupplier(w, "supplier.cancel", "cancel_order") PROVE Moves
  BY <1>12 DEF CallSupplier, moneyVars, Moves, Keeps, Paid, AtRisk
<1>13. ASSUME NEW w \in Workers, RecordSupplierOrder(w) PROVE Moves
  BY <1>13 DEF RecordSupplierOrder, PreparePayment, Rollback, moneyVars, externalVars,
     Moves, Keeps, Paid, AtRisk
<1>14. ASSUME NEW w \in Workers, RecordSupplierCancel(w) PROVE Moves
  BY <1>14 DEF RecordSupplierCancel, Exposed, Released, Rollback, moneyVars,
     externalVars, Moves, Keeps, Releases, Paid, AtRisk
<1>15. ASSUME NEW w \in Workers, ExecutePayment(w) PROVE Moves
  BY <1>15 DEF IInv, Parts, Reserved, Books, ExecutePayment, Rollback, moneyVars,
     externalVars, Moves, Keeps, Dispatches, Paid, AtRisk
<1>16. ASSUME NEW w \in Workers, CallProvider(w) PROVE Moves
  BY <1>16 DEF IInv, Parts, OneDispatch, ReceiptsKnown, Books, Reserved, Paying, At,
     CallProvider, moneyVars, Moves, Keeps, Transfers, Paid, AtRisk
<1>17. ASSUME NEW w \in Workers, RecordUnknown(w) PROVE Moves
  BY <1>17 DEF IInv, Parts, OneDispatch, Paying, At, RecordUnknown, externalVars, Moves,
     Keeps, Paid, AtRisk
<1>18. ASSUME NEW w \in Workers, FinalizePayment(w) PROVE Moves
  BY <1>18 DEF IInv, Parts, ReceiptsKnown, At, FinalizePayment, FinalizeEffect,
     CanFinalize, Rollback, moneyVars, externalVars, Moves, Keeps, Settles, Paid, AtRisk
<1>19. CASE ApprovePayment
  BY <1>19 DEF ApprovePayment, externalVars, Moves, Keeps, Paid, AtRisk
<1>20. ASSUME NEW a \in Admins, ReconcileStart(a) \/ ReconcileLookup(a) PROVE Moves
  BY <1>20 DEF ReconcileStart, ReconcileLookup, Exposed, moneyVars, externalVars, Moves,
     Keeps, Paid, AtRisk
<1>21. ASSUME NEW a \in Admins, ReconcileConfirm(a) PROVE Moves
  BY <1>21 DEF IInv, Parts, ReceiptsKnown, ReconcileConfirm, FinalizeEffect,
     CanFinalize, Rollback, moneyVars, externalVars, Moves, Keeps, Settles, Paid, AtRisk
<1>22. CASE UNCHANGED vars
  BY <1>22 DEF vars, moneyVars, externalVars, Moves, Keeps, Paid, AtRisk
<1>. QED
  BY <1>1, <1>2, <1>3, <1>4, <1>5, <1>6, <1>7, <1>8, <1>9, <1>10, <1>11, <1>12, <1>13, <1>14, <1>15, <1>16, <1>17, <1>18, <1>19, <1>20, <1>21, <1>22
  DEF Next, WorkerStep, TakeJob, HumanStep

\* Once a cancellation is recorded, no step dispatches money that was not yet out.
THEOREM CancellationStopsMoney == Spec => CancellationStopsUnsentMoney
<1>1. IInv /\ [Next]_vars => (cancelRequested /\ payment \notin AtRisk => payment' \notin AtRisk)
  BY MoneySteps DEF Moves, Keeps, Reserves, Releases, Dispatches, Transfers, Settles
<1>. QED
  BY <1>1, Invariant, PTL DEF Spec, CancellationStopsUnsentMoney

\* No step withdraws exposure or frees the cash behind it.
THEOREM ExposureStays == Spec => ExposureIsIrrevocable
<1>1. IInv /\ [Next]_vars =>
        ((payment \in AtRisk) => (payment' \in AtRisk) /\ reservation' # "RELEASED")
  <2>. SUFFICES ASSUME IInv, Moves, payment \in AtRisk
                PROVE  payment' \in AtRisk /\ reservation' # "RELEASED"
    BY MoneySteps
  <2>1. reservation \in {"HELD", "SPENT"}
    BY DEF IInv, Parts, Reserved, AtRisk
  <2>. QED
    BY <2>1 DEF Moves, Keeps, Reserves, Releases, Dispatches, Transfers, Settles
<1>. QED
  BY <1>1, Invariant, PTL DEF Spec, ExposureIsIrrevocable

\* The order's books implement MoneyMovement: cash is set aside once, given back
\* or sent out, moved once by the provider and booked after that.
THEOREM Refinement == Spec => MoneySpec
<1>1. Init => Money!Init
  BY DEF Init, Money!Init, Stage, AtRisk
<1>2. IInv /\ [Next]_vars => [Money!Next]_<<Stage, "pay_supplier" \in receipts>>
  <2>. SUFFICES ASSUME IInv, Moves
                PROVE  Money!Next \/ (UNCHANGED Stage /\ UNCHANGED ("pay_supplier" \in receipts))
    BY MoneySteps
  <2>0. /\ reservation = "SPENT" => payment \in AtRisk
        /\ payment \in AtRisk => reservation \in {"HELD", "SPENT"}
        /\ reservation \in ReservationStatus
    BY DEF IInv, Parts, Books, Reserved, TypeOK, AtRisk
  <2>1. CASE Keeps
    BY <2>1 DEF Keeps, Stage, Paid
  <2>2. CASE Reserves
    BY <2>2 DEF Reserves, Stage, Paid, Money!Next, Money!Commit
  <2>3. CASE Releases
    BY <2>3 DEF Releases, Stage, Paid, Money!Next, Money!GiveBack
  <2>4. CASE Dispatches
    BY <2>4 DEF Dispatches, Stage, Paid, Money!Next, Money!Dispatch
  <2>5. CASE Transfers
    BY <2>5 DEF Transfers, Stage, Paid, Money!Next, Money!Transfer
  <2>6. CASE Settles
    BY <2>6 DEF Settles, Stage, Paid, Money!Next, Money!Settle
  <2>. QED
    BY <2>1, <2>2, <2>3, <2>4, <2>5, <2>6 DEF Moves
<1>. QED
  BY <1>1, <1>2, Invariant, PTL DEF Spec, MoneySpec, Money!Spec
=============================================================================
