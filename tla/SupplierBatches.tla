--------------------------- MODULE SupplierBatches ---------------------------
(***************************************************************************)
(* The manual hand-off to Excel suppliers:                                 *)
(* packages/application/supplier_operations.py, with the payment and       *)
(* shipment steps of commerce.py that an Excel line goes through.          *)
(*                                                                         *)
(* A line is one order with its supplier order, reservation, payment,      *)
(* cancellation request, and its item in the batch that is active for it.  *)
(* Every command takes the treasury lock first and is one transaction, so  *)
(* it is one action; operators, administrators, the supplier and the       *)
(* payment provider act in any order. What a command reads of the world    *)
(* beside its lines (cash, price, stock, cut-off, address, daily limit) is *)
(* an open check: it may fail whenever it is made.                         *)
(***************************************************************************)
EXTENDS OrderStates, FiniteSets

CONSTANTS Lines,      \* orders for one Excel supplier
          Batches,    \* batches that may be created
          NoBatch,    \* no active item
          Large,      \* lines above the automatic payment limit
          Legacy      \* lines found without intent by migration 0002

ASSUME NoBatchAssumption == NoBatch \notin Batches
ASSUME LinesAssumption == Large \subseteq Lines /\ Legacy \subseteq Lines

VARIABLES
  line,     \* line[l]: the rows that belong to one supplier order
  batch     \* batch[b]: the batch row and its items; status NONE when there is none

vars == <<line, batch>>

SupplierOrderStatus ==
  {"PENDING", "FILE_READY", "EXPORTED", "SENT", "ACKNOWLEDGED", "PAYMENT_PENDING",
   "SHIPMENT_PENDING", "SHIPPED", "REJECTED", "CANCEL_PENDING", "CANCELLED",
   "MANUAL_REVIEW"}
PaymentStatus ==
  {"NONE", "EVIDENCE_PENDING", "MANUAL_APPROVAL", "PENDING", "SENDING", "UNKNOWN",
   "SUCCEEDED", "CANCELLED"}
RequestStatus == {"NONE", "PENDING", "CONFIRMED_LOCAL", "CONFIRMED", "FINANCIAL_REVIEW"}
AckStatus == {"NONE", "ACCEPTED", "REJECTED", "MANUAL_REVIEW"}
BatchStatus ==
  {"NONE", "FILE_READY", "EXPORTED", "SENT", "ACKNOWLEDGED", "PARTIAL", "REJECTED",
   "INVALIDATED", "CANCELLED", "CANCEL_PENDING", "RESOLVED"}
PaymentPath == {"MANUAL_EVIDENCE", "DEMO_PROVIDER"}

\* Reviews on the supplier order and on the order, then those on the payment.
BusinessReview ==
  {"LEGACY", "ACK_REQUIRED", "TERMS_CHANGED", "REJECTED", "PREPARATION_BLOCKED", "HELD",
   "CANCELLATION_REQUIRED", "FINANCIAL_REVIEW", "CANCELLATION_AFTER_PAYMENT"}
PaymentReview == {"PAYMENT_APPROVAL", "EVIDENCE", "RESULT_UNKNOWN"}

Line ==
  [so : SupplierOrderStatus,
   state : OrderState, cancel : BOOLEAN,            \* the order
   reservation : {"HELD", "SPENT", "RELEASED"},
   payment : PaymentStatus, approved : BOOLEAN,
   call : BOOLEAN,                                  \* a pay_supplier call is out
   proof : BOOLEAN,                                 \* payment evidence recorded
   request : RequestStatus,                         \* supplier_cancellations
   batch : Batches \cup {NoBatch}, ack : AckStatus, \* the active item
   frozen : BOOLEAN,                                \* an intent exists
   reviews : SUBSET (BusinessReview \cup PaymentReview)]

Batch ==
  [status : BatchStatus, path : PaymentPath, sent : BOOLEAN, acked : BOOLEAN,
   items : SUBSET Lines]

TypeOK == line \in [Lines -> Line] /\ batch \in [Batches -> Batch]

\* process_order has reserved the cash; a legacy line is one that migration 0002
\* moved to MANUAL_REVIEW while its order was still waiting for the supplier.
Init ==
  /\ line = [l \in Lines |->
       [so |-> IF l \in Legacy THEN "MANUAL_REVIEW" ELSE "PENDING",
        state |-> "SUPPLIER_ORDER_PENDING", cancel |-> FALSE,
        reservation |-> "HELD", payment |-> "NONE", approved |-> FALSE,
        call |-> FALSE, proof |-> FALSE, request |-> "NONE",
        batch |-> NoBatch, ack |-> "NONE", frozen |-> l \notin Legacy,
        reviews |-> IF l \in Legacy THEN {"LEGACY"} ELSE {"ACK_REQUIRED"}]]
  /\ batch = [b \in Batches |->
       [status |-> "NONE", path |-> "MANUAL_EVIDENCE", sent |-> FALSE,
        acked |-> FALSE, items |-> {}]]

-----------------------------------------------------------------------------
(* What the commands do to one line *)

\* The supplier states a line can go to (the graph of domain/supplier_operations;
\* BATCHED and PAID are passed through inside one transaction).
Allowed(so) ==
  CASE so = "PENDING"          -> {"FILE_READY", "CANCELLED", "MANUAL_REVIEW"}
    [] so = "FILE_READY"       -> {"EXPORTED", "SENT", "PENDING", "CANCELLED", "MANUAL_REVIEW"}
    [] so = "EXPORTED"         -> {"SENT", "PENDING", "CANCELLED", "MANUAL_REVIEW"}
    [] so = "SENT"             -> {"ACKNOWLEDGED", "REJECTED", "MANUAL_REVIEW", "CANCEL_PENDING"}
    [] so = "ACKNOWLEDGED"     -> {"PAYMENT_PENDING", "MANUAL_REVIEW", "CANCEL_PENDING"}
    [] so = "PAYMENT_PENDING"  -> {"SHIPMENT_PENDING", "MANUAL_REVIEW", "CANCEL_PENDING"}
    [] so = "SHIPMENT_PENDING" -> {"SHIPPED", "CANCEL_PENDING"}
    [] so = "SHIPPED"          -> {"CANCEL_PENDING"}
    [] so = "REJECTED"         -> {"CANCELLED"}
    [] so = "CANCEL_PENDING"   -> {"CANCELLED"}
    [] so = "CANCELLED"        -> {}
    [] so = "MANUAL_REVIEW"    -> {"ACKNOWLEDGED", "PENDING", "REJECTED", "CANCEL_PENDING",
                                   "CANCELLED"}

CanMove(so, target) == so = target \/ target \in Allowed(so)

\* Money may have left the bank, or somebody says it has.
Exposed(r) == r.proof \/ r.payment \in {"SENDING", "UNKNOWN", "SUCCEEDED"}

\* Slip: the order is parked without a review.
HoldQuietly(r, category) ==
  [r EXCEPT !.state = IF @ \in HoldExempt THEN @ ELSE "MANUAL_REVIEW"]

\* hold(): park the order and open a review of this category.
Hold(r, category) ==
  [r EXCEPT !.state = IF @ \in HoldExempt THEN @ ELSE "MANUAL_REVIEW",
            !.reviews = @ \cup {category}]

\* validate_frozen, as far as the line itself can fail it.
FrozenHolds(r) == r.frozen /\ ~r.cancel /\ r.reservation = "HELD"

\* validate_payable, for the line's active batch record bt.
Payable(r, bt) ==
  /\ r.batch # NoBatch /\ r.ack = "ACCEPTED"
  /\ bt.sent /\ bt.acked
  /\ r.so \in {"ACKNOWLEDGED", "PAYMENT_PENDING"}
  /\ r.state = "SUPPLIER_ORDERED"
  /\ FrozenHolds(r)

\* What prepare_payment may decide: an open check failed, a human must approve
\* (always, for a large line), or the payment is ready for its path.
Preparation(l) == {"blocked", "approval"} \cup (IF l \in Large THEN {} ELSE {"ready"})

ReadyFor(path) == IF path = "MANUAL_EVIDENCE" THEN "EVIDENCE_PENDING" ELSE "PENDING"

\* Slip: the automatic limit is forgotten.
PreparedUnlimited(r, path, decision) ==
  CASE decision = "blocked"  -> [Hold(r, "HELD") EXCEPT !.so = "MANUAL_REVIEW",
                                   !.reviews = @ \cup {"PREPARATION_BLOCKED"}]
    [] decision \in {"approval", "ready"} ->
         [r EXCEPT !.payment = ReadyFor(path), !.so = "PAYMENT_PENDING"]

Prepared(r, path, decision) ==
  CASE decision = "blocked"  -> [Hold(r, "HELD") EXCEPT !.so = "MANUAL_REVIEW",
                                   !.reviews = @ \cup {"PREPARATION_BLOCKED"}]
    [] decision = "approval" -> [r EXCEPT !.payment = "MANUAL_APPROVAL",
                                   !.so = "PAYMENT_PENDING",
                                   !.reviews = @ \cup {"PAYMENT_APPROVAL"}]
    [] decision = "ready"    -> [r EXCEPT !.payment = ReadyFor(path),
                                   !.so = "PAYMENT_PENDING"]

\* What the supplier says of a line; for an accepted one, how its payment is prepared.
Verdict(l) == {"changed", "rejected"} \cup Preparation(l)

\* A late answer to a line that is being cancelled only adds a review.
Acknowledged(r, path, verdict) ==
  LET heard == [r EXCEPT !.reviews = @ \ {"ACK_REQUIRED"}]
      leaving == r.so \in {"CANCEL_PENDING", "CANCELLED"}
      changed == [heard EXCEPT !.ack = "MANUAL_REVIEW", !.reviews = @ \cup {"TERMS_CHANGED"}]
      rejected == [heard EXCEPT !.ack = "REJECTED", !.reviews = @ \cup {"REJECTED"}]
      accepted == [heard EXCEPT !.ack = "ACCEPTED"]
  IN CASE verdict = "changed" /\ leaving -> changed
       [] verdict = "changed" /\ ~leaving ->
            [Hold(changed, "TERMS_CHANGED") EXCEPT !.so = "MANUAL_REVIEW"]
       [] verdict = "rejected" /\ leaving -> rejected
       [] verdict = "rejected" /\ ~leaving ->
            [Hold(rejected, "REJECTED") EXCEPT !.so = "REJECTED", !.reservation = "RELEASED"]
       [] verdict \notin {"changed", "rejected"} /\ (r.cancel \/ r.so = "CANCEL_PENDING") ->
            [accepted EXCEPT !.reviews = @ \cup {"CANCELLATION_REQUIRED"}]
       [] OTHER -> Prepared([accepted EXCEPT !.state = "SUPPLIER_ORDERED"], path, verdict)

\* release() and the payment, when nothing can have been paid.
GivenBack(r) ==
  [r EXCEPT !.reservation = "RELEASED",
            !.payment = IF @ = "NONE" THEN @ ELSE "CANCELLED",
            !.state = IF @ = "CANCEL_REQUESTED" THEN "CANCELLED" ELSE @]

\* Slip: a file that is sent but not answered counts as not sent.
CancelsLocallyUnanswered(r, sent) ==
  /\ ~sent \/ r.ack # "ACCEPTED"
  /\ ~Exposed(r) /\ r.frozen

\* The supplier need not be asked: it never got the line, or has rejected it.
CancelsLocally(r, sent) ==
  /\ ~sent \/ (r.ack = "REJECTED" /\ r.so = "REJECTED")
  /\ ~Exposed(r) /\ r.frozen

\* Slip: the item is let go although the supplier has the file.
CancelRequestedDetached(r, sent) ==
  [r EXCEPT !.cancel = TRUE, !.state = "CANCEL_REQUESTED", !.batch = NoBatch,
            !.so = "CANCEL_PENDING", !.request = "PENDING",
            !.reviews = @ \cup {"CANCELLATION_REQUIRED"}]

\* Slip: order and payment wait for the supplier's confirmation.
CancelRequestedDeferred(r, sent) ==
  [r EXCEPT !.so = "CANCEL_PENDING", !.request = "PENDING",
            !.reviews = @ \cup {"CANCELLATION_REQUIRED"}]

\* request_cancellation_in_session: the cancelled line itself.
CancelRequested(r, sent) ==
  LET asked == [r EXCEPT !.cancel = TRUE,
                  !.state = IF @ = "CANCELLED" THEN @ ELSE "CANCEL_REQUESTED",
                  !.batch = IF sent THEN @ ELSE NoBatch]
  IN IF CancelsLocally(r, sent)
     THEN [GivenBack(asked) EXCEPT !.so = "CANCELLED", !.request = "CONFIRMED_LOCAL",
             !.reviews = @ \ {"ACK_REQUIRED", "REJECTED"}]
     ELSE [asked EXCEPT !.so = IF @ = "CANCELLED" THEN @ ELSE "CANCEL_PENDING",
             !.request = "PENDING",
             !.payment = IF Exposed(r) \/ @ = "NONE" THEN @ ELSE "CANCELLED",
             !.reviews = @ \cup {"CANCELLATION_REQUIRED"}
                           \cup (IF Exposed(r) THEN {"FINANCIAL_REVIEW"} ELSE {})]

\* ... and a line whose unsent file is invalidated by it.
Survivor(r) ==
  [r EXCEPT !.batch = NoBatch,
            !.so = IF @ \in {"FILE_READY", "EXPORTED"} THEN "PENDING" ELSE @]

\* Slip: evidence that is not confirmed yet does not count as money.
CancelConfirmedUnproved(r) ==
  LET closed == [r EXCEPT !.so = "CANCELLED",
                   !.reviews = @ \ {"CANCELLATION_REQUIRED", "ACK_REQUIRED"}]
  IN IF r.payment \in {"SENDING", "UNKNOWN", "SUCCEEDED"}
     THEN [closed EXCEPT !.request = "FINANCIAL_REVIEW",
             !.reviews = @ \cup {"FINANCIAL_REVIEW"}]
     ELSE [GivenBack(closed) EXCEPT !.request = "CONFIRMED"]

\* confirm_cancellation: the supplier has confirmed; money, if any, is for a human.
CancelConfirmed(r) ==
  LET closed == [r EXCEPT !.so = "CANCELLED",
                   !.reviews = @ \ {"CANCELLATION_REQUIRED", "ACK_REQUIRED"}]
  IN IF Exposed(r)
     THEN [closed EXCEPT !.request = "FINANCIAL_REVIEW",
             !.reviews = @ \cup {"FINANCIAL_REVIEW"}]
     ELSE [GivenBack(closed) EXCEPT !.request = "CONFIRMED"]

\* settle_payment, then payment_completed and the order's move.
Settled(r) ==
  LET paid == [r EXCEPT !.payment = "SUCCEEDED", !.reservation = "SPENT"]
  IN IF r.cancel \/ r.so = "CANCEL_PENDING"
     THEN [paid EXCEPT !.reviews = @ \cup {"FINANCIAL_REVIEW", "CANCELLATION_AFTER_PAYMENT"}]
     ELSE [paid EXCEPT !.so = "SHIPMENT_PENDING", !.state = "SHIPMENT_PENDING"]

-----------------------------------------------------------------------------
(* Commands *)

Set(l, r) == line' = [line EXCEPT ![l] = r]
NoBatchRow == [status |-> "NONE", path |-> "MANUAL_EVIDENCE", sent |-> FALSE,
               acked |-> FALSE, items |-> {}]
\* The batch of a line's active item.
BatchOf(l) == IF line[l].batch = NoBatch THEN NoBatchRow ELSE batch[line[l].batch]

CreateBatch(b, ls, path) ==
  /\ batch[b].status = "NONE" /\ ls # {}
  /\ \A l \in ls : /\ FrozenHolds(line[l]) /\ line[l].state = "SUPPLIER_ORDER_PENDING"
                   /\ line[l].so = "PENDING" /\ line[l].batch = NoBatch
  /\ line' = [l \in Lines |-> IF l \in ls
                THEN [line[l] EXCEPT !.so = "FILE_READY", !.batch = b] ELSE line[l]]
  /\ batch' = [batch EXCEPT ![b] = [status |-> "FILE_READY", path |-> path,
                 sent |-> FALSE, acked |-> FALSE, items |-> ls]]

\* export_batch, the first time; later downloads are only audited.
ExportBatch(b) ==
  /\ batch[b].status = "FILE_READY"
  /\ batch' = [batch EXCEPT ![b].status = "EXPORTED"]
  /\ line' = [l \in Lines |-> IF l \in batch[b].items /\ line[l].so = "FILE_READY"
                THEN [line[l] EXCEPT !.so = "EXPORTED"] ELSE line[l]]

\* Slip: an invalidated file is sent.
MarkSentStale(b) ==
  /\ batch[b].status \in {"FILE_READY", "EXPORTED", "INVALIDATED"}
  /\ \E l \in batch[b].items : ~line[l].cancel
  /\ batch' = [batch EXCEPT ![b].status = "SENT", ![b].sent = TRUE]
  /\ line' = [l \in Lines |-> IF l \in batch[b].items /\ ~line[l].cancel
                THEN [line[l] EXCEPT !.so = "SENT"] ELSE line[l]]

MarkSent(b) ==
  /\ batch[b].status \in {"FILE_READY", "EXPORTED"}
  /\ \A l \in batch[b].items : ~line[l].cancel /\ CanMove(line[l].so, "SENT")
  /\ batch' = [batch EXCEPT ![b].status = "SENT", ![b].sent = TRUE]
  /\ line' = [l \in Lines |-> IF l \in batch[b].items
                THEN [line[l] EXCEPT !.so = "SENT"] ELSE line[l]]

\* Slip: one accepted line makes the whole batch acknowledged.
OutcomeOptimistic(acks) ==
  IF "ACCEPTED" \in acks THEN "ACKNOWLEDGED"
  ELSE IF acks = {"REJECTED"} THEN "REJECTED" ELSE "PARTIAL"

\* The batch status that the items' acknowledgements add up to.
OutcomeOf(acks) ==
  IF acks = {"ACCEPTED"} THEN "ACKNOWLEDGED"
  ELSE IF acks = {"REJECTED"} THEN "REJECTED" ELSE "PARTIAL"

Acknowledge(b, verdict) ==
  /\ batch[b].sent /\ ~batch[b].acked
  /\ batch[b].status \in {"SENT", "CANCEL_PENDING"}
  /\ line' = [l \in Lines |-> IF l \in batch[b].items
                THEN Acknowledged(line[l], batch[b].path, verdict[l]) ELSE line[l]]
  /\ batch' = [batch EXCEPT ![b].acked = TRUE,
                 ![b].status = IF @ = "CANCEL_PENDING" THEN @
                               ELSE OutcomeOf({line'[l].ack : l \in batch[b].items})]

\* A cancellation before the file is sent invalidates the whole file; the survivors
\* may be batched again.
RequestCancellation(l) ==
  /\ line[l].request = "NONE"
  /\ LET b == line[l].batch
         sent == BatchOf(l).sent
     IN /\ line' = [m \in Lines |->
              IF m = l THEN CancelRequested(line[l], sent)
              ELSE IF b # NoBatch /\ ~sent /\ line[m].batch = b THEN Survivor(line[m])
              ELSE line[m]]
        /\ batch' = [c \in Batches |->
              IF c # b \/ (sent /\ CancelsLocally(line[l], sent)) THEN batch[c]
              ELSE [batch[c] EXCEPT !.status = IF sent THEN "CANCEL_PENDING"
                                               ELSE "INVALIDATED"]]

\* cancel_batch: every line that has no request yet, in one transaction.
CancelBatch(b) ==
  /\ batch[b].status \notin {"NONE", "RESOLVED"}
  /\ \A l \in batch[b].items : line[l].batch \in {b, NoBatch}
  /\ LET todo == {l \in batch[b].items : line[l].request = "NONE"}
         pending == {l \in todo : ~CancelsLocally(line[l], BatchOf(l).sent)}
     IN /\ line' = [l \in Lines |-> IF l \in todo
                      THEN CancelRequested(line[l], BatchOf(l).sent) ELSE line[l]]
        /\ batch' = [batch EXCEPT ![b].status =
                       IF ~batch[b].sent THEN "CANCELLED"
                       ELSE IF pending # {} THEN "CANCEL_PENDING" ELSE @]

ConfirmCancellation(l) ==
  /\ line[l].request = "PENDING"
  /\ CanMove(line[l].so, "CANCELLED")
  /\ Set(l, CancelConfirmed(line[l]))
  /\ UNCHANGED batch

\* approve_payment
ApprovePayment(l) ==
  /\ line[l].payment = "MANUAL_APPROVAL" /\ Payable(line[l], BatchOf(l))
  /\ Set(l, [line[l] EXCEPT !.payment = ReadyFor(BatchOf(l).path), !.approved = TRUE,
                            !.reviews = @ \ {"PAYMENT_APPROVAL"}])
  /\ UNCHANGED batch

\* record_evidence; a mismatch or a cancellation only leaves a review behind.
RecordEvidence(l) ==
  /\ ~line[l].proof
  /\ line[l].batch # NoBatch /\ BatchOf(l).path = "MANUAL_EVIDENCE"
  /\ line[l].payment \in {"EVIDENCE_PENDING", "MANUAL_APPROVAL"}
  /\ \/ /\ line[l].reservation = "HELD" /\ ~line[l].cancel /\ line[l].ack = "ACCEPTED"
        /\ Set(l, [line[l] EXCEPT !.proof = TRUE])
     \/ Set(l, [line[l] EXCEPT !.reviews = @ \cup {"EVIDENCE"}])
  /\ UNCHANGED batch

\* confirm_evidence by an administrator; a failed check leaves a review.
ConfirmEvidence(l) ==
  /\ line[l].proof
  /\ \/ /\ line[l].payment = "EVIDENCE_PENDING" /\ Payable(line[l], BatchOf(l))
        /\ BatchOf(l).path = "MANUAL_EVIDENCE"
        /\ l \in Large => line[l].approved
        /\ Set(l, [Settled(line[l]) EXCEPT !.reviews = @ \ {"PAYMENT_APPROVAL", "EVIDENCE"}])
     \/ /\ line[l].payment # "SUCCEEDED"
        /\ Set(l, [line[l] EXCEPT !.reviews = @ \cup {"EVIDENCE"}])
  /\ UNCHANGED batch

\* execute_payment's dispatch: a cancellation, a failed check or the daily limit
\* keeps the money here.
DispatchPayment(l) ==
  LET r == line[l] IN
  /\ r.payment = "PENDING"
  /\ \/ Set(l, IF r.cancel THEN [r EXCEPT !.payment = "CANCELLED"]
               ELSE [Hold(r, "HELD") EXCEPT !.payment = "MANUAL_APPROVAL"])
     \/ /\ Payable(r, BatchOf(l)) /\ BatchOf(l).path = "DEMO_PROVIDER"
        /\ \/ Set(l, [r EXCEPT !.payment = "MANUAL_APPROVAL",
                               !.reviews = @ \cup {"PAYMENT_APPROVAL"}])
           \/ Set(l, [r EXCEPT !.payment = "SENDING", !.call = TRUE])
  /\ UNCHANGED batch

\* The call times out, or the job runs again and finds the payment SENDING.
PaymentUncertain(l) ==
  LET unknown == [line[l] EXCEPT !.payment = "UNKNOWN", !.reviews = @ \cup {"RESULT_UNKNOWN"}]
  IN /\ \/ line[l].call /\ Set(l, [unknown EXCEPT !.call = FALSE])
        \/ line[l].payment = "SENDING" /\ Set(l, unknown)
     /\ UNCHANGED batch

\* finalize_payment, after the provider's answer or an administrator's lookup. That
\* the provider has a receipt is OrderDispatch's concern and left open here.
FinalizePayment(l) ==
  /\ line[l].payment \in {"SENDING", "UNKNOWN"} /\ line[l].reservation = "HELD"
  /\ line[l].batch # NoBatch => BatchOf(l).path = "DEMO_PROVIDER"
  /\ line[l].cancel \/ /\ CanMove(line[l].so, "SHIPMENT_PENDING")
                       /\ CanGo(line[l].state, "SUPPLIER_PAID")
  /\ Set(l, Settled(line[l]))
  /\ UNCHANGED batch

\* revalidate_original_terms: some codes of a hold are resolved with it, some not.
Revalidate(l) ==
  LET r == line[l]
      agreed == [r EXCEPT !.ack = "ACCEPTED",
                   !.so = IF @ = "MANUAL_REVIEW" THEN "ACKNOWLEDGED" ELSE @,
                   !.state = "SUPPLIER_ORDERED"]
  IN
  /\ r.batch # NoBatch /\ r.ack \in {"ACCEPTED", "MANUAL_REVIEW"}
  /\ r.so \in {"MANUAL_REVIEW", "ACKNOWLEDGED", "PAYMENT_PENDING"}
  /\ r.request = "NONE" /\ FrozenHolds(r)
  /\ r.state \in {"MANUAL_REVIEW", "SUPPLIER_ORDERED"}
  /\ r.payment \notin {"SENDING", "UNKNOWN", "SUCCEEDED", "CANCELLED"}
  /\ \E resolved \in {{}, {"HELD"}}, decision \in Preparation(l) \ {"blocked"} :
       LET ready == IF r.payment = "NONE" THEN Prepared(agreed, BatchOf(l).path, decision)
                    ELSE [agreed EXCEPT !.reviews = @ \cup {"PAYMENT_APPROVAL"}]
       IN Set(l, [ready EXCEPT !.reviews =
                    @ \ ({"TERMS_CHANGED", "PREPARATION_BLOCKED"} \cup resolved)])
  /\ batch' = [batch EXCEPT ![r.batch].status =
                 IF @ = "PARTIAL" /\ \A m \in batch[r.batch].items : line'[m].ack = "ACCEPTED"
                 THEN "ACKNOWLEDGED" ELSE @]

\* adopt_verified_unsent_legacy
AdoptLegacy(l) ==
  /\ ~line[l].frozen /\ line[l].so = "MANUAL_REVIEW"
  /\ line[l].state = "SUPPLIER_ORDER_PENDING" /\ ~line[l].cancel
  /\ line[l].payment = "NONE" /\ line[l].request = "NONE" /\ line[l].reservation = "HELD"
  /\ Set(l, [line[l] EXCEPT !.frozen = TRUE, !.so = "PENDING", !.reviews = @ \ {"LEGACY"}])
  /\ UNCHANGED batch

\* add_shipment
Ship(l) ==
  /\ line[l].state = "SHIPMENT_PENDING" /\ ~line[l].cancel
  /\ line[l].so = "SHIPMENT_PENDING" /\ line[l].batch # NoBatch
  /\ line[l].ack = "ACCEPTED" /\ line[l].payment = "SUCCEEDED"
  /\ Set(l, [line[l] EXCEPT !.so = "SHIPPED", !.state = "SHIPPED"])
  /\ UNCHANGED batch

ResolveBatch(b) ==
  /\ batch[b].status \notin {"NONE", "RESOLVED"}
  /\ \A l \in batch[b].items :
       /\ line[l].so \in {"SHIPPED", "CANCELLED"} /\ line[l].state # "CANCEL_REQUESTED"
       /\ line[l].reviews \cap BusinessReview = {}
  /\ batch' = [batch EXCEPT ![b].status = "RESOLVED"]
  /\ UNCHANGED line

Next ==
  \/ \E b \in Batches :
       \/ \E ls \in SUBSET Lines, path \in PaymentPath : CreateBatch(b, ls, path)
       \/ ExportBatch(b) \/ MarkSent(b) \/ CancelBatch(b) \/ ResolveBatch(b)
       \/ \E verdict \in [batch[b].items -> UNION {Verdict(l) : l \in Lines}] :
            /\ \A l \in batch[b].items : verdict[l] \in Verdict(l)
            /\ Acknowledge(b, verdict)
  \/ \E l \in Lines :
       \/ RequestCancellation(l) \/ ConfirmCancellation(l)
       \/ ApprovePayment(l) \/ RecordEvidence(l) \/ ConfirmEvidence(l)
       \/ DispatchPayment(l) \/ PaymentUncertain(l) \/ FinalizePayment(l)
       \/ Revalidate(l) \/ AdoptLegacy(l) \/ Ship(l)

Spec == Init /\ [][Next]_vars

-----------------------------------------------------------------------------
(* Safety *)

\* A supplier never gets the same order in two files: the items of a sent batch are
\* in no other sent batch, although cancellations dissolve files and their survivors
\* are batched again.
SentOnce ==
  \A b, c \in Batches :
    b # c /\ batch[b].sent /\ batch[c].sent => batch[b].items \cap batch[c].items = {}

\* Money, or the claim that money was paid, exists only for a line that was sent
\* and accepted.
PaidOnlyAfterAcceptance ==
  \A l \in Lines : Exposed(line[l]) =>
    /\ line[l].ack = "ACCEPTED" /\ line[l].batch # NoBatch
    /\ BatchOf(l).sent /\ BatchOf(l).acked

\* A cancelled order owes nothing: no cash held, no payment alive or attested, no
\* call to the provider out, and the supplier does not hold the order.
CancelledOwesNothing ==
  \A l \in Lines : line[l].state = "CANCELLED" =>
    /\ line[l].reservation = "RELEASED" /\ line[l].payment \in {"NONE", "CANCELLED"}
    /\ ~line[l].proof /\ ~line[l].call
    /\ line[l].so = "CANCELLED"

\* Money that has left, or is said to have left, has its cash set aside or spent.
ExposureIsCovered ==
  \A l \in Lines : Exposed(line[l]) => line[l].reservation \in {"HELD", "SPENT"}

\* No payment above the automatic limit goes ahead without an approval.
LargeIsApproved ==
  \A l \in Large :
    line[l].payment \in {"EVIDENCE_PENDING", "PENDING", "SENDING", "UNKNOWN", "SUCCEEDED"}
      => line[l].approved

\* The batch row tells the truth about its lines: a file that can be sent is wholly
\* current, a dissolved one was never sent and holds nobody, a cancelled one has no
\* live line, the summary of the supplier's answer is what the lines say, and a resolved
\* one has only lines that are shipped or cancelled: a late cancellation reopens it.
BatchIsTrue ==
  \A b \in Batches : LET items == batch[b].items IN
    /\ batch[b].status \in {"FILE_READY", "EXPORTED"} =>
         \A l \in items : line[l].batch = b /\ line[l].so = batch[b].status
    /\ batch[b].status \in {"INVALIDATED", "CANCELLED"} =>
         ~batch[b].sent /\ \A l \in items : line[l].batch # b
    /\ batch[b].status = "CANCELLED" => \A l \in items : line[l].state = "CANCELLED"
    /\ batch[b].status = "ACKNOWLEDGED" => \A l \in items : line[l].ack = "ACCEPTED"
    /\ batch[b].status = "REJECTED" => \A l \in items : line[l].ack = "REJECTED"
    /\ batch[b].status = "RESOLVED" => \A l \in items : line[l].batch = b =>
         line[l].so \in {"SHIPPED", "CANCELLED"} /\ line[l].state # "CANCEL_REQUESTED"

\* A line that stopped has told a human.
HaltsAreReviewed ==
  \A l \in Lines : LET r == line[l] IN
    /\ r.so = "CANCEL_PENDING" => "CANCELLATION_REQUIRED" \in r.reviews
    /\ r.so = "MANUAL_REVIEW" =>
         r.reviews \cap {"LEGACY", "TERMS_CHANGED", "PREPARATION_BLOCKED"} # {}
    /\ r.so = "REJECTED" => "REJECTED" \in r.reviews
    /\ r.payment = "MANUAL_APPROVAL" => r.reviews \cap {"PAYMENT_APPROVAL", "HELD"} # {}
    /\ r.payment = "UNKNOWN" => "RESULT_UNKNOWN" \in r.reviews
    /\ r.request \in {"PENDING", "FINANCIAL_REVIEW"} =>
         r.reviews \cap {"CANCELLATION_REQUIRED", "FINANCIAL_REVIEW"} # {}

-----------------------------------------------------------------------------
(* Action properties *)

\* A line the supplier has, and has not rejected, is cancelled only by the supplier's
\* confirmation.
SentNeedsConfirmation ==
  [][\A l \in Lines :
       (BatchOf(l).sent /\ line[l].so \notin {"REJECTED", "CANCELLED"}
          /\ line'[l].so = "CANCELLED")
       => line[l].request = "PENDING"]_vars

\* Once a cancellation is requested no money leaves and no evidence of a payment is
\* recorded, unless it was already out.
CancellationStopsMoney ==
  [][\A l \in Lines : line[l].request # "NONE" /\ ~Exposed(line[l]) => ~Exposed(line'[l])]_vars
=============================================================================
