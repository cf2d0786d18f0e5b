------------------------ MODULE SupplierBatchesProofs ------------------------
(***************************************************************************)
(* Proofs about SupplierBatches, for any number of lines and batches.      *)
(* What a command does to a line is an operator on records, so the proof   *)
(* first shows that each operator is sound on one line (Sound), and then   *)
(* that the actions apply these operators to lines that meet their         *)
(* conditions and keep lines and batch rows in agreement (Agreement).      *)
(***************************************************************************)
EXTENDS SupplierBatches, TLAPS

\* Where the payment may be once its request has gone out.
Out == {"SENDING", "UNKNOWN", "SUCCEEDED"}

\* The inductive invariant of one line: every sign of a cancellation comes with the
\* order's flag; a provider call and exposure keep their cash; a cancelled order
\* owes nothing; payments follow an acceptance.
LineOk(r) ==
  /\ r.request # "NONE" => r.cancel
  /\ r.so \in {"CANCEL_PENDING", "CANCELLED"} => r.cancel
  /\ r.state = "CANCELLED" => r.request # "NONE"
  /\ r.call => r.payment \in Out
  /\ Exposed(r) => r.reservation \in {"HELD", "SPENT"}
  /\ r.state = "CANCELLED" =>
       /\ r.reservation = "RELEASED" /\ r.payment \in {"NONE", "CANCELLED"}
       /\ ~r.proof /\ ~r.call /\ r.so = "CANCELLED"
  /\ r.payment # "NONE" \/ r.proof => r.ack = "ACCEPTED"

\* What a command may make of line r: a line that is in order, and no exposure that
\* a requested cancellation should have prevented.
Sound(r, q) ==
  /\ q \in Line /\ LineOk(q)
  /\ r.request # "NONE" /\ ~Exposed(r) => ~Exposed(q)

\* State names the operators assign are states.
LEMMA StateNames ==
  {"MANUAL_REVIEW", "SUPPLIER_ORDERED", "SUPPLIER_ORDER_PENDING", "SHIPMENT_PENDING",
   "SHIPPED", "CANCEL_REQUESTED", "CANCELLED"} \subseteq OrderState
<1>1. \A i \in 1 .. 14 : NormalFlow[i] \in OrderState
  BY DEF OrderState
<1>2. NormalFlow[6] = "SUPPLIER_ORDER_PENDING" /\ NormalFlow[7] = "SUPPLIER_ORDERED"
      /\ NormalFlow[9] = "SHIPMENT_PENDING" /\ NormalFlow[10] = "SHIPPED"
  BY DEF NormalFlow
<1>3. {"SUPPLIER_ORDER_PENDING", "SUPPLIER_ORDERED", "SHIPMENT_PENDING", "SHIPPED"}
        \subseteq OrderState
  BY <1>1, <1>2
<1>4. {"MANUAL_REVIEW", "CANCEL_REQUESTED", "CANCELLED"} \subseteq OrderState
  BY DEF OrderState, ExceptionStates
<1> QED BY <1>3, <1>4

\* The categories the operators add are reviews.
LEMMA ReviewNames ==
  {"ACK_REQUIRED", "TERMS_CHANGED", "REJECTED", "PREPARATION_BLOCKED", "HELD", "LEGACY",
   "CANCELLATION_REQUIRED", "FINANCIAL_REVIEW", "CANCELLATION_AFTER_PAYMENT",
   "PAYMENT_APPROVAL", "EVIDENCE", "RESULT_UNKNOWN"} = BusinessReview \cup PaymentReview
BY DEF BusinessReview, PaymentReview

\* A line that is left alone stays in order.
LEMMA SoundSame == ASSUME NEW r \in Line, LineOk(r) PROVE Sound(r, r)
BY DEF Sound

\* hold() keeps a line in order.
LEMMA SoundHold ==
  ASSUME NEW r \in Line, LineOk(r), NEW c \in BusinessReview
  PROVE  Hold(r, c) \in Line /\ LineOk(Hold(r, c))
<1>1. Hold(r, c) \in Line
  BY StateNames DEF Hold, Line
<1>2. LineOk(Hold(r, c))
  BY DEF Hold, Line, LineOk, Exposed, HoldExempt
<1> QED BY <1>1, <1>2

\* The supplier's answer leaves a line in order that has not been answered before.
LEMMA SoundAcknowledged ==
  ASSUME NEW r \in Line, LineOk(r), r.ack = "NONE", r.batch # NoBatch,
         NEW path \in PaymentPath,
         NEW v \in {"changed", "rejected", "blocked", "approval", "ready"}
  PROVE  Sound(r, Acknowledged(r, path, v)) /\ Acknowledged(r, path, v).batch = r.batch
<1> DEFINE q == Acknowledged(r, path, v)
<1>0. r.payment = "NONE" /\ ~r.proof /\ ~r.call /\ ~Exposed(r)
  BY DEF LineOk, Exposed, Out, Line
<1>1. CASE v = "changed"
  <2>1. q \in Line /\ q.batch = r.batch
    BY <1>1, StateNames, ReviewNames
       DEF Acknowledged, Line, Hold, AckStatus, SupplierOrderStatus
  <2>2. LineOk(q) /\ ~Exposed(q)
    BY <1>0, <1>1 DEF Acknowledged, Line, LineOk, Exposed, Hold, HoldExempt, Out
  <2> QED BY <2>1, <2>2 DEF Sound
<1>2. CASE v = "rejected"
  <2>1. q \in Line /\ q.batch = r.batch
    BY <1>2, StateNames, ReviewNames
       DEF Acknowledged, Line, Hold, AckStatus, SupplierOrderStatus
  <2>2. LineOk(q) /\ ~Exposed(q)
    BY <1>0, <1>2 DEF Acknowledged, Line, LineOk, Exposed, Hold, HoldExempt, Out
  <2> QED BY <2>1, <2>2 DEF Sound
<1>3. CASE v \notin {"changed", "rejected"} /\ (r.cancel \/ r.so = "CANCEL_PENDING")
  <2> DEFINE a == [[r EXCEPT !.reviews = @ \ {"ACK_REQUIRED"}] EXCEPT !.ack = "ACCEPTED"]
  <2>0. q = [a EXCEPT !.reviews = @ \cup {"CANCELLATION_REQUIRED"}]
    BY <1>3 DEF Acknowledged
  <2>1. /\ a \in Line /\ a.batch = r.batch /\ a.state = r.state /\ a.ack = "ACCEPTED"
        /\ a.payment = "NONE" /\ ~a.proof /\ ~a.call /\ a.cancel = r.cancel
        /\ a.request = r.request /\ a.so = r.so /\ a.reservation = r.reservation
    BY <1>0 DEF Line, AckStatus
  <2>2. LineOk(a)
    BY <1>0, <2>1 DEF LineOk, Exposed, Out
  <2> HIDE DEF a
  <2>3. q \in Line /\ q.batch = a.batch
    BY <2>0, <2>1, ReviewNames DEF Line
  <2>4. LineOk(q) /\ ~Exposed(q)
    BY <2>0, <2>1, <2>2 DEF Line, LineOk, Exposed, Out
  <2> QED BY <2>1, <2>3, <2>4 DEF Sound
<1>4. CASE v \notin {"changed", "rejected"} /\ ~(r.cancel \/ r.so = "CANCEL_PENDING")
  <2> DEFINE a == [[[r EXCEPT !.reviews = @ \ {"ACK_REQUIRED"}] EXCEPT !.ack = "ACCEPTED"]
                     EXCEPT !.state = "SUPPLIER_ORDERED"]
  <2>0. q = Prepared(a, path, v)
    BY <1>4 DEF Acknowledged
  <2>1. /\ a \in Line /\ a.batch = r.batch /\ a.state = "SUPPLIER_ORDERED" /\ a.ack = "ACCEPTED"
        /\ a.payment = "NONE" /\ ~a.proof /\ ~a.call /\ ~a.cancel /\ a.request = r.request
        /\ a.so = r.so /\ a.reservation = r.reservation
    BY <1>0, <1>4, StateNames DEF Line, AckStatus
  <2>2. a.request = "NONE" /\ a.so \notin {"CANCEL_PENDING", "CANCELLED"}
    BY <1>4, <2>1 DEF LineOk, Line
  <2> HIDE DEF a
  <2>3. CASE v = "blocked"
    <3> DEFINE h == Hold(a, "HELD")
    <3>1. h \in Line
      BY <2>1, StateNames, ReviewNames DEF Hold, Line
    <3>2. /\ h.batch = a.batch /\ h.state = "MANUAL_REVIEW" /\ h.payment = "NONE" /\ ~h.proof
          /\ ~h.call /\ h.request = "NONE" /\ h.reservation = a.reservation
      BY <2>1, <2>2 DEF Hold, HoldExempt, Line
    <3>3. q = [h EXCEPT !.so = "MANUAL_REVIEW", !.reviews = @ \cup {"PREPARATION_BLOCKED"}]
      BY <2>0, <2>3 DEF Prepared
    <3> HIDE DEF h
    <3>a. h.reviews \cup {"PREPARATION_BLOCKED"} \in SUBSET (BusinessReview \cup PaymentReview)
      BY <3>1, ReviewNames DEF Line
    <3>4. q \in Line /\ q.batch = h.batch
      BY <3>1, <3>3, <3>a DEF Line, SupplierOrderStatus
    <3>5. LineOk(q) /\ ~Exposed(q)
      BY <3>1, <3>2, <3>3 DEF Line, LineOk, Exposed
    <3> QED BY <2>1, <3>2, <3>4, <3>5 DEF Sound
  <2>4. CASE v = "approval"
    <3>1. q = [a EXCEPT !.payment = "MANUAL_APPROVAL", !.so = "PAYMENT_PENDING",
                        !.reviews = @ \cup {"PAYMENT_APPROVAL"}]
      BY <2>0, <2>4 DEF Prepared
    <3>a. a.reviews \cup {"PAYMENT_APPROVAL"} \in SUBSET (BusinessReview \cup PaymentReview)
      BY <2>1, ReviewNames DEF Line
    <3>2. q \in Line /\ q.batch = a.batch
      BY <2>1, <3>1, <3>a DEF Line, SupplierOrderStatus, PaymentStatus
    <3>3. LineOk(q) /\ ~Exposed(q)
      BY <2>1, <2>2, <3>1 DEF Line, LineOk, Exposed
    <3> QED BY <2>1, <3>2, <3>3 DEF Sound
  <2>5. CASE v = "ready"
    <3>1. q = [a EXCEPT !.payment = ReadyFor(path), !.so = "PAYMENT_PENDING"]
      BY <2>0, <2>5 DEF Prepared
    <3>2. ReadyFor(path) \in {"EVIDENCE_PENDING", "PENDING"}
      BY DEF ReadyFor
    <3>3. q \in Line /\ q.batch = a.batch
      BY <2>1, <3>1, <3>2 DEF Line, SupplierOrderStatus, PaymentStatus
    <3>4. LineOk(q) /\ ~Exposed(q)
      BY <2>1, <2>2, <3>1, <3>2 DEF Line, LineOk, Exposed
    <3> QED BY <2>1, <3>3, <3>4 DEF Sound
  <2> QED BY <1>4, <2>3, <2>4, <2>5
<1> QED BY <1>1, <1>2, <1>3, <1>4

\* Giving back keeps a line a line.
LEMMA GivenBackType ==
  ASSUME NEW r \in Line
  PROVE  GivenBack(r) \in Line /\ GivenBack(r).batch = r.batch
BY StateNames DEF GivenBack, Line, PaymentStatus

\* A requested cancellation leaves a line in order.
LEMMA SoundCancelRequested ==
  ASSUME NEW r \in Line, LineOk(r), r.request = "NONE", NEW sent \in BOOLEAN,
         r.ack # "NONE" => sent
  PROVE  Sound(r, CancelRequested(r, sent))
<1> DEFINE q == CancelRequested(r, sent)
<1>0. r.state # "CANCELLED"
  BY DEF LineOk
<1>1. CASE CancelsLocally(r, sent)
  <2> DEFINE a == [r EXCEPT !.cancel = TRUE,
                     !.state = IF @ = "CANCELLED" THEN @ ELSE "CANCEL_REQUESTED",
                     !.batch = IF sent THEN @ ELSE NoBatch]
  <2>a. a \in Line
    BY StateNames DEF Line
  <2>b. q = [GivenBack(a) EXCEPT !.so = "CANCELLED", !.request = "CONFIRMED_LOCAL",
               !.reviews = @ \ {"ACK_REQUIRED", "REJECTED"}]
    BY <1>1 DEF CancelRequested
  <2>c. GivenBack(a) \in Line
    <3> HIDE DEF a
    <3> QED BY <2>a, GivenBackType
  <2>1. q \in Line
    <3> HIDE DEF a
    <3> QED BY <2>b, <2>c DEF Line, RequestStatus, SupplierOrderStatus
  <2>2. LineOk(q) /\ ~Exposed(q)
    BY <1>0, <1>1 DEF CancelRequested, CancelsLocally, GivenBack, Line, LineOk, Exposed, Out
  <2> QED BY <2>1, <2>2 DEF Sound
<1>2. CASE ~CancelsLocally(r, sent)
  <2> DEFINE a == [r EXCEPT !.cancel = TRUE,
                     !.state = IF @ = "CANCELLED" THEN @ ELSE "CANCEL_REQUESTED",
                     !.batch = IF sent THEN @ ELSE NoBatch]
  <2>a. a \in Line
    BY StateNames DEF Line
  <2>b. q = [a EXCEPT !.so = IF @ = "CANCELLED" THEN @ ELSE "CANCEL_PENDING",
               !.request = "PENDING",
               !.payment = IF Exposed(r) \/ @ = "NONE" THEN @ ELSE "CANCELLED",
               !.reviews = @ \cup {"CANCELLATION_REQUIRED"}
                             \cup (IF Exposed(r) THEN {"FINANCIAL_REVIEW"} ELSE {})]
    BY <1>2 DEF CancelRequested
  <2>1. q \in Line
    <3> HIDE DEF a
    <3>1. a.reviews \cup {"CANCELLATION_REQUIRED"}
            \cup (IF Exposed(r) THEN {"FINANCIAL_REVIEW"} ELSE {})
            \in SUBSET (BusinessReview \cup PaymentReview)
      BY <2>a, ReviewNames DEF Line
    <3>2. (IF a.so = "CANCELLED" THEN a.so ELSE "CANCEL_PENDING") \in SupplierOrderStatus
      BY DEF SupplierOrderStatus
    <3>3. (IF Exposed(r) \/ a.payment = "NONE" THEN a.payment ELSE "CANCELLED")
            \in PaymentStatus
      BY <2>a DEF Line, PaymentStatus
    <3>4. "PENDING" \in RequestStatus
      BY DEF RequestStatus
    <3> QED BY <2>a, <2>b, <3>1, <3>2, <3>3, <3>4 DEF Line
  <2>2. q.so = (IF r.so = "CANCELLED" THEN "CANCELLED" ELSE "CANCEL_PENDING")
        /\ q.cancel /\ q.state = "CANCEL_REQUESTED" /\ q.request = "PENDING"
        /\ q.reservation = r.reservation /\ q.proof = r.proof /\ q.call = r.call
        /\ q.ack = r.ack
        /\ q.payment = (IF Exposed(r) \/ r.payment = "NONE" THEN r.payment ELSE "CANCELLED")
    BY <1>0, <1>2 DEF CancelRequested, Line
  <2>3. LineOk(q) /\ (~Exposed(r) => ~Exposed(q))
    BY <2>2 DEF LineOk, Exposed, Out
  <2> QED BY <2>1, <2>3 DEF Sound
<1> QED BY <1>1, <1>2

\* So does the confirmation of one.
LEMMA SoundCancelConfirmed ==
  ASSUME NEW r \in Line, LineOk(r), r.request = "PENDING"
  PROVE  Sound(r, CancelConfirmed(r)) /\ CancelConfirmed(r).batch = r.batch
<1> DEFINE q == CancelConfirmed(r)
<1>1. CASE Exposed(r)
  <2>1. q \in Line /\ q.batch = r.batch
    BY <1>1, ReviewNames DEF CancelConfirmed, Line, RequestStatus, SupplierOrderStatus
  <2>2. LineOk(q)
    BY <1>1 DEF CancelConfirmed, Line, LineOk, Exposed, Out
  <2> QED BY <1>1, <2>1, <2>2 DEF Sound
<1>2. CASE ~Exposed(r)
  <2> DEFINE a == [r EXCEPT !.so = "CANCELLED",
                     !.reviews = @ \ {"CANCELLATION_REQUIRED", "ACK_REQUIRED"}]
  <2>a. a \in Line /\ a.batch = r.batch
    BY DEF Line, SupplierOrderStatus
  <2>b. q = [GivenBack(a) EXCEPT !.request = "CONFIRMED"]
    BY <1>2 DEF CancelConfirmed
  <2>1. q \in Line /\ q.batch = r.batch
    <3> HIDE DEF a
    <3>1. GivenBack(a) \in Line /\ GivenBack(a).batch = a.batch
      BY <2>a, GivenBackType
    <3> QED BY <2>a, <2>b, <3>1 DEF Line, RequestStatus
  <2>2. LineOk(q) /\ ~Exposed(q)
    BY <1>2 DEF CancelConfirmed, GivenBack, Line, LineOk, Exposed, Out
  <2> QED BY <2>1, <2>2 DEF Sound
<1> QED BY <1>1, <1>2

\* And the payment of an exposed one.
LEMMA SoundSettled ==
  ASSUME NEW r \in Line, LineOk(r), Exposed(r)
  PROVE  Sound(r, Settled(r)) /\ Settled(r).batch = r.batch
<1> DEFINE q == Settled(r)
<1>1. q \in Line /\ q.batch = r.batch
  BY StateNames, ReviewNames DEF Settled, Line, PaymentStatus, SupplierOrderStatus
<1>2. LineOk(q)
  BY DEF Settled, Line, LineOk, Exposed, Out
<1> QED BY <1>1, <1>2 DEF Sound

-----------------------------------------------------------------------------
(* Lines and batch rows *)

\* A line's active batch exists and holds it as an item; an answer was given in a
\* batch that was sent; a batch that was or may be sent is active for all its items.
Agreement ==
  /\ \A l \in Lines : line[l].batch # NoBatch =>
       l \in batch[line[l].batch].items /\ batch[line[l].batch].status # "NONE"
  /\ \A l \in Lines : line[l].ack # "NONE" =>
       line[l].batch # NoBatch /\ batch[line[l].batch].sent /\ batch[line[l].batch].acked
  /\ \A b \in Batches : batch[b].sent \/ batch[b].status \in {"FILE_READY", "EXPORTED"} =>
       \A l \in batch[b].items : line[l].batch = b
  /\ \A b \in Batches : batch[b].status \in {"NONE", "FILE_READY", "EXPORTED"} =>
       ~batch[b].sent

BInv == TypeOK /\ (\A l \in Lines : LineOk(line[l])) /\ Agreement

\* The batch rows keep their items and dates; none becomes sendable again.
SameBatches ==
  \A b \in Batches :
    /\ batch'[b].items = batch[b].items
    /\ batch'[b].sent = batch[b].sent /\ batch'[b].acked = batch[b].acked
    /\ batch'[b].status \in {"FILE_READY", "EXPORTED"} =>
         batch[b].status \in {"FILE_READY", "EXPORTED"}
    /\ batch'[b].status = "NONE" => batch[b].status = "NONE"

\* What every step does to every line.
SoundStep == \A l \in Lines : Sound(line[l], line'[l])

\* A step that leaves the active items and answers alone keeps the invariant.
LEMMA KeepsItems ==
  ASSUME BInv, SoundStep, SameBatches,
         line' \in [Lines -> Line], batch' \in [Batches -> Batch],
         \A l \in Lines : /\ line'[l].batch = line[l].batch
                          /\ line'[l].ack # "NONE" => line[l].ack # "NONE"
  PROVE  BInv'
<1>1. TypeOK'
  BY DEF TypeOK
<1>2. (\A l \in Lines : LineOk(line[l]))'
  BY DEF SoundStep, Sound
<1>3. \A l \in Lines : line[l] \in Line /\ line[l].batch \in Batches \cup {NoBatch}
  BY DEF BInv, TypeOK, Line
<1>4. \A b \in Batches : batch[b].items \subseteq Lines
  BY DEF BInv, TypeOK, Batch
<1>5. Agreement'
  BY <1>3, <1>4 DEF BInv, Agreement, SameBatches
<1> QED BY <1>1, <1>2, <1>5 DEF BInv

\* A command that changes one line and no batch.
LEMMA OneLine ==
  ASSUME BInv, NEW l \in Lines, NEW q, Sound(line[l], q),
         q.batch = line[l].batch, q.ack # "NONE" => line[l].ack # "NONE",
         Set(l, q), UNCHANGED batch
  PROVE  SoundStep /\ BInv'
<1>1. line' \in [Lines -> Line] /\ batch' \in [Batches -> Batch]
  BY DEF BInv, TypeOK, Set, Sound
<1>2. \A m \in Lines : line'[m] = IF m = l THEN q ELSE line[m]
  BY DEF BInv, TypeOK, Set
<1>3. SoundStep
  BY <1>2, SoundSame DEF SoundStep, BInv, TypeOK
<1>4. SameBatches
  BY DEF SameBatches
<1>5. BInv'
  BY <1>1, <1>2, <1>3, <1>4, KeepsItems
<1> QED BY <1>3, <1>5

\* A review about evidence changes nothing else.
LEMMA EvidenceReview ==
  ASSUME NEW r \in Line, LineOk(r)
  PROVE  LET q == [r EXCEPT !.reviews = @ \cup {"EVIDENCE"}]
         IN Sound(r, q) /\ q.batch = r.batch /\ q.ack = r.ack
<1> DEFINE q == [r EXCEPT !.reviews = @ \cup {"EVIDENCE"}]
<1>1. r.reviews \cup {"EVIDENCE"} \in SUBSET (BusinessReview \cup PaymentReview)
  BY ReviewNames DEF Line
<1>2. q \in Line /\ q.batch = r.batch /\ q.ack = r.ack
  BY <1>1 DEF Line
<1>3. LineOk(q) /\ (~Exposed(r) => ~Exposed(q))
  BY DEF Line, LineOk, Exposed, Out
<1> QED BY <1>2, <1>3 DEF Sound

\* Confirmations, evidence, payment and shipment: commands on one line.
LEMMA LineCommands ==
  ASSUME BInv, NEW l \in Lines,
         \/ ConfirmCancellation(l) \/ ApprovePayment(l) \/ RecordEvidence(l)
         \/ ConfirmEvidence(l) \/ DispatchPayment(l) \/ PaymentUncertain(l)
         \/ FinalizePayment(l) \/ AdoptLegacy(l) \/ Ship(l)
  PROVE  SoundStep /\ BInv'
<1> DEFINE r == line[l]
<1>0. r \in Line /\ LineOk(r)
  BY DEF BInv, TypeOK
<1>1. CASE ConfirmCancellation(l)
  <2>1. Sound(r, CancelConfirmed(r)) /\ CancelConfirmed(r).batch = r.batch
    BY <1>0, <1>1, SoundCancelConfirmed DEF ConfirmCancellation
  <2>2. CancelConfirmed(r).ack = r.ack
    BY <1>0 DEF CancelConfirmed, GivenBack, Line
  <2> QED BY <1>1, <2>1, <2>2, OneLine DEF ConfirmCancellation
<1>2. CASE ApprovePayment(l)
  <2> DEFINE q == [r EXCEPT !.payment = ReadyFor(BatchOf(l).path), !.approved = TRUE,
                            !.reviews = @ \ {"PAYMENT_APPROVAL"}]
  <2>1. ReadyFor(BatchOf(l).path) \in {"EVIDENCE_PENDING", "PENDING"}
    BY DEF ReadyFor
  <2>2. r.payment = "MANUAL_APPROVAL" /\ Payable(r, BatchOf(l))
    BY <1>2 DEF ApprovePayment
  <2>3. q \in Line /\ q.batch = r.batch /\ q.ack = r.ack
    BY <1>0, <2>1 DEF Line, PaymentStatus
  <2>4. LineOk(q) /\ (~Exposed(r) => ~Exposed(q))
    BY <1>0, <2>1, <2>2 DEF Line, LineOk, Exposed, Out, Payable, FrozenHolds
  <2>5. Sound(r, q) /\ Set(l, q) /\ UNCHANGED batch
    BY <1>2, <2>3, <2>4 DEF Sound, ApprovePayment
  <2> HIDE DEF q
  <2> QED BY <2>3, <2>5, OneLine
<1>3. CASE RecordEvidence(l)
  <2>1. CASE /\ r.reservation = "HELD" /\ ~r.cancel /\ r.ack = "ACCEPTED"
             /\ Set(l, [r EXCEPT !.proof = TRUE])
    <3> DEFINE q == [r EXCEPT !.proof = TRUE]
    <3>1. r.payment \in {"EVIDENCE_PENDING", "MANUAL_APPROVAL"} /\ UNCHANGED batch
      BY <1>3 DEF RecordEvidence
    <3>2. q \in Line /\ q.batch = r.batch /\ q.ack = r.ack
      BY <1>0 DEF Line
    <3>3. LineOk(q) /\ r.request = "NONE"
      BY <1>0, <2>1, <3>1 DEF Line, LineOk, Exposed, Out
    <3>4. Sound(r, q) /\ Set(l, q)
      BY <2>1, <3>2, <3>3 DEF Sound
    <3> HIDE DEF q
    <3> QED BY <3>1, <3>2, <3>4, OneLine
  <2>2. CASE Set(l, [r EXCEPT !.reviews = @ \cup {"EVIDENCE"}])
    BY <1>0, <1>3, <2>2, EvidenceReview, OneLine DEF RecordEvidence
  <2> QED BY <1>3, <2>1, <2>2 DEF RecordEvidence
<1>4. CASE ConfirmEvidence(l)
  <2>1. CASE Set(l, [Settled(r) EXCEPT !.reviews = @ \ {"PAYMENT_APPROVAL", "EVIDENCE"}])
    <3> DEFINE p == Settled(r)
               q == [p EXCEPT !.reviews = @ \ {"PAYMENT_APPROVAL", "EVIDENCE"}]
    <3>1. r.proof /\ UNCHANGED batch
      BY <1>4 DEF ConfirmEvidence
    <3>2. Exposed(r)
      BY <3>1 DEF Exposed
    <3>3. Sound(r, p) /\ p.batch = r.batch
      BY <1>0, <3>2, SoundSettled
    <3>4. p.ack = r.ack
      BY <1>0 DEF Settled, Line
    <3>5. Set(l, q)
      BY <2>1
    <3> HIDE DEF p
    <3>6. q \in Line /\ q.batch = p.batch /\ q.ack = p.ack
      BY <3>3 DEF Sound, Line
    <3>7. LineOk(q)
      BY <3>3 DEF Sound, Line, LineOk, Exposed
    <3>8. Sound(r, q)
      BY <3>2, <3>6, <3>7 DEF Sound
    <3> HIDE DEF q
    <3> QED BY <3>1, <3>3, <3>4, <3>5, <3>6, <3>8, OneLine
  <2>2. CASE Set(l, [r EXCEPT !.reviews = @ \cup {"EVIDENCE"}])
    BY <1>0, <1>4, <2>2, EvidenceReview, OneLine DEF ConfirmEvidence
  <2> QED BY <1>4, <2>1, <2>2 DEF ConfirmEvidence
<1>5. CASE DispatchPayment(l)
  <2>0. r.payment = "PENDING" /\ UNCHANGED batch
    BY <1>5 DEF DispatchPayment
  <2>1. CASE r.cancel /\ Set(l, [r EXCEPT !.payment = "CANCELLED"])
    <3> DEFINE q == [r EXCEPT !.payment = "CANCELLED"]
    <3>1. q \in Line /\ q.batch = r.batch /\ q.ack = r.ack
      BY <1>0 DEF Line, PaymentStatus
    <3>2. LineOk(q) /\ (~Exposed(r) => ~Exposed(q))
      BY <1>0, <2>0 DEF Line, LineOk, Exposed, Out
    <3>3. Sound(r, q) /\ Set(l, q)
      BY <2>1, <3>1, <3>2 DEF Sound
    <3> HIDE DEF q
    <3> QED BY <2>0, <3>1, <3>3, OneLine
  <2>2. CASE Set(l, [Hold(r, "HELD") EXCEPT !.payment = "MANUAL_APPROVAL"])
    <3> DEFINE h == Hold(r, "HELD")
               q == [h EXCEPT !.payment = "MANUAL_APPROVAL"]
    <3>1. h \in Line /\ LineOk(h)
      BY <1>0, SoundHold DEF BusinessReview
    <3>2. h.batch = r.batch /\ h.ack = r.ack /\ h.payment = "PENDING" /\ h.proof = r.proof
          /\ h.request = r.request
      BY <1>0, <2>0 DEF Hold, Line
    <3>3. Set(l, q)
      BY <2>2
    <3> HIDE DEF h
    <3>4. q \in Line /\ q.batch = h.batch /\ q.ack = h.ack
      BY <3>1 DEF Line, PaymentStatus
    <3>5. LineOk(q) /\ (~Exposed(r) => ~Exposed(q))
      BY <3>1, <3>2, <2>0 DEF Line, LineOk, Exposed, Out
    <3>6. Sound(r, q)
      BY <3>4, <3>5 DEF Sound
    <3> HIDE DEF q
    <3> QED BY <2>0, <3>2, <3>3, <3>4, <3>6, OneLine
  <2>3. CASE Set(l, [r EXCEPT !.payment = "MANUAL_APPROVAL",
                              !.reviews = @ \cup {"PAYMENT_APPROVAL"}])
    <3> DEFINE q == [r EXCEPT !.payment = "MANUAL_APPROVAL",
                              !.reviews = @ \cup {"PAYMENT_APPROVAL"}]
    <3>0. r.reviews \cup {"PAYMENT_APPROVAL"} \in SUBSET (BusinessReview \cup PaymentReview)
      BY <1>0, ReviewNames DEF Line
    <3>1. q \in Line /\ q.batch = r.batch /\ q.ack = r.ack
      BY <1>0, <3>0 DEF Line, PaymentStatus
    <3>2. LineOk(q) /\ (~Exposed(r) => ~Exposed(q))
      BY <1>0, <2>0 DEF Line, LineOk, Exposed, Out
    <3>3. Sound(r, q) /\ Set(l, q)
      BY <2>3, <3>1, <3>2 DEF Sound
    <3> HIDE DEF q
    <3> QED BY <2>0, <3>1, <3>3, OneLine
  <2>4. CASE /\ Payable(r, BatchOf(l))
             /\ Set(l, [r EXCEPT !.payment = "SENDING", !.call = TRUE])
    <3> DEFINE q == [r EXCEPT !.payment = "SENDING", !.call = TRUE]
    <3>1. q \in Line /\ q.batch = r.batch /\ q.ack = r.ack
      BY <1>0 DEF Line, PaymentStatus
    <3>2. LineOk(q) /\ r.request = "NONE"
      BY <1>0, <2>0, <2>4 DEF Line, LineOk, Exposed, Out, Payable, FrozenHolds
    <3>3. Sound(r, q) /\ Set(l, q)
      BY <2>4, <3>1, <3>2 DEF Sound
    <3> HIDE DEF q
    <3> QED BY <2>0, <3>1, <3>3, OneLine
  <2> QED BY <1>5, <2>1, <2>2, <2>3, <2>4 DEF DispatchPayment
<1>6. CASE PaymentUncertain(l)
  <2> DEFINE u == [r EXCEPT !.payment = "UNKNOWN", !.reviews = @ \cup {"RESULT_UNKNOWN"}]
             q == [u EXCEPT !.call = FALSE]
  <2>0. r.call \/ r.payment = "SENDING"
    BY <1>6 DEF PaymentUncertain
  <2>1. r.payment \in Out /\ Exposed(r)
    BY <1>0, <2>0 DEF LineOk, Exposed, Out
  <2>2. r.reviews \cup {"RESULT_UNKNOWN"} \in SUBSET (BusinessReview \cup PaymentReview)
    BY <1>0, ReviewNames DEF Line
  <2>3. u \in Line /\ u.batch = r.batch /\ u.ack = r.ack
    BY <1>0, <2>2 DEF Line, PaymentStatus
  <2>4. LineOk(u)
    BY <1>0, <2>1 DEF Line, LineOk, Exposed, Out
  <2>5. UNCHANGED batch /\ (Set(l, u) \/ Set(l, q))
    BY <1>6 DEF PaymentUncertain
  <2> HIDE DEF u
  <2>6. q \in Line /\ q.batch = r.batch /\ q.ack = r.ack
    BY <2>3 DEF Line
  <2>7. LineOk(q)
    BY <2>3, <2>4 DEF Line, LineOk, Exposed
  <2>8. Sound(r, u) /\ Sound(r, q)
    BY <2>1, <2>3, <2>4, <2>6, <2>7 DEF Sound
  <2> HIDE DEF q
  <2> QED BY <2>3, <2>5, <2>6, <2>8, OneLine
<1>7. CASE FinalizePayment(l)
  <2>1. Exposed(r) /\ Set(l, Settled(r)) /\ UNCHANGED batch
    BY <1>7 DEF FinalizePayment, Exposed
  <2>2. Sound(r, Settled(r)) /\ Settled(r).batch = r.batch
    BY <1>0, <2>1, SoundSettled
  <2>3. Settled(r).ack = r.ack
    BY <1>0 DEF Settled, Line
  <2> QED BY <2>1, <2>2, <2>3, OneLine
<1>8. CASE AdoptLegacy(l)
  <2> DEFINE q == [r EXCEPT !.frozen = TRUE, !.so = "PENDING", !.reviews = @ \ {"LEGACY"}]
  <2>1. q \in Line /\ q.batch = r.batch /\ q.ack = r.ack
    BY <1>0 DEF Line, SupplierOrderStatus
  <2>2. r.state = "SUPPLIER_ORDER_PENDING" /\ UNCHANGED batch /\ Set(l, q)
    BY <1>8 DEF AdoptLegacy
  <2>3. LineOk(q) /\ (~Exposed(r) => ~Exposed(q))
    BY <1>0, <2>2 DEF Line, LineOk, Exposed, Out
  <2>4. Sound(r, q)
    BY <2>1, <2>3 DEF Sound
  <2> HIDE DEF q
  <2> QED BY <2>1, <2>2, <2>4, OneLine
<1>9. CASE Ship(l)
  <2> DEFINE q == [r EXCEPT !.so = "SHIPPED", !.state = "SHIPPED"]
  <2>1. q \in Line /\ q.batch = r.batch /\ q.ack = r.ack
    BY <1>0, StateNames DEF Line, SupplierOrderStatus
  <2>2. UNCHANGED batch /\ Set(l, q)
    BY <1>9 DEF Ship
  <2>3. LineOk(q) /\ (~Exposed(r) => ~Exposed(q))
    BY <1>0 DEF Line, LineOk, Exposed, Out
  <2>4. Sound(r, q)
    BY <2>1, <2>3 DEF Sound
  <2> HIDE DEF q
  <2> QED BY <2>1, <2>2, <2>4, OneLine
<1> QED BY <1>1, <1>2, <1>3, <1>4, <1>5, <1>6, <1>7, <1>8, <1>9

\* Reconfirmed terms: one line and, perhaps, its batch's summary.
LEMMA RevalidateCommand ==
  ASSUME BInv, NEW l \in Lines, Revalidate(l)
  PROVE  SoundStep /\ BInv'
<1> DEFINE r == line[l]
           agreed == [r EXCEPT !.ack = "ACCEPTED",
                        !.so = IF @ = "MANUAL_REVIEW" THEN "ACKNOWLEDGED" ELSE @,
                        !.state = "SUPPLIER_ORDERED"]
           path == BatchOf(l).path
<1>0. r \in Line /\ LineOk(r) /\ r.batch \in Batches /\ path \in PaymentPath
  BY DEF BInv, TypeOK, Line, Batch, BatchOf, Revalidate
<1>1. /\ r.ack # "NONE" /\ ~r.cancel /\ r.reservation = "HELD"
      /\ r.payment \notin {"SENDING", "UNKNOWN", "SUCCEEDED", "CANCELLED"}
  BY DEF Revalidate, FrozenHolds
<1>2. r.request = "NONE"
  BY <1>0, <1>1 DEF LineOk
<1>3. PICK resolved \in {{}, {"HELD"}}, decision \in Preparation(l) \ {"blocked"} :
        LET ready == IF r.payment = "NONE" THEN Prepared(agreed, path, decision)
                     ELSE [agreed EXCEPT !.reviews = @ \cup {"PAYMENT_APPROVAL"}]
        IN Set(l, [ready EXCEPT !.reviews =
                     @ \ ({"TERMS_CHANGED", "PREPARATION_BLOCKED"} \cup resolved)])
  BY DEF Revalidate
<1> DEFINE ready == IF r.payment = "NONE" THEN Prepared(agreed, path, decision)
                    ELSE [agreed EXCEPT !.reviews = @ \cup {"PAYMENT_APPROVAL"}]
           q == [ready EXCEPT !.reviews =
                   @ \ ({"TERMS_CHANGED", "PREPARATION_BLOCKED"} \cup resolved)]
<1>4. agreed \in Line
  BY <1>0, StateNames DEF Line, AckStatus, SupplierOrderStatus
<1>5. /\ agreed.batch = r.batch /\ agreed.ack = "ACCEPTED" /\ agreed.payment = r.payment
      /\ agreed.proof = r.proof /\ agreed.call = r.call /\ agreed.reservation = "HELD"
      /\ agreed.cancel = r.cancel /\ agreed.request = "NONE"
      /\ agreed.state = "SUPPLIER_ORDERED"
      /\ agreed.so \notin {"CANCEL_PENDING", "CANCELLED"}
  BY <1>0, <1>1, <1>2 DEF Line, LineOk
<1>6. agreed.reviews \cup {"PAYMENT_APPROVAL"} \in SUBSET (BusinessReview \cup PaymentReview)
  BY <1>4, ReviewNames DEF Line
<1>7. decision \in {"approval", "ready"}
  BY DEF Preparation
<1> HIDE DEF agreed
<1>8. ready \in {agreed,
          [agreed EXCEPT !.payment = "MANUAL_APPROVAL", !.so = "PAYMENT_PENDING",
                         !.reviews = @ \cup {"PAYMENT_APPROVAL"}],
          [agreed EXCEPT !.payment = ReadyFor(path), !.so = "PAYMENT_PENDING"],
          [agreed EXCEPT !.reviews = @ \cup {"PAYMENT_APPROVAL"}]}
  BY <1>7 DEF Prepared
<1>9. ReadyFor(path) \in {"EVIDENCE_PENDING", "PENDING"}
  BY DEF ReadyFor
<1> HIDE DEF path
<1>10. /\ ready \in Line /\ ready.batch = r.batch /\ ready.ack = "ACCEPTED"
       /\ ready.payment \in {r.payment, "MANUAL_APPROVAL", "EVIDENCE_PENDING", "PENDING"}
       /\ ready.proof = r.proof /\ ready.call = r.call /\ ready.reservation = "HELD"
       /\ ready.cancel = r.cancel /\ ready.request = "NONE"
       /\ ready.state = "SUPPLIER_ORDERED"
       /\ ready.so \notin {"CANCEL_PENDING", "CANCELLED"}
  <2> HIDE DEF ready, r
  <2> DEFINE pay == ReadyFor(path)
  <2>1. pay \in {"EVIDENCE_PENDING", "PENDING"}
    BY <1>9
  <2>2. ready \in {agreed,
          [agreed EXCEPT !.payment = "MANUAL_APPROVAL", !.so = "PAYMENT_PENDING",
                         !.reviews = @ \cup {"PAYMENT_APPROVAL"}],
          [agreed EXCEPT !.payment = pay, !.so = "PAYMENT_PENDING"],
          [agreed EXCEPT !.reviews = @ \cup {"PAYMENT_APPROVAL"}]}
    BY <1>8
  <2> HIDE DEF pay
  <2>3. CASE ready = agreed
    BY <1>4, <1>5, <2>3
  <2>4. CASE ready = [agreed EXCEPT !.payment = "MANUAL_APPROVAL", !.so = "PAYMENT_PENDING",
                                    !.reviews = @ \cup {"PAYMENT_APPROVAL"}]
    BY <1>4, <1>5, <1>6, <2>4 DEF Line, PaymentStatus, SupplierOrderStatus
  <2>5. CASE ready = [agreed EXCEPT !.payment = pay, !.so = "PAYMENT_PENDING"]
    BY <1>4, <1>5, <2>1, <2>5 DEF Line, PaymentStatus, SupplierOrderStatus
  <2>6. CASE ready = [agreed EXCEPT !.reviews = @ \cup {"PAYMENT_APPROVAL"}]
    BY <1>4, <1>5, <1>6, <2>6 DEF Line
  <2> QED BY <2>2, <2>3, <2>4, <2>5, <2>6
<1> HIDE DEF ready
<1>11. /\ q \in Line /\ q.batch = r.batch /\ q.ack = "ACCEPTED"
       /\ q.payment = ready.payment /\ q.proof = r.proof /\ q.call = r.call
       /\ q.reservation = "HELD" /\ q.cancel = r.cancel /\ q.request = "NONE"
       /\ q.state = "SUPPLIER_ORDERED" /\ q.so \notin {"CANCEL_PENDING", "CANCELLED"}
  BY <1>10 DEF Line
<1>12. LineOk(q)
  BY <1>0, <1>1, <1>10, <1>11 DEF LineOk, Exposed, Out
<1>13. Sound(r, q)
  BY <1>2, <1>11, <1>12, <1>0, <1>1, <1>10 DEF Sound, Exposed
<1>14. Set(l, q)
  BY <1>3 DEF ready
<1> HIDE DEF q
<1>15. \A m \in Lines : line'[m] = IF m = l THEN q ELSE line[m]
  BY <1>14 DEF Set, BInv, TypeOK
<1>16. line' \in [Lines -> Line]
  BY <1>11, <1>14 DEF Set, BInv, TypeOK
<1>17. SoundStep
  BY <1>13, <1>15, SoundSame DEF SoundStep, BInv, TypeOK
<1>18. PICK st \in {batch[r.batch].status, "ACKNOWLEDGED"} :
         batch' = [batch EXCEPT ![r.batch].status = st]
  <2>1. batch' = [batch EXCEPT ![r.batch].status =
                 IF @ = "PARTIAL" /\ \A m \in batch[r.batch].items : line'[m].ack = "ACCEPTED"
                 THEN "ACKNOWLEDGED" ELSE @]
    BY DEF Revalidate
  <2> QED BY <2>1
<1>19. batch' \in [Batches -> Batch] /\ SameBatches
  BY <1>0, <1>18 DEF BInv, TypeOK, Batch, BatchStatus, SameBatches
<1>20. BInv'
  BY <1>1, <1>11, <1>15, <1>16, <1>17, <1>19, KeepsItems
<1> QED BY <1>17, <1>20

\* A line that is put into a file, and one whose file is sent, stays in order.
LEMMA SoundFiled ==
  ASSUME NEW r \in Line, LineOk(r), r.state = "SUPPLIER_ORDER_PENDING", NEW b \in Batches
  PROVE  LET q == [r EXCEPT !.so = "FILE_READY", !.batch = b]
         IN Sound(r, q) /\ q.batch = b /\ q.ack = r.ack
<1> DEFINE q == [r EXCEPT !.so = "FILE_READY", !.batch = b]
<1>1. q \in Line /\ q.batch = b /\ q.ack = r.ack
  BY DEF Line, SupplierOrderStatus
<1>2. LineOk(q) /\ (Exposed(q) <=> Exposed(r))
  BY DEF Line, LineOk, Exposed
<1> QED BY <1>1, <1>2 DEF Sound

LEMMA SoundSent ==
  ASSUME NEW r \in Line, LineOk(r), ~r.cancel
  PROVE  LET q == [r EXCEPT !.so = "SENT"]
         IN Sound(r, q) /\ q.batch = r.batch /\ q.ack = r.ack
<1> DEFINE q == [r EXCEPT !.so = "SENT"]
<1>1. q \in Line /\ q.batch = r.batch /\ q.ack = r.ack
  BY DEF Line, SupplierOrderStatus
<1>2. LineOk(q) /\ (Exposed(q) <=> Exposed(r))
  BY DEF Line, LineOk, Exposed
<1> QED BY <1>1, <1>2 DEF Sound

\* A new file takes lines that are in no file.
LEMMA CreateCommand ==
  ASSUME BInv, NEW b \in Batches, NEW ls \in SUBSET Lines, NEW path \in PaymentPath,
         CreateBatch(b, ls, path)
  PROVE  SoundStep /\ BInv'
<1> DEFINE put(l) == [line[l] EXCEPT !.so = "FILE_READY", !.batch = b]
<1>1. \A l \in Lines : line[l] \in Line /\ LineOk(line[l])
  BY DEF BInv, TypeOK
<1>2. \A l \in ls : /\ ~line[l].cancel /\ line[l].state = "SUPPLIER_ORDER_PENDING"
                    /\ line[l].batch = NoBatch
  BY DEF CreateBatch, FrozenHolds
<1>3. \A l \in ls : Sound(line[l], put(l)) /\ put(l).batch = b /\ put(l).ack = line[l].ack
  BY <1>1, <1>2, SoundFiled
<1>5. \A l \in ls : put(l) \in Line
  BY <1>3 DEF Sound
<1>6. line' = [l \in Lines |-> IF l \in ls THEN put(l) ELSE line[l]]
  BY DEF CreateBatch
<1> HIDE DEF put
<1>7. line' \in [Lines -> Line]
  BY <1>1, <1>5, <1>6
<1>8. SoundStep
  BY <1>1, <1>3, <1>6, SoundSame DEF SoundStep
<1>9. batch' = [batch EXCEPT ![b] = [status |-> "FILE_READY", path |-> path,
                 sent |-> FALSE, acked |-> FALSE, items |-> ls]]
  BY DEF CreateBatch
<1>10. batch' \in [Batches -> Batch]
  BY <1>9 DEF BInv, TypeOK, Batch, BatchStatus
<1>11. \A c \in Batches : IF c = b THEN /\ batch'[c].status = "FILE_READY"
                                        /\ ~batch'[c].sent /\ batch'[c].items = ls
                          ELSE batch'[c] = batch[c]
  BY <1>9 DEF BInv, TypeOK
<1>12. \A l \in Lines : /\ line[l].batch \in Batches \cup {NoBatch}
                        /\ line'[l].batch = IF l \in ls THEN b ELSE line[l].batch
                        /\ line'[l].ack = line[l].ack
  BY <1>1, <1>3, <1>6 DEF Line
<1>13. batch[b].status = "NONE" /\ \A c \in Batches : batch[c].items \subseteq Lines
  BY DEF CreateBatch, BInv, TypeOK, Batch
<1>14. Agreement'
  <2>1. (\A l \in Lines : line[l].batch # NoBatch =>
           l \in batch[line[l].batch].items /\ batch[line[l].batch].status # "NONE")'
    BY <1>11, <1>12, <1>13 DEF BInv, Agreement
  <2>2. (\A l \in Lines : line[l].ack # "NONE" =>
           line[l].batch # NoBatch /\ batch[line[l].batch].sent
             /\ batch[line[l].batch].acked)'
    BY <1>2, <1>11, <1>12, <1>13 DEF BInv, Agreement
  <2>3. (\A c \in Batches : batch[c].sent \/ batch[c].status \in {"FILE_READY", "EXPORTED"} =>
           \A l \in batch[c].items : line[l].batch = c)'
    BY <1>2, <1>11, <1>12, <1>13, NoBatchAssumption DEF BInv, Agreement
  <2>4. (\A c \in Batches : batch[c].status \in {"NONE", "FILE_READY", "EXPORTED"} =>
           ~batch[c].sent)'
    BY <1>11 DEF BInv, Agreement
  <2> QED BY <2>1, <2>2, <2>3, <2>4 DEF Agreement
<1>15. BInv'
  BY <1>7, <1>8, <1>10, <1>14 DEF BInv, TypeOK, SoundStep, Sound
<1> QED BY <1>8, <1>15

\* Export and resolution change statuses only.
LEMMA StatusCommands ==
  ASSUME BInv, NEW b \in Batches, ExportBatch(b) \/ ResolveBatch(b)
  PROVE  SoundStep /\ BInv'
<1>1. \A l \in Lines : line[l] \in Line /\ LineOk(line[l])
  BY DEF BInv, TypeOK
<1>2. CASE ExportBatch(b)
  <2> DEFINE put(l) == [line[l] EXCEPT !.so = "EXPORTED"]
             moved(l) == l \in batch[b].items /\ line[l].so = "FILE_READY"
  <2>1. \A l \in Lines : /\ put(l) \in Line /\ put(l).batch = line[l].batch
                         /\ put(l).ack = line[l].ack
    BY <1>1 DEF Line, SupplierOrderStatus
  <2>2. \A l \in Lines : moved(l) => LineOk(put(l)) /\ (Exposed(put(l)) <=> Exposed(line[l]))
    <3> SUFFICES ASSUME NEW l \in Lines, moved(l)
                 PROVE  LineOk(put(l)) /\ (Exposed(put(l)) <=> Exposed(line[l]))
      OBVIOUS
    <3> DEFINE r == line[l]
    <3>1. r \in Line /\ LineOk(r) /\ r.so = "FILE_READY"
      BY <1>1
    <3> QED BY <3>1 DEF Line, LineOk, Exposed
  <2>3. line' = [l \in Lines |-> IF moved(l) THEN put(l) ELSE line[l]]
    BY <1>2 DEF ExportBatch
  <2>4. \A l \in Lines : moved(l) => Sound(line[l], put(l))
    BY <2>1, <2>2 DEF Sound
  <2> HIDE DEF put, moved
  <2>5. SoundStep
    BY <1>1, <2>3, <2>4, SoundSame DEF SoundStep
  <2>6. line' \in [Lines -> Line] /\ \A l \in Lines : /\ line'[l].batch = line[l].batch
                                                      /\ line'[l].ack = line[l].ack
    BY <1>1, <2>1, <2>3
  <2>7. batch[b].status = "FILE_READY" /\ batch' = [batch EXCEPT ![b].status = "EXPORTED"]
    BY <1>2 DEF ExportBatch
  <2>8. batch' \in [Batches -> Batch] /\ SameBatches
    BY <2>7 DEF BInv, TypeOK, Batch, BatchStatus, SameBatches
  <2> QED BY <2>5, <2>6, <2>8, KeepsItems
<1>3. CASE ResolveBatch(b)
  <2>1. SoundStep
    BY <1>1, <1>3, SoundSame DEF ResolveBatch, SoundStep
  <2>2. batch' = [batch EXCEPT ![b].status = "RESOLVED"] /\ line' = line
    BY <1>3 DEF ResolveBatch
  <2>3. batch' \in [Batches -> Batch] /\ SameBatches
    BY <2>2 DEF BInv, TypeOK, Batch, BatchStatus, SameBatches
  <2>4. line' \in [Lines -> Line]
    BY <2>2 DEF BInv, TypeOK
  <2> QED BY <2>1, <2>2, <2>3, <2>4, KeepsItems
<1> QED BY <1>2, <1>3

\* A file is sent with every item that it was created with.
LEMMA MarkSentCommand ==
  ASSUME BInv, NEW b \in Batches, MarkSent(b)
  PROVE  SoundStep /\ BInv'
<1> DEFINE put(l) == [line[l] EXCEPT !.so = "SENT"]
           items == batch[b].items
<1>1. \A l \in Lines : line[l] \in Line /\ LineOk(line[l])
  BY DEF BInv, TypeOK
<1>2. items \subseteq Lines /\ \A l \in items : ~line[l].cancel
  BY DEF MarkSent, BInv, TypeOK, Batch
<1>3. \A l \in items : Sound(line[l], put(l)) /\ put(l).batch = line[l].batch
                        /\ put(l).ack = line[l].ack
  BY <1>1, <1>2, SoundSent
<1>4. line' = [l \in Lines |-> IF l \in items THEN put(l) ELSE line[l]]
  BY DEF MarkSent
<1>5. \A l \in items : put(l) \in Line
  BY <1>3 DEF Sound
<1> HIDE DEF put
<1>6. line' \in [Lines -> Line] /\ SoundStep
  BY <1>1, <1>3, <1>4, <1>5, SoundSame DEF SoundStep
<1>7. \A l \in Lines : line'[l].batch = line[l].batch /\ line'[l].ack = line[l].ack
  BY <1>3, <1>4
<1>8. /\ batch[b].status \in {"FILE_READY", "EXPORTED"}
      /\ batch' = [batch EXCEPT ![b].status = "SENT", ![b].sent = TRUE]
  BY DEF MarkSent
<1>9. batch' \in [Batches -> Batch]
  BY <1>8 DEF BInv, TypeOK, Batch, BatchStatus
<1>10. \A c \in Batches :
          /\ batch'[c].items = batch[c].items /\ batch'[c].acked = batch[c].acked
          /\ batch'[c].status = IF c = b THEN "SENT" ELSE batch[c].status
          /\ batch'[c].sent <=> (c = b \/ batch[c].sent)
  BY <1>8 DEF BInv, TypeOK, Batch
<1>11. \A l \in Lines : line[l].batch \in Batches \cup {NoBatch}
  BY <1>1 DEF Line
<1>12. \A c \in Batches : batch[c].items \subseteq Lines
  BY DEF BInv, TypeOK, Batch
<1>13. Agreement'
  <2>1. (\A l \in Lines : line[l].batch # NoBatch =>
           l \in batch[line[l].batch].items /\ batch[line[l].batch].status # "NONE")'
    BY <1>7, <1>10, <1>11 DEF BInv, Agreement
  <2>2. (\A l \in Lines : line[l].ack # "NONE" =>
           line[l].batch # NoBatch /\ batch[line[l].batch].sent
             /\ batch[line[l].batch].acked)'
    BY <1>7, <1>10, <1>11 DEF BInv, Agreement
  <2>3. (\A c \in Batches : batch[c].sent \/ batch[c].status \in {"FILE_READY", "EXPORTED"} =>
           \A l \in batch[c].items : line[l].batch = c)'
    BY <1>7, <1>8, <1>10, <1>12 DEF BInv, Agreement
  <2>4. (\A c \in Batches : batch[c].status \in {"NONE", "FILE_READY", "EXPORTED"} =>
           ~batch[c].sent)'
    BY <1>10 DEF BInv, Agreement
  <2> QED BY <2>1, <2>2, <2>3, <2>4 DEF Agreement
<1> QED BY <1>6, <1>9, <1>13 DEF BInv, TypeOK, SoundStep, Sound

\* An answer reaches the lines of a sent file that has had none.
LEMMA AcknowledgeCommand ==
  ASSUME BInv, NEW b \in Batches, NEW verdict,
         \A l \in batch[b].items : verdict[l] \in Verdict(l),
         Acknowledge(b, verdict)
  PROVE  SoundStep /\ BInv'
<1> DEFINE items == batch[b].items
           put(l) == Acknowledged(line[l], batch[b].path, verdict[l])
<1>1. \A l \in Lines : line[l] \in Line /\ LineOk(line[l])
  BY DEF BInv, TypeOK
<1>2. \A c \in Batches : batch[c] \in Batch /\ batch[c].items \subseteq Lines
                          /\ batch[c].path \in PaymentPath
  BY DEF BInv, TypeOK, Batch
<1>3. batch[b].sent /\ ~batch[b].acked
  BY DEF Acknowledge
<1>4. \A l \in items : line[l].batch = b
  BY <1>3 DEF BInv, Agreement
<1>5. \A l \in items : line[l].ack = "NONE" /\ line[l].batch # NoBatch
  BY <1>2, <1>3, <1>4, NoBatchAssumption DEF BInv, Agreement
<1>6. \A l \in items : verdict[l] \in {"changed", "rejected", "blocked", "approval", "ready"}
  BY <1>2 DEF Verdict, Preparation
<1>7. \A l \in items : Sound(line[l], put(l)) /\ put(l).batch = line[l].batch
  BY <1>1, <1>2, <1>5, <1>6, SoundAcknowledged
<1>8. line' = [l \in Lines |-> IF l \in items THEN put(l) ELSE line[l]]
  BY DEF Acknowledge
<1>9. \A l \in items : put(l) \in Line
  BY <1>7 DEF Sound
<1> HIDE DEF put
<1>10. line' \in [Lines -> Line] /\ SoundStep
  BY <1>1, <1>7, <1>8, <1>9, SoundSame DEF SoundStep
<1>11. \A l \in Lines : /\ line'[l].batch = line[l].batch
                        /\ l \notin items => line'[l].ack = line[l].ack
  BY <1>7, <1>8
<1>12. PICK st \in {"CANCEL_PENDING", "ACKNOWLEDGED", "REJECTED", "PARTIAL"} :
          batch' = [batch EXCEPT ![b].acked = TRUE, ![b].status = st]
  <2>1. batch' = [batch EXCEPT ![b].acked = TRUE,
                    ![b].status = IF @ = "CANCEL_PENDING" THEN @
                                  ELSE OutcomeOf({line'[l].ack : l \in batch[b].items})]
    BY DEF Acknowledge
  <2>2. OutcomeOf({line'[l].ack : l \in batch[b].items})
          \in {"ACKNOWLEDGED", "REJECTED", "PARTIAL"}
    BY DEF OutcomeOf
  <2> QED BY <2>1, <2>2
<1>13. batch' \in [Batches -> Batch]
  BY <1>12 DEF BInv, TypeOK, Batch, BatchStatus
<1>14. \A c \in Batches :
          /\ batch'[c].items = batch[c].items /\ batch'[c].sent = batch[c].sent
          /\ batch'[c].acked <=> (c = b \/ batch[c].acked)
          /\ batch'[c].status = IF c = b THEN st ELSE batch[c].status
  BY <1>12 DEF BInv, TypeOK, Batch
<1>15. \A l \in Lines : line[l].batch \in Batches \cup {NoBatch}
  BY <1>1 DEF Line
<1>16. Agreement'
  <2>1. (\A l \in Lines : line[l].batch # NoBatch =>
           l \in batch[line[l].batch].items /\ batch[line[l].batch].status # "NONE")'
    BY <1>11, <1>14, <1>15 DEF BInv, Agreement
  <2>2. (\A l \in Lines : line[l].ack # "NONE" =>
           line[l].batch # NoBatch /\ batch[line[l].batch].sent
             /\ batch[line[l].batch].acked)'
    BY <1>3, <1>4, <1>5, <1>11, <1>14, <1>15 DEF BInv, Agreement
  <2>3. (\A c \in Batches : batch[c].sent \/ batch[c].status \in {"FILE_READY", "EXPORTED"} =>
           \A l \in batch[c].items : line[l].batch = c)'
    BY <1>2, <1>11, <1>14 DEF BInv, Agreement
  <2>4. (\A c \in Batches : batch[c].status \in {"NONE", "FILE_READY", "EXPORTED"} =>
           ~batch[c].sent)'
    BY <1>14 DEF BInv, Agreement
  <2> QED BY <2>1, <2>2, <2>3, <2>4 DEF Agreement
<1> QED BY <1>10, <1>13, <1>16 DEF BInv, TypeOK, SoundStep, Sound

\* A line whose unsent file is invalidated stays in order.
LEMMA SoundSurvivor ==
  ASSUME NEW r \in Line, LineOk(r)
  PROVE  Sound(r, Survivor(r)) /\ Survivor(r).batch = NoBatch /\ Survivor(r).ack = r.ack
<1>1. Survivor(r) \in Line /\ Survivor(r).batch = NoBatch /\ Survivor(r).ack = r.ack
  BY DEF Survivor, Line, SupplierOrderStatus
<1>2. LineOk(Survivor(r)) /\ (Exposed(Survivor(r)) <=> Exposed(r))
  BY DEF Survivor, Line, LineOk, Exposed
<1> QED BY <1>1, <1>2 DEF Sound

\* What a cancellation does to a line's item.
LEMMA CancelledItem ==
  ASSUME NEW r \in Line, NEW sent \in BOOLEAN
  PROVE  /\ CancelRequested(r, sent).batch = IF sent THEN r.batch ELSE NoBatch
         /\ CancelRequested(r, sent).ack = r.ack
BY DEF CancelRequested, GivenBack, Line

\* One cancelled line; an unsent file dissolves with it.
LEMMA RequestCommand ==
  ASSUME BInv, NEW l \in Lines, RequestCancellation(l)
  PROVE  SoundStep /\ BInv'
<1> DEFINE b == line[l].batch
           sent == BatchOf(l).sent
           q == CancelRequested(line[l], sent)
           loose(m) == b # NoBatch /\ ~sent /\ line[m].batch = b
           put(m) == Survivor(line[m])
<1>1. \A m \in Lines : line[m] \in Line /\ LineOk(line[m])
  BY DEF BInv, TypeOK
<1>2. \A m \in Lines : line[m].batch \in Batches \cup {NoBatch}
  BY <1>1 DEF Line
<1>3. sent \in BOOLEAN /\ (b # NoBatch => sent = batch[b].sent)
  BY <1>2 DEF BatchOf, NoBatchRow, BInv, TypeOK, Batch
<1>4. line[l].request = "NONE" /\ (line[l].ack # "NONE" => sent)
  BY <1>3 DEF RequestCancellation, BInv, Agreement
<1>5. /\ Sound(line[l], q) /\ q.ack = line[l].ack
      /\ q.batch = IF sent THEN line[l].batch ELSE NoBatch
  BY <1>1, <1>3, <1>4, SoundCancelRequested, CancelledItem
<1>6. \A m \in Lines : /\ Sound(line[m], put(m)) /\ put(m).batch = NoBatch
                       /\ put(m).ack = line[m].ack
  BY <1>1, SoundSurvivor
<1>7. line' = [m \in Lines |-> IF m = l THEN q ELSE IF loose(m) THEN put(m) ELSE line[m]]
  BY DEF RequestCancellation
<1>8. PICK P \in BOOLEAN : batch' = [c \in Batches |->
         IF c # b \/ P THEN batch[c]
         ELSE [batch[c] EXCEPT !.status = IF sent THEN "CANCEL_PENDING" ELSE "INVALIDATED"]]
         /\ (P => sent)
  <2> DEFINE P == sent /\ CancelsLocally(line[l], sent)
  <2>1. P \in BOOLEAN /\ (P => sent)
    BY <1>3
  <2>2. batch' = [c \in Batches |->
         IF c # b \/ P THEN batch[c]
         ELSE [batch[c] EXCEPT !.status = IF sent THEN "CANCEL_PENDING" ELSE "INVALIDATED"]]
    BY DEF RequestCancellation
  <2> QED BY <2>1, <2>2
<1> HIDE DEF q, put
<1>9. q \in Line /\ \A m \in Lines : put(m) \in Line
  BY <1>5, <1>6 DEF Sound
<1>10. line' \in [Lines -> Line] /\ SoundStep
  BY <1>1, <1>5, <1>6, <1>7, <1>9, SoundSame DEF SoundStep
<1>11. batch' \in [Batches -> Batch]
  BY <1>8 DEF BInv, TypeOK, Batch, BatchStatus
<1>12. \A c \in Batches :
         /\ batch'[c].items = batch[c].items /\ batch'[c].sent = batch[c].sent
         /\ batch'[c].acked = batch[c].acked
         /\ c # b => batch'[c].status = batch[c].status
         /\ c = b /\ ~sent => batch'[c].status = "INVALIDATED"
         /\ c = b => batch'[c].status \in {batch[c].status, "CANCEL_PENDING", "INVALIDATED"}
  BY <1>8 DEF BInv, TypeOK, Batch
<1>13. \A m \in Lines :
         /\ line'[m].ack = line[m].ack
         /\ line'[m].batch = IF (m = l /\ ~sent) \/ loose(m) THEN NoBatch ELSE line[m].batch
  BY <1>5, <1>6, <1>7
<1>14. \A c \in Batches : batch[c].items \subseteq Lines
  BY DEF BInv, TypeOK, Batch
<1>15. b \in Batches \/ b = NoBatch
  BY <1>2
<1> HIDE DEF b, sent
<1>16. \A m \in Lines : line'[m].batch # line[m].batch =>
         line'[m].batch = NoBatch /\ ~sent /\ line[m].batch = b
  BY <1>13 DEF b
<1>17. Agreement'
  <2>1. (\A m \in Lines : line[m].batch # NoBatch =>
           m \in batch[line[m].batch].items /\ batch[line[m].batch].status # "NONE")'
    BY <1>2, <1>12, <1>16 DEF BInv, Agreement
  <2>2. (\A m \in Lines : line[m].ack # "NONE" =>
           line[m].batch # NoBatch /\ batch[line[m].batch].sent
             /\ batch[line[m].batch].acked)'
    BY <1>2, <1>3, <1>12, <1>13, <1>16 DEF BInv, Agreement
  <2>3. (\A c \in Batches : batch[c].sent \/ batch[c].status \in {"FILE_READY", "EXPORTED"} =>
           \A m \in batch[c].items : line[m].batch = c)'
    BY <1>3, <1>12, <1>14, <1>16, NoBatchAssumption DEF BInv, Agreement
  <2>4. (\A c \in Batches : batch[c].status \in {"NONE", "FILE_READY", "EXPORTED"} =>
           ~batch[c].sent)'
    BY <1>12 DEF BInv, Agreement
  <2> QED BY <2>1, <2>2, <2>3, <2>4 DEF Agreement
<1> QED BY <1>10, <1>11, <1>17 DEF BInv, TypeOK, SoundStep, Sound

\* A whole batch is cancelled.
LEMMA CancelBatchCommand ==
  ASSUME BInv, NEW b \in Batches, CancelBatch(b)
  PROVE  SoundStep /\ BInv'
<1> DEFINE items == batch[b].items
           todo == {l \in items : line[l].request = "NONE"}
           put(l) == CancelRequested(line[l], BatchOf(l).sent)
<1>1. \A m \in Lines : line[m] \in Line /\ LineOk(line[m])
  BY DEF BInv, TypeOK
<1>2. \A m \in Lines : line[m].batch \in Batches \cup {NoBatch}
  BY <1>1 DEF Line
<1>3. \A c \in Batches : batch[c].items \subseteq Lines
  BY DEF BInv, TypeOK, Batch
<1>4. \A l \in items : line[l].batch \in {b, NoBatch}
  BY DEF CancelBatch
<1>5. \A l \in Lines : /\ BatchOf(l).sent \in BOOLEAN
                       /\ line[l].batch # NoBatch => BatchOf(l).sent = batch[line[l].batch].sent
  BY <1>2 DEF BatchOf, NoBatchRow, BInv, TypeOK, Batch
<1>6. \A l \in todo : line[l].request = "NONE" /\ (line[l].ack # "NONE" => BatchOf(l).sent)
  BY <1>3, <1>5 DEF BInv, Agreement
<1>7. \A l \in todo : /\ Sound(line[l], put(l)) /\ put(l).ack = line[l].ack
                      /\ put(l).batch = IF BatchOf(l).sent THEN line[l].batch ELSE NoBatch
  BY <1>1, <1>3, <1>5, <1>6, SoundCancelRequested, CancelledItem
<1>8. line' = [l \in Lines |-> IF l \in todo THEN put(l) ELSE line[l]]
  BY DEF CancelBatch
<1>9. PICK st \in {"CANCELLED", "CANCEL_PENDING", batch[b].status} :
        /\ batch' = [batch EXCEPT ![b].status = st]
        /\ ~batch[b].sent => st = "CANCELLED"
        /\ batch[b].status # "NONE"
  <2> DEFINE pending == {l \in todo : ~CancelsLocally(line[l], BatchOf(l).sent)}
             st == IF ~batch[b].sent THEN "CANCELLED"
                   ELSE IF pending # {} THEN "CANCEL_PENDING" ELSE batch[b].status
  <2>1. batch' = [batch EXCEPT ![b].status = st] /\ batch[b].status # "NONE"
    BY DEF CancelBatch
  <2> QED BY <2>1
<1> HIDE DEF put
<1>10. \A l \in todo : put(l) \in Line
  BY <1>7 DEF Sound
<1>11. line' \in [Lines -> Line] /\ SoundStep
  BY <1>1, <1>7, <1>8, <1>10, SoundSame DEF SoundStep
<1>12. batch' \in [Batches -> Batch]
  BY <1>9 DEF BInv, TypeOK, Batch, BatchStatus
<1>13. \A c \in Batches :
         /\ batch'[c].items = batch[c].items /\ batch'[c].sent = batch[c].sent
         /\ batch'[c].acked = batch[c].acked
         /\ batch'[c].status = IF c = b THEN st ELSE batch[c].status
  BY <1>9 DEF BInv, TypeOK, Batch
<1>14. \A m \in Lines :
         /\ line'[m].ack = line[m].ack
         /\ line'[m].batch # line[m].batch =>
              line'[m].batch = NoBatch /\ line[m].batch = b /\ ~batch[b].sent
  BY <1>3, <1>4, <1>5, <1>7, <1>8
<1>15. Agreement'
  <2>1. (\A m \in Lines : line[m].batch # NoBatch =>
           m \in batch[line[m].batch].items /\ batch[line[m].batch].status # "NONE")'
    BY <1>2, <1>9, <1>13, <1>14 DEF BInv, Agreement
  <2>2. (\A m \in Lines : line[m].ack # "NONE" =>
           line[m].batch # NoBatch /\ batch[line[m].batch].sent
             /\ batch[line[m].batch].acked)'
    BY <1>2, <1>13, <1>14 DEF BInv, Agreement
  <2>3. (\A c \in Batches : batch[c].sent \/ batch[c].status \in {"FILE_READY", "EXPORTED"} =>
           \A m \in batch[c].items : line[m].batch = c)'
    BY <1>3, <1>9, <1>13, <1>14, NoBatchAssumption DEF BInv, Agreement
  <2>4. (\A c \in Batches : batch[c].status \in {"NONE", "FILE_READY", "EXPORTED"} =>
           ~batch[c].sent)'
    BY <1>9, <1>13 DEF BInv, Agreement
  <2> QED BY <2>1, <2>2, <2>3, <2>4 DEF Agreement
<1> QED BY <1>11, <1>12, <1>15 DEF BInv, TypeOK, SoundStep, Sound

-----------------------------------------------------------------------------
(* The invariant and what follows from it *)

\* The lines process_order and migration 0002 leave are in order.
LEMMA BInitially == Init => BInv
<1> SUFFICES ASSUME Init PROVE BInv
  OBVIOUS
<1>1. \A l \in Lines : line[l] \in Line
  BY StateNames, ReviewNames
     DEF Init, Line, SupplierOrderStatus, PaymentStatus, RequestStatus, AckStatus
<1>2. line \in [Lines -> Line]
  BY <1>1 DEF Init
<1>3. batch \in [Batches -> Batch]
  BY DEF Init, Batch, BatchStatus, PaymentPath
<1>4. \A l \in Lines : LineOk(line[l])
  BY DEF Init, LineOk, Exposed
<1>5. Agreement
  BY DEF Init, Agreement
<1> QED BY <1>2, <1>3, <1>4, <1>5 DEF BInv, TypeOK

\* Every command is sound on every line and keeps the invariant.
LEMMA BStep == BInv /\ Next => SoundStep /\ BInv'
<1> SUFFICES ASSUME BInv, Next PROVE SoundStep /\ BInv'
  OBVIOUS
<1>1. CASE \E b \in Batches, ls \in SUBSET Lines, path \in PaymentPath : CreateBatch(b, ls, path)
  BY <1>1, CreateCommand
<1>2. CASE \E b \in Batches : ExportBatch(b) \/ ResolveBatch(b)
  BY <1>2, StatusCommands
<1>3. CASE \E b \in Batches : MarkSent(b)
  BY <1>3, MarkSentCommand
<1>4. CASE \E b \in Batches : CancelBatch(b)
  BY <1>4, CancelBatchCommand
<1>5. CASE \E b \in Batches : \E verdict \in [batch[b].items -> UNION {Verdict(l) : l \in Lines}] :
            /\ \A l \in batch[b].items : verdict[l] \in Verdict(l)
            /\ Acknowledge(b, verdict)
  BY <1>5, AcknowledgeCommand
<1>6. CASE \E l \in Lines : RequestCancellation(l)
  BY <1>6, RequestCommand
<1>7. CASE \E l \in Lines :
         \/ ConfirmCancellation(l) \/ ApprovePayment(l) \/ RecordEvidence(l)
         \/ ConfirmEvidence(l) \/ DispatchPayment(l) \/ PaymentUncertain(l)
         \/ FinalizePayment(l) \/ AdoptLegacy(l) \/ Ship(l)
  BY <1>7, LineCommands
<1>8. CASE \E l \in Lines : Revalidate(l)
  BY <1>8, RevalidateCommand
<1> QED BY <1>1, <1>2, <1>3, <1>4, <1>5, <1>6, <1>7, <1>8 DEF Next

\* The invariant, for every number of lines and batches: each line is in order and
\* agrees with its batch row, whatever the operators, the supplier and the payment
\* provider do and in whatever order.
THEOREM BInvariant == Spec => []BInv
<1>1. BInv /\ [Next]_vars => BInv'
  <2> SUFFICES ASSUME BInv, [Next]_vars PROVE BInv'
    OBVIOUS
  <2>1. CASE Next
    BY <2>1, BStep
  <2>2. CASE UNCHANGED vars
    BY <2>2 DEF vars, BInv, TypeOK, Agreement, LineOk, Exposed
  <2> QED BY <2>1, <2>2
<1> QED BY BInitially, <1>1, PTL DEF Spec

\* The rows of a line and of a batch keep to the values the schema and the status
\* graph allow.
THEOREM BTypeCorrect == Spec => []TypeOK
<1>1. BInv => TypeOK
  BY DEF BInv
<1> QED BY <1>1, BInvariant, PTL

\* A supplier never gets an order in two files, although cancelled files dissolve and
\* their survivors are batched again: a sent file is the active one of all its items.
THEOREM BSentOnce == Spec => []SentOnce
<1>1. BInv => SentOnce
  BY DEF BInv, Agreement, SentOnce
<1> QED BY <1>1, BInvariant, PTL

\* Money, or the claim that it was paid, exists only for a line the supplier has
\* accepted in a file that was sent and answered.
THEOREM BPaidOnlyAfterAcceptance == Spec => []PaidOnlyAfterAcceptance
<1>1. BInv => PaidOnlyAfterAcceptance
  <2> SUFFICES ASSUME BInv, NEW l \in Lines, Exposed(line[l])
               PROVE  /\ line[l].ack = "ACCEPTED" /\ line[l].batch # NoBatch
                      /\ BatchOf(l).sent /\ BatchOf(l).acked
    BY DEF PaidOnlyAfterAcceptance
  <2>1. line[l].ack = "ACCEPTED"
    BY DEF BInv, LineOk, Exposed
  <2> QED BY <2>1 DEF BInv, Agreement, BatchOf
<1> QED BY <1>1, BInvariant, PTL

\* A cancelled order owes nothing: no cash, no payment, no call out, and the supplier
\* does not hold it.
THEOREM BCancelledOwesNothing == Spec => []CancelledOwesNothing
<1>1. BInv => CancelledOwesNothing
  BY DEF BInv, LineOk, CancelledOwesNothing
<1> QED BY <1>1, BInvariant, PTL

\* Money that has left, or is said to have left, has its cash set aside or spent:
\* release() is never reached with a payment out or its evidence recorded.
THEOREM BExposureIsCovered == Spec => []ExposureIsCovered
<1>1. BInv => ExposureIsCovered
  BY DEF BInv, LineOk, ExposureIsCovered
<1> QED BY <1>1, BInvariant, PTL

\* After a cancellation request no command sends money or records evidence of a
\* payment that was not already out.
THEOREM BCancellationStopsMoney == Spec => CancellationStopsMoney
<1> DEFINE Stops == \A l \in Lines :
             line[l].request # "NONE" /\ ~Exposed(line[l]) => ~Exposed(line'[l])
<1>1. BInv /\ [Next]_vars => [Stops]_vars
  <2> SUFFICES ASSUME BInv, Next PROVE Stops
    OBVIOUS
  <2>1. SoundStep
    BY BStep
  <2> QED BY <2>1 DEF SoundStep, Sound
<1> QED BY <1>1, BInvariant, PTL DEF Spec, CancellationStopsMoney

-----------------------------------------------------------------------------
(* What the lines and the batch rows tell *)

\* HaltsAreReviewed for one line.
Told(r) ==
  /\ r.so = "CANCEL_PENDING" => "CANCELLATION_REQUIRED" \in r.reviews
  /\ r.so = "MANUAL_REVIEW" => \/ "LEGACY" \in r.reviews \/ "TERMS_CHANGED" \in r.reviews
                               \/ "PREPARATION_BLOCKED" \in r.reviews
  /\ r.so = "REJECTED" => "REJECTED" \in r.reviews
  /\ r.payment = "MANUAL_APPROVAL" => "PAYMENT_APPROVAL" \in r.reviews \/ "HELD" \in r.reviews
  /\ r.payment = "UNKNOWN" => "RESULT_UNKNOWN" \in r.reviews
  /\ r.request \in {"PENDING", "FINANCIAL_REVIEW"} =>
       "CANCELLATION_REQUIRED" \in r.reviews \/ "FINANCIAL_REVIEW" \in r.reviews

\* LargeIsApproved for one line.
Cleared(r) ==
  r.payment \in {"EVIDENCE_PENDING", "PENDING", "SENDING", "UNKNOWN", "SUCCEEDED"} => r.approved

\* A line whose cancellation was requested never gets back among the supplier's orders.
Leaves(r) == r.request # "NONE" => r.so \in {"CANCEL_PENDING", "CANCELLED"}

LineGood(l, r) == Told(r) /\ Leaves(r) /\ (l \in Large => Cleared(r))
LinesGood == \A l \in Lines : LineGood(l, line[l])

\* What commands that are about neither items nor cancellation requests keep of a line.
Calm(r, q) ==
  /\ q.batch = r.batch /\ q.ack = r.ack /\ (q.request = "NONE" <=> r.request = "NONE")
  /\ r.so \in {"FILE_READY", "EXPORTED"} => q.so = r.so
  /\ r.so \in {"SHIPPED", "CANCELLED"} => q.so \in {"SHIPPED", "CANCELLED"}
  /\ q.so = "CANCELLED" => r.so = "CANCELLED" \/ r.request = "PENDING"
  /\ r.state # "CANCEL_REQUESTED" => q.state # "CANCEL_REQUESTED"
  /\ r.state = "CANCELLED" => q.state = "CANCELLED"
  /\ r.frozen => q.frozen
  /\ r.request # "NONE" => q.frozen = r.frozen

LEMMA OneCalmLine ==
  ASSUME BInv, LinesGood, NEW l \in Lines, NEW q, Set(l, q), Calm(line[l], q), LineGood(l, q)
  PROVE  \A m \in Lines : Calm(line[m], line'[m]) /\ LineGood(m, line'[m])
<1>1. \A m \in Lines : line'[m] = IF m = l THEN q ELSE line[m]
  BY DEF BInv, TypeOK, Set
<1>2. \A m \in Lines : Calm(line[m], line[m])
  BY DEF Calm
<1> QED
  BY <1>1, <1>2 DEF LinesGood

\* Confirmations, evidence, payment and shipment are calm.
LEMMA CalmCommands ==
  ASSUME BInv, LinesGood, NEW l \in Lines,
         \/ ConfirmCancellation(l) \/ ApprovePayment(l) \/ RecordEvidence(l)
         \/ ConfirmEvidence(l) \/ DispatchPayment(l) \/ PaymentUncertain(l)
         \/ FinalizePayment(l) \/ AdoptLegacy(l) \/ Ship(l)
  PROVE  \A m \in Lines : Calm(line[m], line'[m]) /\ LineGood(m, line'[m])
<1> DEFINE r == line[l]
<1>0. r \in Line /\ LineOk(r) /\ LineGood(l, r)
  BY DEF BInv, TypeOK, LinesGood
<1> SUFFICES \E q : Set(l, q) /\ Calm(r, q) /\ LineGood(l, q)
  BY OneCalmLine
<1>1. CASE ConfirmCancellation(l)
  <2>1. r.request = "PENDING" /\ Set(l, CancelConfirmed(r))
    BY <1>1 DEF ConfirmCancellation
  <2>2. Calm(r, CancelConfirmed(r))
    BY <1>0, <2>1 DEF CancelConfirmed, GivenBack, Line, Calm, LineGood, Leaves
  <2>3. LineGood(l, CancelConfirmed(r))
    BY <1>0, <2>1 DEF CancelConfirmed, GivenBack, Line, LineGood, Leaves, Told, Cleared, Exposed
  <2> QED
    BY <2>1, <2>2, <2>3
<1>2. CASE ApprovePayment(l)
  <2> DEFINE pay == ReadyFor(BatchOf(l).path)
             q == [r EXCEPT !.payment = pay, !.approved = TRUE,
                            !.reviews = @ \ {"PAYMENT_APPROVAL"}]
  <2>1. pay \in {"EVIDENCE_PENDING", "PENDING"}
    BY DEF ReadyFor
  <2>2. Set(l, q)
    BY <1>2 DEF ApprovePayment
  <2> HIDE DEF pay
  <2>3. Calm(r, q)
    BY <1>0 DEF Line, Calm
  <2>4. LineGood(l, q)
    BY <1>0, <2>1 DEF Line, LineGood, Leaves, Told, Cleared
  <2> QED
    BY <2>2, <2>3, <2>4
<1>3. CASE RecordEvidence(l)
  <2>1. CASE Set(l, [r EXCEPT !.proof = TRUE])
    <3>1. Calm(r, [r EXCEPT !.proof = TRUE])
      BY <1>0 DEF Line, Calm
    <3>2. LineGood(l, [r EXCEPT !.proof = TRUE])
      BY <1>0 DEF Line, LineGood, Leaves, Told, Cleared
    <3> QED
      BY <2>1, <3>1, <3>2
  <2>2. CASE Set(l, [r EXCEPT !.reviews = @ \cup {"EVIDENCE"}])
    BY <1>0, <2>2 DEF Line, Calm, LineGood, Leaves, Told, Cleared
  <2> QED
    BY <1>3, <2>1, <2>2 DEF RecordEvidence
<1>4. CASE ConfirmEvidence(l)
  <2>1. CASE /\ r.payment = "EVIDENCE_PENDING" /\ Payable(r, BatchOf(l))
             /\ Set(l, [Settled(r) EXCEPT !.reviews = @ \ {"PAYMENT_APPROVAL", "EVIDENCE"}])
    <3> DEFINE q == [Settled(r) EXCEPT !.reviews = @ \ {"PAYMENT_APPROVAL", "EVIDENCE"}]
    <3>1. r.so \in {"ACKNOWLEDGED", "PAYMENT_PENDING"} /\ ~r.cancel /\ r.request = "NONE"
          /\ r.state = "SUPPLIER_ORDERED"
      BY <1>0, <2>1 DEF Payable, FrozenHolds, LineOk
    <3>2. /\ q.batch = r.batch /\ q.ack = r.ack /\ q.request = "NONE" /\ q.frozen = r.frozen
          /\ q.state = "SHIPMENT_PENDING" /\ q.so = "SHIPMENT_PENDING"
      BY <1>0, <3>1 DEF Settled, Line
    <3>3. LineGood(l, q)
      BY <1>0, <2>1, <3>1 DEF Settled, Line, LineGood, Leaves, Told, Cleared
    <3>4. Calm(r, q)
      BY <3>1, <3>2 DEF Calm
    <3> QED
      BY <2>1, <3>3, <3>4
  <2>2. CASE Set(l, [r EXCEPT !.reviews = @ \cup {"EVIDENCE"}])
    BY <1>0, <2>2 DEF Line, Calm, LineGood, Leaves, Told, Cleared
  <2> QED
    BY <1>4, <2>1, <2>2 DEF ConfirmEvidence
<1>5. CASE DispatchPayment(l)
  <2>0. r.payment = "PENDING"
    BY <1>5 DEF DispatchPayment
  <2>1. CASE Set(l, [r EXCEPT !.payment = "CANCELLED"])
    BY <1>0, <2>1 DEF Line, Calm, LineGood, Leaves, Told, Cleared
  <2>2. CASE ~r.cancel /\ Set(l, [Hold(r, "HELD") EXCEPT !.payment = "MANUAL_APPROVAL"])
    <3> DEFINE q == [Hold(r, "HELD") EXCEPT !.payment = "MANUAL_APPROVAL"]
    <3>1. r.state # "CANCELLED"
      BY <1>0, <2>2 DEF LineOk
    <3>2. Calm(r, q)
      BY <1>0, <3>1 DEF Hold, HoldExempt, Line, Calm
    <3>3. LineGood(l, q)
      BY <1>0 DEF Hold, Line, LineGood, Leaves, Told, Cleared
    <3> QED
      BY <2>2, <3>2, <3>3
  <2>3. CASE Set(l, [r EXCEPT !.payment = "MANUAL_APPROVAL",
                              !.reviews = @ \cup {"PAYMENT_APPROVAL"}])
    <3> DEFINE q == [r EXCEPT !.payment = "MANUAL_APPROVAL",
                              !.reviews = @ \cup {"PAYMENT_APPROVAL"}]
    <3>1. Calm(r, q)
      BY <1>0, <2>0 DEF Line, Calm
    <3>2. LineGood(l, q)
      BY <1>0, <2>0 DEF Line, LineGood, Leaves, Told, Cleared
    <3> QED
      BY <2>3, <3>1, <3>2
  <2>4. CASE Set(l, [r EXCEPT !.payment = "SENDING", !.call = TRUE])
    <3> DEFINE q == [r EXCEPT !.payment = "SENDING", !.call = TRUE]
    <3>1. Calm(r, q)
      BY <1>0, <2>0 DEF Line, Calm
    <3>2. LineGood(l, q)
      BY <1>0, <2>0 DEF Line, LineGood, Leaves, Told, Cleared
    <3> QED
      BY <2>4, <3>1, <3>2
  <2> QED
    BY <1>5, <2>1, <2>2, <2>3, <2>4 DEF DispatchPayment
<1>6. CASE PaymentUncertain(l)
  <2> DEFINE u == [r EXCEPT !.payment = "UNKNOWN", !.reviews = @ \cup {"RESULT_UNKNOWN"}]
             q == [u EXCEPT !.call = FALSE]
  <2>1. r.payment \in Out
    BY <1>0, <1>6 DEF PaymentUncertain, LineOk, Out
  <2>2. Calm(r, u) /\ Calm(r, q)
    BY <1>0 DEF Line, Calm
  <2>3. LineGood(l, u) /\ LineGood(l, q)
    BY <1>0, <2>1 DEF Line, LineGood, Leaves, Told, Cleared, Out
  <2>4. Set(l, u) \/ Set(l, q)
    BY <1>6 DEF PaymentUncertain
  <2> HIDE DEF u, q
  <2> QED
    BY <2>2, <2>3, <2>4
<1>7. CASE FinalizePayment(l)
  <2>1. /\ r.payment \in {"SENDING", "UNKNOWN"} /\ Set(l, Settled(r))
        /\ r.cancel \/ CanMove(r.so, "SHIPMENT_PENDING")
    BY <1>7 DEF FinalizePayment
  <2>2. CASE r.cancel \/ r.so = "CANCEL_PENDING"
    <3>1. Calm(r, Settled(r))
      BY <1>0, <2>2 DEF Settled, Line, Calm
    <3>2. LineGood(l, Settled(r))
      BY <1>0, <2>1, <2>2 DEF Settled, Line, LineGood, Leaves, Told, Cleared
    <3> QED
      BY <2>1, <3>1, <3>2
  <2>3. CASE ~(r.cancel \/ r.so = "CANCEL_PENDING")
    <3>1. r.so \in {"PAYMENT_PENDING", "SHIPMENT_PENDING"}
      BY <1>0, <2>1, <2>3 DEF CanMove, Allowed, Line, SupplierOrderStatus
    <3>2. r.request = "NONE" /\ r.state # "CANCELLED"
      BY <1>0, <2>3 DEF LineOk
    <3>3. Calm(r, Settled(r))
      BY <1>0, <2>3, <3>1, <3>2 DEF Settled, Line, Calm
    <3>4. LineGood(l, Settled(r))
      BY <1>0, <2>1, <2>3, <3>1, <3>2 DEF Settled, Line, LineGood, Leaves, Told, Cleared
    <3> QED
      BY <2>1, <3>3, <3>4
  <2> QED
    BY <2>2, <2>3
<1>8. CASE AdoptLegacy(l)
  <2> DEFINE q == [r EXCEPT !.frozen = TRUE, !.so = "PENDING", !.reviews = @ \ {"LEGACY"}]
  <2>1. /\ r.request = "NONE" /\ r.payment = "NONE" /\ r.so = "MANUAL_REVIEW" /\ Set(l, q)
        /\ ~r.cancel
    BY <1>8 DEF AdoptLegacy
  <2>2. Calm(r, q)
    BY <1>0, <2>1 DEF Line, Calm
  <2>3. LineGood(l, q)
    BY <1>0, <2>1 DEF Line, LineGood, Leaves, Told, Cleared
  <2> QED
    BY <2>1, <2>2, <2>3
<1>9. CASE Ship(l)
  <2> DEFINE q == [r EXCEPT !.so = "SHIPPED", !.state = "SHIPPED"]
  <2>1. /\ r.so = "SHIPMENT_PENDING" /\ r.state = "SHIPMENT_PENDING" /\ ~r.cancel
        /\ r.payment = "SUCCEEDED" /\ Set(l, q)
    BY <1>9 DEF Ship
  <2>2. r.request = "NONE"
    BY <1>0, <2>1 DEF LineOk
  <2>3. Calm(r, q)
    BY <1>0, <2>1, <2>2 DEF Line, Calm
  <2>4. LineGood(l, q)
    BY <1>0, <2>1, <2>2 DEF Line, LineGood, Leaves, Told, Cleared
  <2> QED
    BY <2>1, <2>3, <2>4
<1> QED
  BY <1>1, <1>2, <1>3, <1>4, <1>5, <1>6, <1>7, <1>8, <1>9

\* A requested cancellation tells a human, or is over.
LEMMA GoodCancelRequested ==
  ASSUME NEW l \in Lines, NEW r \in Line, LineOk(r), LineGood(l, r), r.request = "NONE",
         NEW sent \in BOOLEAN
  PROVE  LET q == CancelRequested(r, sent) IN
         /\ LineGood(l, q) /\ q.frozen = r.frozen /\ q.request # "NONE"
         /\ CancelsLocally(r, sent) => q.state = "CANCELLED"
         /\ sent /\ r.so \notin {"REJECTED", "CANCELLED"} => q.so # "CANCELLED"
<1> DEFINE q == CancelRequested(r, sent)
<1>0. r.state # "CANCELLED"
  BY DEF LineOk
<1>1. CASE CancelsLocally(r, sent)
  <2>1. /\ q.frozen = r.frozen /\ q.request = "CONFIRMED_LOCAL" /\ q.so = "CANCELLED"
        /\ q.state = "CANCELLED" /\ q.payment \in {"NONE", "CANCELLED"}
    BY <1>0, <1>1 DEF CancelRequested, GivenBack, Line
  <2>2. sent => r.so = "REJECTED"
    BY <1>1 DEF CancelsLocally
  <2>3. LineGood(l, q)
    BY <2>1 DEF LineGood, Told, Leaves, Cleared
  <2> QED
    BY <2>1, <2>2, <2>3
<1>2. CASE ~CancelsLocally(r, sent)
  <2>1. /\ q.frozen = r.frozen /\ q.request = "PENDING" /\ q.approved = r.approved
        /\ q.so = (IF r.so = "CANCELLED" THEN "CANCELLED" ELSE "CANCEL_PENDING")
        /\ q.payment \in {r.payment, "CANCELLED"}
        /\ "CANCELLATION_REQUIRED" \in q.reviews
        /\ r.reviews \subseteq q.reviews
    BY <1>0, <1>2 DEF CancelRequested, Line
  <2>2. Told(q)
    BY <2>1 DEF LineGood, Told
  <2>3. Leaves(q) /\ (l \in Large => Cleared(q))
    BY <2>1 DEF LineGood, Leaves, Cleared
  <2> QED
    BY <1>2, <2>1, <2>2, <2>3 DEF LineGood
<1> QED
  BY <1>1, <1>2

\* The supplier's answer stops a line with a review, and pays none above the limit.
LEMMA GoodAcknowledged ==
  ASSUME NEW l \in Lines, NEW r \in Line, LineOk(r), LineGood(l, r), r.ack = "NONE",
         NEW path \in PaymentPath, NEW v \in Verdict(l)
  PROVE  LET q == Acknowledged(r, path, v) IN
         /\ LineGood(l, q) /\ q.frozen = r.frozen /\ q.request = r.request
         /\ r.state = "CANCELLED" => q.state = "CANCELLED"
         /\ q.so = "CANCELLED" => r.so = "CANCELLED"
<1> DEFINE q == Acknowledged(r, path, v)
<1>0. r.payment = "NONE"
  BY DEF LineOk, Exposed, Line
<1>a. r.state = "CANCELLED" => r.cancel /\ r.so = "CANCELLED"
  BY DEF LineOk
<1>b. r.request # "NONE" => r.cancel /\ r.so \in {"CANCEL_PENDING", "CANCELLED"}
  BY DEF LineOk, LineGood, Leaves
<1>1. CASE v = "changed"
  <2>1. /\ q.frozen = r.frozen /\ q.request = r.request /\ q.payment = "NONE"
        /\ q.so \in {r.so, "MANUAL_REVIEW"} /\ "TERMS_CHANGED" \in q.reviews
        /\ r.reviews \ {"ACK_REQUIRED"} \subseteq q.reviews
        /\ r.so \in {"CANCEL_PENDING", "CANCELLED"} => q.so = r.so /\ q.state = r.state
    BY <1>0, <1>1 DEF Acknowledged, Hold, Line
  <2>2. Told(q)
    BY <2>1 DEF LineGood, Told
  <2>3. Leaves(q) /\ Cleared(q)
    BY <1>b, <2>1 DEF Leaves, Cleared
  <2> QED
    BY <1>a, <2>1, <2>2, <2>3 DEF LineGood
<1>2. CASE v = "rejected"
  <2>1. /\ q.frozen = r.frozen /\ q.request = r.request /\ q.payment = "NONE"
        /\ q.so \in {r.so, "REJECTED"} /\ "REJECTED" \in q.reviews
        /\ r.reviews \ {"ACK_REQUIRED"} \subseteq q.reviews
        /\ r.so \in {"CANCEL_PENDING", "CANCELLED"} => q.so = r.so /\ q.state = r.state
    BY <1>0, <1>2 DEF Acknowledged, Hold, Line
  <2>2. Told(q)
    BY <2>1 DEF LineGood, Told
  <2>3. Leaves(q) /\ Cleared(q)
    BY <1>b, <2>1 DEF Leaves, Cleared
  <2> QED
    BY <1>a, <2>1, <2>2, <2>3 DEF LineGood
<1>3. CASE v \notin {"changed", "rejected"} /\ (r.cancel \/ r.so = "CANCEL_PENDING")
  <2>1. /\ q.frozen = r.frozen /\ q.request = r.request /\ q.payment = "NONE"
        /\ q.so = r.so /\ q.state = r.state
        /\ r.reviews \ {"ACK_REQUIRED"} \subseteq q.reviews
    BY <1>0, <1>3 DEF Acknowledged, Line
  <2>2. Told(q)
    BY <2>1 DEF LineGood, Told
  <2>3. Leaves(q) /\ Cleared(q)
    BY <1>b, <2>1 DEF Leaves, Cleared
  <2> QED
    BY <2>1, <2>2, <2>3 DEF LineGood
<1>4. CASE v \notin {"changed", "rejected"} /\ ~(r.cancel \/ r.so = "CANCEL_PENDING")
  <2> DEFINE a == [[[r EXCEPT !.reviews = @ \ {"ACK_REQUIRED"}] EXCEPT !.ack = "ACCEPTED"]
                     EXCEPT !.state = "SUPPLIER_ORDERED"]
  <2>0. q = Prepared(a, path, v)
    BY <1>4 DEF Acknowledged
  <2>1. /\ a \in Line /\ a.frozen = r.frozen /\ a.request = "NONE" /\ r.request = "NONE"
        /\ a.payment = "NONE" /\ r.state # "CANCELLED"
    BY <1>0, <1>4, <1>a, <1>b, StateNames DEF Line, AckStatus
  <2>2. v \in {"blocked", "approval"} \/ (v = "ready" /\ l \notin Large)
    BY <1>4 DEF Verdict, Preparation
  <2>3. ReadyFor(path) \in {"EVIDENCE_PENDING", "PENDING"}
    BY DEF ReadyFor
  <2> HIDE DEF a
  <2>4. CASE v = "blocked"
    <3> DEFINE h == Hold(a, "HELD")
    <3>1. h \in Line /\ h.frozen = a.frozen /\ h.request = "NONE" /\ h.payment = "NONE"
      BY <2>1, StateNames, ReviewNames DEF Hold, Line
    <3>2. q = [h EXCEPT !.so = "MANUAL_REVIEW", !.reviews = @ \cup {"PREPARATION_BLOCKED"}]
      BY <2>0, <2>4 DEF Prepared
    <3> HIDE DEF h
    <3>3. /\ q.frozen = a.frozen /\ q.request = "NONE" /\ q.payment = "NONE"
          /\ q.so = "MANUAL_REVIEW" /\ "PREPARATION_BLOCKED" \in q.reviews
      BY <3>1, <3>2 DEF Line
    <3> QED
      BY <2>1, <3>3 DEF LineGood, Told, Leaves, Cleared
  <2>5. CASE v = "approval"
    <3>1. /\ q.frozen = a.frozen /\ q.request = "NONE" /\ q.payment = "MANUAL_APPROVAL"
          /\ q.so = "PAYMENT_PENDING" /\ "PAYMENT_APPROVAL" \in q.reviews
      BY <2>0, <2>1, <2>5 DEF Prepared, Line
    <3> QED
      BY <2>1, <3>1 DEF LineGood, Told, Leaves, Cleared
  <2>6. CASE v = "ready" /\ l \notin Large
    <3>1. /\ q.frozen = a.frozen /\ q.request = "NONE"
          /\ q.payment \in {"EVIDENCE_PENDING", "PENDING"} /\ q.so = "PAYMENT_PENDING"
      BY <2>0, <2>1, <2>3, <2>6 DEF Prepared, Line
    <3> QED
      BY <2>1, <2>6, <3>1 DEF LineGood, Told, Leaves
  <2> QED
    BY <2>2, <2>4, <2>5, <2>6
<1> QED
  BY <1>1, <1>2, <1>3, <1>4

\* A line whose file dissolves.
LEMMA GoodSurvivor ==
  ASSUME NEW l \in Lines, NEW r \in Line, LineGood(l, r)
  PROVE  LET q == Survivor(r) IN
         /\ LineGood(l, q) /\ q.frozen = r.frozen /\ q.request = r.request /\ q.state = r.state
         /\ q.so = "CANCELLED" => r.so = "CANCELLED"
<1> DEFINE q == Survivor(r)
<1>1. /\ q.reviews = r.reviews /\ q.payment = r.payment /\ q.request = r.request
      /\ q.approved = r.approved /\ q.frozen = r.frozen /\ q.state = r.state
      /\ q.so = IF r.so \in {"FILE_READY", "EXPORTED"} THEN "PENDING" ELSE r.so
  BY DEF Line, Survivor
<1> QED
  BY <1>1 DEF LineGood, Told, Leaves, Cleared

-----------------------------------------------------------------------------
(* The clauses of BatchIsTrue, and what keeps them true *)

Current(b) ==
  batch[b].status \in {"FILE_READY", "EXPORTED"} =>
    \A l \in batch[b].items : line[l].batch = b /\ line[l].so = batch[b].status
Dissolved(b) ==
  batch[b].status \in {"INVALIDATED", "CANCELLED"} =>
    ~batch[b].sent /\ \A l \in batch[b].items : line[l].batch # b
Stopped(b) ==
  batch[b].status = "CANCELLED" => \A l \in batch[b].items : line[l].state = "CANCELLED"
Summed(b) ==
  /\ batch[b].status = "ACKNOWLEDGED" => \A l \in batch[b].items : line[l].ack = "ACCEPTED"
  /\ batch[b].status = "REJECTED" => \A l \in batch[b].items : line[l].ack = "REJECTED"
Closed(b) ==
  batch[b].status = "RESOLVED" => \A l \in batch[b].items : line[l].batch = b =>
    line[l].so \in {"SHIPPED", "CANCELLED"} /\ line[l].state # "CANCEL_REQUESTED"

\* A request dissolves an unsent file, and stops the order of a line that no supplier
\* has; a file holds intents; and only a sent file has an answer.
FilesGood ==
  /\ \A l \in Lines : line[l].request # "NONE" /\ line[l].batch # NoBatch =>
       batch[line[l].batch].sent
  /\ \A l \in Lines : line[l].request # "NONE" /\ line[l].frozen /\ line[l].batch = NoBatch =>
       line[l].state = "CANCELLED"
  /\ \A b \in Batches : \A l \in batch[b].items : line[l].frozen
  /\ \A b \in Batches :
       batch[b].status \in {"SENT", "ACKNOWLEDGED", "PARTIAL", "REJECTED", "CANCEL_PENDING"} =>
         batch[b].sent

BatchGood(b) == Current(b) /\ Dissolved(b) /\ Stopped(b) /\ Summed(b) /\ Closed(b)

GInv == LinesGood /\ FilesGood /\ \A b \in Batches : BatchGood(b)

\* What the types and the agreement say of lines, batches and items.
Shape ==
  /\ \A m \in Lines : line[m] \in Line /\ line[m].batch \in Batches \cup {NoBatch}
  /\ \A c \in Batches : batch[c] \in Batch /\ batch[c].items \subseteq Lines
  /\ \A c \in Batches : batch[c].sent \/ batch[c].status \in {"FILE_READY", "EXPORTED"} =>
       \A m \in batch[c].items : line[m].batch = c

LEMMA ShapeHolds == ASSUME BInv PROVE Shape
BY DEF BInv, TypeOK, Agreement, Line, Batch, Shape

\* Calm steps keep all of it.
LEMMA CalmKeepsFiles ==
  ASSUME BInv, GInv, UNCHANGED batch,
         \A m \in Lines : Calm(line[m], line'[m]) /\ LineGood(m, line'[m])
  PROVE  GInv'
<1>0. Shape
  BY ShapeHolds
<1>1. LinesGood'
  BY DEF LinesGood
<1>2. FilesGood'
  BY <1>0 DEF GInv, FilesGood, Calm, Shape
<1>3. ASSUME NEW b \in Batches PROVE BatchGood(b)'
  <2>0. BatchGood(b)
    BY DEF GInv
  <2>1. Current(b)'
    BY <1>0, <2>0 DEF BatchGood, Current, Calm, Shape
  <2>2. Dissolved(b)'
    BY <1>0, <2>0 DEF BatchGood, Dissolved, Calm, Shape
  <2>3. Stopped(b)'
    BY <1>0, <2>0 DEF BatchGood, Stopped, Calm, Shape
  <2>4. Summed(b)'
    BY <1>0, <2>0 DEF BatchGood, Summed, Calm, Shape
  <2>5. Closed(b)'
    BY <1>0, <2>0 DEF BatchGood, Closed, Calm, Shape
  <2> QED
    BY <2>1, <2>2, <2>3, <2>4, <2>5 DEF BatchGood
<1> QED
  BY <1>1, <1>2, <1>3 DEF GInv

\* Reconfirmed terms accept one line of a sent file.
LEMMA RevalidateFiles ==
  ASSUME BInv, GInv, NEW l \in Lines, Revalidate(l)
  PROVE  GInv' /\ \A m \in Lines : line'[m].so = "CANCELLED" => line[m].so = "CANCELLED"
<1> DEFINE r == line[l]
           path == BatchOf(l).path
           agreed == [r EXCEPT !.ack = "ACCEPTED",
                        !.so = IF @ = "MANUAL_REVIEW" THEN "ACKNOWLEDGED" ELSE @,
                        !.state = "SUPPLIER_ORDERED"]
<1>0. Shape /\ r \in Line /\ LineOk(r) /\ LineGood(l, r)
  BY ShapeHolds DEF BInv, TypeOK, GInv, LinesGood
<1>1. /\ r.batch # NoBatch /\ r.ack \in {"ACCEPTED", "MANUAL_REVIEW"} /\ r.request = "NONE"
      /\ r.so \in {"MANUAL_REVIEW", "ACKNOWLEDGED", "PAYMENT_PENDING"}
      /\ r.payment \notin {"SENDING", "UNKNOWN", "SUCCEEDED", "CANCELLED"} /\ ~r.cancel
  BY DEF Revalidate, FrozenHolds
<1>2. PICK resolved \in {{}, {"HELD"}}, decision \in Preparation(l) \ {"blocked"} :
        LET ready == IF r.payment = "NONE" THEN Prepared(agreed, path, decision)
                     ELSE [agreed EXCEPT !.reviews = @ \cup {"PAYMENT_APPROVAL"}]
        IN Set(l, [ready EXCEPT !.reviews =
                     @ \ ({"TERMS_CHANGED", "PREPARATION_BLOCKED"} \cup resolved)])
  BY DEF Revalidate
<1> DEFINE ready == IF r.payment = "NONE" THEN Prepared(agreed, path, decision)
                    ELSE [agreed EXCEPT !.reviews = @ \cup {"PAYMENT_APPROVAL"}]
           q == [ready EXCEPT !.reviews =
                   @ \ ({"TERMS_CHANGED", "PREPARATION_BLOCKED"} \cup resolved)]
<1>3. /\ agreed \in Line /\ agreed.batch = r.batch /\ agreed.ack = "ACCEPTED"
      /\ agreed.payment = r.payment /\ agreed.approved = r.approved /\ agreed.frozen = r.frozen
      /\ agreed.request = "NONE" /\ agreed.so \in {"ACKNOWLEDGED", "PAYMENT_PENDING"}
  BY <1>0, <1>1, StateNames DEF Line, AckStatus, SupplierOrderStatus
<1>4. decision = "approval" \/ (decision = "ready" /\ l \notin Large)
  BY DEF Preparation
<1>5. ReadyFor(path) \in {"EVIDENCE_PENDING", "PENDING"}
  BY DEF ReadyFor
<1> HIDE DEF agreed, path
<1>6. /\ ready.batch = r.batch /\ ready.ack = "ACCEPTED" /\ ready.frozen = r.frozen
      /\ ready.request = "NONE" /\ ready.approved = r.approved /\ ready \in Line
      /\ ready.so \in {"ACKNOWLEDGED", "PAYMENT_PENDING"}
      /\ \/ ready.payment \in {r.payment, "MANUAL_APPROVAL"}
            /\ "PAYMENT_APPROVAL" \in ready.reviews
         \/ l \notin Large /\ ready.payment \in {"EVIDENCE_PENDING", "PENDING"}
  <2>1. CASE r.payment = "NONE" /\ decision = "approval"
    <3>1. ready = [agreed EXCEPT !.payment = "MANUAL_APPROVAL", !.so = "PAYMENT_PENDING",
                                 !.reviews = @ \cup {"PAYMENT_APPROVAL"}]
      BY <2>1 DEF Prepared
    <3>2. agreed.reviews \cup {"PAYMENT_APPROVAL"} \in SUBSET (BusinessReview \cup PaymentReview)
      BY <1>3, ReviewNames DEF Line
    <3> HIDE DEF ready, r
    <3> QED
      BY <1>3, <3>1, <3>2 DEF Line, PaymentStatus, SupplierOrderStatus
  <2>2. CASE r.payment = "NONE" /\ decision = "ready"
    <3> DEFINE pay == ReadyFor(path)
    <3>1. ready = [agreed EXCEPT !.payment = pay, !.so = "PAYMENT_PENDING"]
      BY <2>2 DEF Prepared
    <3>2. pay \in {"EVIDENCE_PENDING", "PENDING"} /\ l \notin Large
      BY <1>4, <1>5, <2>2
    <3> HIDE DEF ready, r, pay
    <3> QED
      BY <1>3, <3>1, <3>2 DEF Line, PaymentStatus, SupplierOrderStatus
  <2>3. CASE r.payment # "NONE"
    <3>1. ready = [agreed EXCEPT !.reviews = @ \cup {"PAYMENT_APPROVAL"}]
      BY <2>3
    <3>2. agreed.reviews \cup {"PAYMENT_APPROVAL"} \in SUBSET (BusinessReview \cup PaymentReview)
      BY <1>3, ReviewNames DEF Line
    <3> HIDE DEF ready, r
    <3> QED
      BY <1>3, <3>1, <3>2 DEF Line
  <2> QED
    BY <1>4, <2>1, <2>2, <2>3
<1> HIDE DEF ready
<1>7. /\ q.batch = r.batch /\ q.ack = "ACCEPTED" /\ q.frozen = r.frozen /\ q.request = "NONE"
      /\ q.approved = r.approved /\ q.so = ready.so /\ q.payment = ready.payment
      /\ "PAYMENT_APPROVAL" \in ready.reviews => "PAYMENT_APPROVAL" \in q.reviews
  BY <1>6 DEF Line
<1>8. LineGood(l, q)
  BY <1>0, <1>1, <1>6, <1>7 DEF LineGood, Told, Leaves, Cleared
<1>9. Set(l, q)
  BY <1>2 DEF ready
<1> HIDE DEF q
<1>10. \A m \in Lines : line'[m] = IF m = l THEN q ELSE line[m]
  BY <1>9 DEF Set, BInv, TypeOK
<1>11. PICK st \in {batch[r.batch].status, "ACKNOWLEDGED"} :
         /\ batch' = [batch EXCEPT ![r.batch].status = st]
         /\ st # batch[r.batch].status =>
              \A m \in batch[r.batch].items : line'[m].ack = "ACCEPTED"
  BY DEF Revalidate
<1>12. r.batch \in Batches /\ l \in batch[r.batch].items /\ batch[r.batch].sent
  BY <1>0, <1>1 DEF BInv, Agreement, Shape
<1> DEFINE b0 == r.batch
<1>13. \A c \in Batches : /\ batch'[c].items = batch[c].items /\ batch'[c].sent = batch[c].sent
                          /\ batch'[c].status = IF c = b0 THEN st ELSE batch[c].status
  BY <1>11, <1>12 DEF BInv, TypeOK, Batch
<1>14. /\ line[l].batch = b0 /\ line'[l].batch = b0 /\ line'[l].ack = "ACCEPTED"
       /\ line[l].ack # "REJECTED" /\ line'[l].request = "NONE"
       /\ line'[l].frozen = line[l].frozen /\ b0 # NoBatch /\ line[l].state # "CANCELLED"
       /\ line[l].so \notin {"SHIPPED", "CANCELLED"} /\ line'[l].so # "CANCELLED"
       /\ \A m \in Lines : m # l => line'[m] = line[m]
  BY <1>0, <1>1, <1>6, <1>7, <1>10 DEF LineOk
<1> HIDE DEF b0, r
<1>15. LinesGood'
  BY <1>8, <1>10 DEF GInv, LinesGood
<1>16. FilesGood'
  BY <1>0, <1>12, <1>13, <1>14 DEF GInv, FilesGood, Shape, b0
<1>17. ASSUME NEW b \in Batches PROVE BatchGood(b)'
  <2>0. BatchGood(b)
    BY DEF GInv
  <2>1. Current(b)'
    BY <1>0, <1>12, <1>13, <1>14, <2>0 DEF BatchGood, Current, Shape, BInv, Agreement, b0
  <2>2. Dissolved(b)'
    BY <1>0, <1>12, <1>13, <1>14, <2>0 DEF BatchGood, Dissolved, Shape, b0
  <2>3. Stopped(b)'
    BY <1>0, <1>12, <1>13, <1>14, <2>0 DEF BatchGood, Stopped, Shape, b0
  <2>4. Summed(b)'
    BY <1>0, <1>11, <1>13, <1>14, <2>0 DEF BatchGood, Summed, Shape, b0
  <2>5. Closed(b)'
    BY <1>0, <1>12, <1>13, <1>14, <2>0 DEF BatchGood, Closed, Shape, b0
  <2> QED
    BY <2>1, <2>2, <2>3, <2>4, <2>5 DEF BatchGood
<1> QED
  BY <1>14, <1>15, <1>16, <1>17 DEF GInv

\* A file whose row and whose active lines a step leaves alone stays true.
LEMMA OtherFile ==
  ASSUME Shape, FilesGood, NEW c \in Batches, BatchGood(c),
         /\ batch'[c].status = batch[c].status /\ batch'[c].sent = batch[c].sent
         /\ batch'[c].items = batch[c].items,
         \A l \in batch[c].items :
           /\ line[l].batch = c => line'[l] = line[l]
           /\ line[l].batch # c => line'[l].batch # c
           /\ line[l].state = "CANCELLED" => line'[l].state = "CANCELLED"
  PROVE  BatchGood(c)'
<1>1. Current(c)'
  BY DEF BatchGood, Current
<1>2. Dissolved(c)'
  BY DEF BatchGood, Dissolved
<1>3. Stopped(c)'
  BY DEF BatchGood, Stopped
<1>4. Summed(c)'
  BY DEF BatchGood, Summed, FilesGood, Shape
<1>5. Closed(c)'
  BY DEF BatchGood, Closed
<1> QED
  BY <1>1, <1>2, <1>3, <1>4, <1>5 DEF BatchGood

\* A new file takes lines that are in no file and have no request.
LEMMA CreateFiles ==
  ASSUME BInv, GInv, NEW b \in Batches, NEW ls \in SUBSET Lines, NEW path \in PaymentPath,
         CreateBatch(b, ls, path)
  PROVE  GInv'
<1>0. Shape
  BY ShapeHolds
<1>1. /\ batch[b].status = "NONE"
      /\ \A l \in ls : /\ line[l].frozen /\ ~line[l].cancel /\ line[l].batch = NoBatch
                       /\ line[l].request = "NONE"
  BY DEF CreateBatch, FrozenHolds, BInv, LineOk
<1>2. \A l \in Lines : /\ l \in ls => line'[l] = [line[l] EXCEPT !.so = "FILE_READY", !.batch = b]
                       /\ l \notin ls => line'[l] = line[l]
  BY DEF CreateBatch
<1>3. \A c \in Batches :
        /\ c = b => /\ batch'[c].status = "FILE_READY" /\ ~batch'[c].sent
                    /\ batch'[c].items = ls
        /\ c # b => batch'[c] = batch[c]
  BY DEF CreateBatch, BInv, TypeOK
<1>4. \A l \in Lines :
        /\ l \in ls => line'[l].so = "FILE_READY" /\ line'[l].batch = b
        /\ line'[l].frozen = line[l].frozen /\ line'[l].request = line[l].request
        /\ line'[l].state = line[l].state /\ line'[l].ack = line[l].ack
  BY <1>0, <1>2 DEF Shape, Line
<1>5. LinesGood'
  <2> SUFFICES ASSUME NEW l \in Lines PROVE LineGood(l, line'[l])
    BY DEF LinesGood
  <2>1. LineGood(l, line[l]) /\ line[l] \in Line
    BY <1>0 DEF GInv, LinesGood, Shape
  <2>2. CASE l \in ls
    <3>1. line[l].request = "NONE" /\ line'[l] = [line[l] EXCEPT !.so = "FILE_READY", !.batch = b]
      BY <1>1, <1>2, <2>2
    <3>2. /\ line'[l].so = "FILE_READY" /\ line'[l].reviews = line[l].reviews
          /\ line'[l].payment = line[l].payment /\ line'[l].approved = line[l].approved
          /\ line'[l].request = "NONE"
      BY <2>1, <3>1 DEF Line
    <3> QED
      BY <2>1, <3>2 DEF LineGood, Told, Leaves, Cleared
  <2> QED
    BY <1>2, <2>1, <2>2
<1>6. FilesGood'
  <2>1. \A l \in Lines : line'[l].request # "NONE" => line'[l] = line[l] /\ l \notin ls
    BY <1>1, <1>2, <1>4
  <2>2. \A l \in Lines : line'[l].request # "NONE" /\ line'[l].batch # NoBatch =>
          batch'[line'[l].batch].sent
    <3> SUFFICES ASSUME NEW l \in Lines, line'[l].request # "NONE", line'[l].batch # NoBatch
                 PROVE  batch'[line'[l].batch].sent
      OBVIOUS
    <3>1. /\ line'[l] = line[l] /\ line[l].batch \in Batches /\ batch[line[l].batch].sent
      BY <1>0, <2>1 DEF GInv, FilesGood, Shape
    <3>2. line[l].batch # b
      BY <1>1, <3>1 DEF BInv, Agreement
    <3> QED
      BY <1>3, <3>1, <3>2
  <2>3. \A l \in Lines : line'[l].request # "NONE" /\ line'[l].frozen /\ line'[l].batch = NoBatch =>
          line'[l].state = "CANCELLED"
    BY <2>1 DEF GInv, FilesGood
  <2>4. \A c \in Batches : \A l \in batch'[c].items : line'[l].frozen
    BY <1>0, <1>1, <1>3, <1>4 DEF GInv, FilesGood, Shape
  <2>5. \A c \in Batches :
         batch'[c].status \in {"SENT", "ACKNOWLEDGED", "PARTIAL", "REJECTED", "CANCEL_PENDING"} =>
           batch'[c].sent
    BY <1>3 DEF GInv, FilesGood
  <2> QED
    BY <2>2, <2>3, <2>4, <2>5 DEF FilesGood
<1>7. ASSUME NEW c \in Batches PROVE BatchGood(c)'
  <2>1. CASE c = b
    <3>1. /\ batch'[c].status = "FILE_READY" /\ batch'[c].items = ls
          /\ \A l \in ls : line'[l].so = "FILE_READY" /\ line'[l].batch = c
      BY <1>3, <1>4, <2>1
    <3> QED
      BY <3>1 DEF BatchGood, Current, Dissolved, Stopped, Summed, Closed
  <2>2. CASE c # b
    <3>1. batch'[c] = batch[c] /\ batch[c].items \subseteq Lines
      BY <1>0, <1>3, <2>2 DEF Shape
    <3>2. \A l \in batch[c].items :
            /\ line[l].batch = c => line'[l] = line[l]
            /\ line[l].batch # c => line'[l].batch # c
            /\ line[l].state = "CANCELLED" => line'[l].state = "CANCELLED"
      BY <1>1, <1>2, <1>4, <2>2, <3>1, NoBatchAssumption
    <3> QED
      BY <1>0, <3>1, <3>2, OtherFile DEF GInv
  <2> QED
    BY <2>1, <2>2
<1> QED
  BY <1>5, <1>6, <1>7 DEF GInv

\* An export moves a current file and all its lines.
LEMMA ExportFiles ==
  ASSUME BInv, GInv, NEW b \in Batches, ExportBatch(b)
  PROVE  GInv'
<1>0. Shape
  BY ShapeHolds
<1>1. \A l \in batch[b].items : line[l].batch = b /\ line[l].so = "FILE_READY"
  BY DEF ExportBatch, GInv, BatchGood, Current
<1>2. batch[b].status = "FILE_READY" /\ ~batch[b].sent
  BY DEF ExportBatch, BInv, Agreement
<1>3. \A l \in Lines :
        /\ l \in batch[b].items => line'[l] = [line[l] EXCEPT !.so = "EXPORTED"]
        /\ l \notin batch[b].items => line'[l] = line[l]
  BY <1>1 DEF ExportBatch
<1>4. \A c \in Batches :
        /\ batch'[c].items = batch[c].items /\ batch'[c].sent = batch[c].sent
        /\ batch'[c].status = IF c = b THEN "EXPORTED" ELSE batch[c].status
  BY DEF ExportBatch, BInv, TypeOK, Batch
<1>5. \A l \in Lines :
        /\ l \in batch[b].items => line'[l].so = "EXPORTED"
        /\ line'[l].frozen = line[l].frozen /\ line'[l].request = line[l].request
        /\ line'[l].state = line[l].state /\ line'[l].ack = line[l].ack
        /\ line'[l].batch = line[l].batch /\ line'[l].reviews = line[l].reviews
        /\ line'[l].payment = line[l].payment /\ line'[l].approved = line[l].approved
  BY <1>0, <1>3 DEF Shape, Line
<1>6. LinesGood'
  <2> SUFFICES ASSUME NEW l \in Lines PROVE LineGood(l, line'[l])
    BY DEF LinesGood
  <2>1. LineGood(l, line[l])
    BY DEF GInv, LinesGood
  <2>2. CASE l \in batch[b].items
    <3>1. line[l].so = "FILE_READY" /\ line'[l].so = "EXPORTED"
      BY <1>1, <1>5, <2>2
    <3> QED
      BY <1>5, <2>1, <3>1 DEF LineGood, Told, Leaves, Cleared
  <2> QED
    BY <1>3, <2>1, <2>2
<1>7. FilesGood'
  BY <1>0, <1>4, <1>5 DEF GInv, FilesGood, Shape
<1>8. ASSUME NEW c \in Batches PROVE BatchGood(c)'
  <2>1. CASE c = b
    <3>1. /\ batch'[c].status = "EXPORTED"
          /\ \A l \in batch'[c].items : line'[l].so = "EXPORTED" /\ line'[l].batch = c
      BY <1>0, <1>1, <1>4, <1>5, <2>1 DEF Shape
    <3> QED
      BY <3>1 DEF BatchGood, Current, Dissolved, Stopped, Summed, Closed
  <2>2. CASE c # b
    <3>1. /\ batch'[c].status = batch[c].status /\ batch'[c].sent = batch[c].sent
          /\ batch'[c].items = batch[c].items /\ batch[c].items \subseteq Lines
      BY <1>0, <1>4, <2>2 DEF Shape, Batch
    <3>2. \A l \in batch[c].items :
            /\ line[l].batch = c => line'[l] = line[l]
            /\ line[l].batch # c => line'[l].batch # c
            /\ line[l].state = "CANCELLED" => line'[l].state = "CANCELLED"
      BY <1>1, <1>3, <1>5, <2>2, <3>1
    <3> QED
      BY <1>0, <3>1, <3>2, OtherFile DEF GInv
  <2> QED
    BY <2>1, <2>2
<1> QED
  BY <1>6, <1>7, <1>8 DEF GInv

\* Sending takes a current file, so no line of it has a request.
LEMMA MarkSentFiles ==
  ASSUME BInv, GInv, NEW b \in Batches, MarkSent(b)
  PROVE  GInv'
<1>0. Shape
  BY ShapeHolds
<1>1. /\ batch[b].status \in {"FILE_READY", "EXPORTED"}
      /\ \A l \in batch[b].items : line[l].batch = b /\ line[l].request = "NONE"
  BY <1>0 DEF MarkSent, BInv, LineOk, Shape
<1>3. \A l \in Lines :
        /\ l \in batch[b].items => line'[l] = [line[l] EXCEPT !.so = "SENT"]
        /\ l \notin batch[b].items => line'[l] = line[l]
  BY DEF MarkSent
<1>4. \A c \in Batches :
        /\ batch'[c].items = batch[c].items
        /\ batch'[c].sent <=> (c = b \/ batch[c].sent)
        /\ batch'[c].status = IF c = b THEN "SENT" ELSE batch[c].status
        /\ c # b => batch'[c] = batch[c]
  BY DEF MarkSent, BInv, TypeOK, Batch
<1>5. \A l \in Lines :
        /\ l \in batch[b].items => line'[l].so = "SENT"
        /\ line'[l].frozen = line[l].frozen /\ line'[l].request = line[l].request
        /\ line'[l].state = line[l].state /\ line'[l].ack = line[l].ack
        /\ line'[l].batch = line[l].batch /\ line'[l].reviews = line[l].reviews
        /\ line'[l].payment = line[l].payment /\ line'[l].approved = line[l].approved
  BY <1>0, <1>3 DEF Shape, Line
<1>6. LinesGood'
  <2> SUFFICES ASSUME NEW l \in Lines PROVE LineGood(l, line'[l])
    BY DEF LinesGood
  <2>1. LineGood(l, line[l])
    BY DEF GInv, LinesGood
  <2>2. CASE l \in batch[b].items
    <3>1. line[l].request = "NONE" /\ line'[l].so = "SENT"
      BY <1>1, <1>5, <2>2
    <3> QED
      BY <1>5, <2>1, <3>1 DEF LineGood, Told, Leaves, Cleared
  <2> QED
    BY <1>3, <2>1, <2>2
<1>7. FilesGood'
  BY <1>0, <1>4, <1>5 DEF GInv, FilesGood, Shape
<1>8. ASSUME NEW c \in Batches PROVE BatchGood(c)'
  <2>1. CASE c = b
    <3>1. /\ batch'[c].status = "SENT"
      BY <1>4, <2>1
    <3> QED
      BY <3>1 DEF BatchGood, Current, Dissolved, Stopped, Summed, Closed
  <2>2. CASE c # b
    <3>1. /\ batch'[c].status = batch[c].status /\ batch'[c].sent = batch[c].sent
          /\ batch'[c].items = batch[c].items /\ batch[c].items \subseteq Lines
      BY <1>0, <1>4, <2>2 DEF Shape, Batch
    <3>2. \A l \in batch[c].items :
            /\ line[l].batch = c => line'[l] = line[l]
            /\ line[l].batch # c => line'[l].batch # c
            /\ line[l].state = "CANCELLED" => line'[l].state = "CANCELLED"
      BY <1>1, <1>3, <1>5, <2>2, <3>1
    <3> QED
      BY <1>0, <3>1, <3>2, OtherFile DEF GInv
  <2> QED
    BY <2>1, <2>2
<1> QED
  BY <1>6, <1>7, <1>8 DEF GInv

\* A batch is resolved when its lines are over.
LEMMA ResolveFiles ==
  ASSUME BInv, GInv, NEW b \in Batches, ResolveBatch(b)
  PROVE  GInv'
<1>0. Shape
  BY ShapeHolds
<1>1. \A l \in batch[b].items :
        line[l].so \in {"SHIPPED", "CANCELLED"} /\ line[l].state # "CANCEL_REQUESTED"
  BY DEF ResolveBatch
<1>2. UNCHANGED line /\ \A c \in Batches :
        /\ batch'[c].items = batch[c].items /\ batch'[c].sent = batch[c].sent
        /\ batch'[c].status = IF c = b THEN "RESOLVED" ELSE batch[c].status
  BY DEF ResolveBatch, BInv, TypeOK, Batch
<1>3. LinesGood'
  BY <1>2 DEF GInv, LinesGood
<1>4. FilesGood'
  BY <1>0, <1>2 DEF GInv, FilesGood, Shape
<1>5. ASSUME NEW c \in Batches PROVE BatchGood(c)'
  <2>0. BatchGood(c)
    BY DEF GInv
  <2> QED
    BY <1>1, <1>2, <2>0 DEF BatchGood, Current, Dissolved, Stopped, Summed, Closed
<1> QED
  BY <1>3, <1>4, <1>5 DEF GInv

\* An answer reaches the lines of one sent file and adds up to its status.
LEMMA AcknowledgeFiles ==
  ASSUME BInv, GInv, NEW b \in Batches, NEW verdict,
         \A l \in batch[b].items : verdict[l] \in Verdict(l),
         Acknowledge(b, verdict)
  PROVE  GInv'
<1> DEFINE put(l) == Acknowledged(line[l], batch[b].path, verdict[l])
<1>0. Shape /\ batch[b].path \in PaymentPath /\ batch[b].items \subseteq Lines
  BY ShapeHolds DEF Shape, Batch
<1>1. /\ batch[b].sent /\ ~batch[b].acked /\ batch[b].status \in {"SENT", "CANCEL_PENDING"}
      /\ \A l \in batch[b].items : line[l].batch = b /\ line[l].ack = "NONE"
  BY <1>0 DEF Acknowledge, BInv, Agreement, Shape
<1>2. \A l \in batch[b].items :
        /\ LineGood(l, put(l)) /\ put(l).frozen = line[l].frozen
        /\ put(l).request = line[l].request /\ put(l).batch = line[l].batch
        /\ line[l].state = "CANCELLED" => put(l).state = "CANCELLED"
  <2> SUFFICES ASSUME NEW l \in batch[b].items
               PROVE  /\ LineGood(l, put(l)) /\ put(l).frozen = line[l].frozen
                      /\ put(l).request = line[l].request /\ put(l).batch = line[l].batch
                      /\ line[l].state = "CANCELLED" => put(l).state = "CANCELLED"
    OBVIOUS
  <2>1. /\ l \in Lines /\ line[l] \in Line /\ LineOk(line[l]) /\ LineGood(l, line[l])
        /\ line[l].ack = "NONE" /\ verdict[l] \in Verdict(l) /\ line[l].batch # NoBatch
    BY <1>0, <1>1, NoBatchAssumption DEF BInv, GInv, LinesGood, Shape
  <2>2. verdict[l] \in {"changed", "rejected", "blocked", "approval", "ready"}
    BY <2>1 DEF Verdict, Preparation
  <2> QED
    BY <1>0, <2>1, <2>2, GoodAcknowledged, SoundAcknowledged
<1>3. \A l \in Lines : /\ l \in batch[b].items => line'[l] = put(l)
                       /\ l \notin batch[b].items => line'[l] = line[l]
  BY DEF Acknowledge
<1>4. PICK st \in BatchStatus :
        /\ batch' = [batch EXCEPT ![b].acked = TRUE, ![b].status = st]
        /\ \/ st = "CANCEL_PENDING"
           \/ st = "ACKNOWLEDGED" /\ \A l \in batch[b].items : line'[l].ack = "ACCEPTED"
           \/ st = "REJECTED" /\ \A l \in batch[b].items : line'[l].ack = "REJECTED"
           \/ st = "PARTIAL"
  <2> DEFINE acks == {line'[l].ack : l \in batch[b].items}
             st == IF batch[b].status = "CANCEL_PENDING" THEN "CANCEL_PENDING" ELSE OutcomeOf(acks)
  <2>1. batch' = [batch EXCEPT ![b].acked = TRUE, ![b].status = st]
    BY DEF Acknowledge
  <2>2. \A l \in batch[b].items : line'[l].ack \in acks
    OBVIOUS
  <2>3. st \in {"CANCEL_PENDING", "ACKNOWLEDGED", "REJECTED", "PARTIAL"}
    BY DEF OutcomeOf
  <2>4. st = "ACKNOWLEDGED" => acks = {"ACCEPTED"}
    BY DEF OutcomeOf
  <2>5. st = "REJECTED" => acks = {"REJECTED"}
    BY DEF OutcomeOf
  <2> HIDE DEF acks, st
  <2>6. st \in BatchStatus
    BY <2>3 DEF BatchStatus
  <2> QED
    BY <2>1, <2>2, <2>3, <2>4, <2>5, <2>6
<1> HIDE DEF put
<1>5. \A c \in Batches :
        /\ batch'[c].items = batch[c].items /\ batch'[c].sent = batch[c].sent
        /\ batch'[c].status = IF c = b THEN st ELSE batch[c].status
  BY <1>4 DEF BInv, TypeOK, Batch
<1>6. LinesGood'
  BY <1>2, <1>3 DEF GInv, LinesGood
<1>7. \A l \in Lines :
        /\ line'[l].frozen = line[l].frozen /\ line'[l].request = line[l].request
        /\ line'[l].batch = line[l].batch
        /\ line[l].state = "CANCELLED" => line'[l].state = "CANCELLED"
  BY <1>2, <1>3
<1>8. FilesGood'
  BY <1>0, <1>1, <1>5, <1>7 DEF GInv, FilesGood, Shape
<1>9. ASSUME NEW c \in Batches PROVE BatchGood(c)'
  <2>1. CASE c = b
    <3>1. batch'[c].status = st /\ batch'[c].items = batch[b].items
      BY <1>5, <2>1
    <3> QED
      BY <1>4, <3>1 DEF BatchGood, Current, Dissolved, Stopped, Summed, Closed
  <2>2. CASE c # b
    <3>1. /\ batch'[c].status = batch[c].status /\ batch'[c].sent = batch[c].sent
          /\ batch'[c].items = batch[c].items /\ batch[c].items \subseteq Lines
      BY <1>0, <1>5, <2>2 DEF Shape
    <3>2. \A l \in batch[c].items :
            /\ line[l].batch = c => line'[l] = line[l]
            /\ line[l].batch # c => line'[l].batch # c
            /\ line[l].state = "CANCELLED" => line'[l].state = "CANCELLED"
      BY <1>1, <1>3, <1>7, <2>2, <3>1
    <3> QED
      BY <1>0, <3>1, <3>2, OtherFile DEF GInv
  <2> QED
    BY <2>1, <2>2
<1> QED
  BY <1>6, <1>8, <1>9 DEF GInv

\* A line in a sent file is answered; an unsent one can be cancelled here.
LEMMA UnsentIsLocal ==
  ASSUME BInv, NEW l \in Lines, ~BatchOf(l).sent, line[l].frozen
  PROVE  CancelsLocally(line[l], BatchOf(l).sent)
<1>1. line[l].ack = "NONE" /\ line[l].ack \in AckStatus
  BY ShapeHolds DEF BInv, Agreement, BatchOf, Shape, Line
<1>2. ~Exposed(line[l])
  BY <1>1 DEF BInv, LineOk, Exposed
<1> QED
  BY <1>2 DEF CancelsLocally

\* A request dissolves the line's file, or leaves it with the supplier.
LEMMA RequestFiles ==
  ASSUME BInv, GInv, NEW l \in Lines, RequestCancellation(l)
  PROVE  GInv'
<1> DEFINE b == line[l].batch
           sent == BatchOf(l).sent
           loc == CancelsLocally(line[l], sent)
           q == CancelRequested(line[l], sent)
           loose(m) == m # l /\ b # NoBatch /\ ~sent /\ line[m].batch = b
           put(m) == Survivor(line[m])
<1>0. Shape /\ b \in Batches \cup {NoBatch}
  BY ShapeHolds DEF Shape
<1>1. sent \in BOOLEAN /\ (b # NoBatch => sent = batch[b].sent) /\ (b = NoBatch => ~sent)
  BY <1>0 DEF BatchOf, NoBatchRow, Shape, Batch
<1>2. line[l].request = "NONE" /\ line[l].state # "CANCELLED"
  BY DEF RequestCancellation, BInv, LineOk
<1>3. /\ LineGood(l, q) /\ q.frozen = line[l].frozen /\ q.request # "NONE"
      /\ loc => q.state = "CANCELLED"
      /\ q.batch = (IF sent THEN b ELSE NoBatch) /\ q.ack = line[l].ack
  BY <1>0, <1>1, <1>2, GoodCancelRequested, CancelledItem DEF BInv, GInv, LinesGood, Shape
<1>4. \A m \in Lines :
        /\ LineGood(m, put(m)) /\ put(m).frozen = line[m].frozen
        /\ put(m).request = line[m].request /\ put(m).state = line[m].state
        /\ put(m).batch = NoBatch /\ put(m).ack = line[m].ack
  BY <1>0, GoodSurvivor, SoundSurvivor DEF BInv, GInv, LinesGood, Shape
<1>5. \A m \in Lines : /\ m = l => line'[m] = q
                       /\ loose(m) => line'[m] = put(m)
                       /\ m # l /\ ~loose(m) => line'[m] = line[m]
  BY DEF RequestCancellation
<1>6. \A c \in Batches :
        /\ batch'[c].items = batch[c].items /\ batch'[c].sent = batch[c].sent
        /\ c # b => batch'[c].status = batch[c].status
        /\ c = b /\ ~sent => batch'[c].status = "INVALIDATED"
        /\ c = b /\ sent /\ loc => batch'[c].status = batch[c].status
        /\ c = b /\ sent /\ ~loc => batch'[c].status = "CANCEL_PENDING"
  BY <1>1 DEF RequestCancellation, BInv, TypeOK, Batch
<1>7. line[l].frozen /\ ~sent => loc
  BY UnsentIsLocal
<1>8. loc /\ sent => line[l].ack = "REJECTED" /\ line[l].so = "REJECTED"
  BY DEF CancelsLocally
<1>9. b # NoBatch => l \in batch[b].items
  BY DEF BInv, Agreement
<1> HIDE DEF b, sent, loc, q, put
<1>10. LinesGood'
  BY <1>3, <1>4, <1>5 DEF GInv, LinesGood
<1>11. \A m \in Lines :
         /\ line'[m].frozen = line[m].frozen /\ line'[m].ack = line[m].ack
         /\ m # l => line'[m].request = line[m].request /\ line'[m].state = line[m].state
         /\ line'[m].batch \in {line[m].batch, NoBatch}
         /\ line'[m].batch # line[m].batch => line[m].batch = b /\ ~sent
  BY <1>3, <1>4, <1>5 DEF b
<1>12. FilesGood'
  <2>1. ASSUME NEW m \in Lines, line'[m].request # "NONE", line'[m].batch # NoBatch
        PROVE  batch'[line'[m].batch].sent
    <3>1. line'[m].batch = line[m].batch /\ line[m].batch \in Batches
      BY <1>0, <1>11, <2>1 DEF Shape
    <3>2. CASE m = l
      <4>1. sent /\ line[m].batch = b
        BY <1>3, <1>5, <2>1, <3>2 DEF b
      <4> QED
        BY <1>1, <1>6, <3>1, <4>1, NoBatchAssumption
    <3>3. CASE m # l
      BY <1>6, <1>11, <2>1, <3>1, <3>3, NoBatchAssumption DEF GInv, FilesGood
    <3> QED
      BY <3>2, <3>3
  <2>2. ASSUME NEW m \in Lines, line'[m].request # "NONE", line'[m].frozen,
               line'[m].batch = NoBatch
        PROVE  line'[m].state = "CANCELLED"
    <3>1. CASE m = l
      <4>1. line[l].frozen /\ line'[l] = q
        BY <1>3, <1>5, <2>2, <3>1
      <4>2. b # NoBatch => ~sent
        BY <1>3, <2>2, <3>1, <4>1
      <4> QED
        BY <1>1, <1>3, <1>7, <3>1, <4>1, <4>2
    <3>2. CASE m # l
      <4>1. CASE line'[m].batch = line[m].batch
        BY <1>11, <2>2, <3>2, <4>1 DEF GInv, FilesGood
      <4>2. CASE line'[m].batch # line[m].batch
        <5>1. line[m].batch = b /\ ~sent /\ b # NoBatch /\ b \in Batches
          BY <1>0, <1>11, <2>2, <4>2
        <5>2. ~batch[line[m].batch].sent
          BY <1>1, <5>1
        <5>3. line[m].request = "NONE"
          BY <5>1, <5>2 DEF GInv, FilesGood
        <5> QED
          BY <1>11, <2>2, <3>2, <5>3
      <4> QED
        BY <4>1, <4>2
    <3> QED
      BY <3>1, <3>2
  <2>3. \A c \in Batches : \A m \in batch'[c].items : line'[m].frozen
    BY <1>0, <1>6, <1>11 DEF GInv, FilesGood, Shape
  <2>4. \A c \in Batches :
         batch'[c].status \in {"SENT", "ACKNOWLEDGED", "PARTIAL", "REJECTED", "CANCEL_PENDING"} =>
           batch'[c].sent
    BY <1>1, <1>6, NoBatchAssumption DEF GInv, FilesGood
  <2> QED
    BY <2>1, <2>2, <2>3, <2>4 DEF FilesGood
<1>13. ASSUME NEW c \in Batches PROVE BatchGood(c)'
  <2>0. BatchGood(c) /\ batch[c].items \subseteq Lines
    BY <1>0 DEF GInv, Shape
  <2>1. CASE c # b
    <3>1. \A m \in batch[c].items :
            /\ line[m].batch = c => line'[m] = line[m]
            /\ line[m].batch # c => line'[m].batch # c
            /\ line[m].state = "CANCELLED" => line'[m].state = "CANCELLED"
      BY <1>2, <1>5, <1>11, <2>0, <2>1, NoBatchAssumption DEF b
    <3> QED
      BY <1>0, <1>6, <2>0, <2>1, <3>1, OtherFile DEF GInv
  <2>2. CASE c = b /\ ~sent
    <3>1. batch'[c].status = "INVALIDATED" /\ ~batch'[c].sent /\ batch'[c].items = batch[c].items
      BY <1>1, <1>6, <2>2, NoBatchAssumption
    <3>2. \A m \in batch[c].items : line'[m].batch # c
      BY <1>3, <1>4, <1>5, <2>0, <2>2, NoBatchAssumption
    <3> QED
      BY <3>1, <3>2 DEF BatchGood, Current, Dissolved, Stopped, Summed, Closed
  <2>3. CASE c = b /\ sent /\ ~loc
    <3>1. batch'[c].status = "CANCEL_PENDING"
      BY <1>6, <2>3
    <3> QED
      BY <3>1 DEF BatchGood, Current, Dissolved, Stopped, Summed, Closed
  <2>4. CASE c = b /\ sent /\ loc
    <3>1. /\ batch'[c].status = batch[c].status /\ batch'[c].items = batch[c].items
          /\ batch[c].sent /\ l \in batch[c].items
      BY <1>1, <1>6, <1>9, <2>4, NoBatchAssumption
    <3>2. batch[c].status \notin {"FILE_READY", "EXPORTED", "INVALIDATED", "CANCELLED"}
      BY <2>0, <3>1 DEF BInv, Agreement, BatchGood, Dissolved
    <3>3. batch[c].status # "RESOLVED"
      BY <1>8, <2>0, <2>4, <3>1 DEF BatchGood, Closed, b
    <3>4. Summed(c)'
      BY <1>11, <2>0, <3>1 DEF BatchGood, Summed
    <3> QED
      BY <3>1, <3>2, <3>3, <3>4 DEF BatchGood, Current, Dissolved, Stopped, Closed
  <2> QED
    BY <1>1, <2>1, <2>2, <2>3, <2>4
<1> QED
  BY <1>10, <1>12, <1>13 DEF GInv

\* Cancelling a batch dissolves what was not sent and asks for what was.
LEMMA CancelBatchFiles ==
  ASSUME BInv, GInv, NEW b \in Batches, CancelBatch(b)
  PROVE  GInv'
<1> DEFINE items == batch[b].items
           todo == {l \in items : line[l].request = "NONE"}
           pending == {l \in todo : ~CancelsLocally(line[l], BatchOf(l).sent)}
           q(l) == CancelRequested(line[l], BatchOf(l).sent)
           st == IF ~batch[b].sent THEN "CANCELLED"
                 ELSE IF pending # {} THEN "CANCEL_PENDING" ELSE batch[b].status
<1>0. Shape /\ items \subseteq Lines
  BY ShapeHolds DEF Shape
<1>1. \A l \in items : line[l].batch \in {b, NoBatch}
  BY DEF CancelBatch
<1>2. \A l \in items : /\ BatchOf(l).sent \in BOOLEAN
                       /\ line[l].batch = b => BatchOf(l).sent = batch[b].sent
                       /\ line[l].batch = NoBatch => ~BatchOf(l).sent
  BY <1>0, <1>1, NoBatchAssumption DEF BatchOf, NoBatchRow, Shape, Batch
<1>3. \A l \in items : ~BatchOf(l).sent => CancelsLocally(line[l], BatchOf(l).sent)
  BY <1>0, UnsentIsLocal DEF GInv, FilesGood
<1>4. \A l \in todo :
        /\ LineGood(l, q(l)) /\ q(l).frozen = line[l].frozen /\ q(l).request # "NONE"
        /\ CancelsLocally(line[l], BatchOf(l).sent) => q(l).state = "CANCELLED"
        /\ q(l).batch = (IF BatchOf(l).sent THEN line[l].batch ELSE NoBatch)
        /\ q(l).ack = line[l].ack
  BY <1>0, <1>2, GoodCancelRequested, CancelledItem DEF BInv, GInv, LinesGood, Shape
<1>5. \A l \in Lines : /\ l \in todo => line'[l] = q(l)
                       /\ l \notin todo => line'[l] = line[l]
  BY DEF CancelBatch
<1>6. batch' = [batch EXCEPT ![b].status = st] /\ batch[b].status \notin {"NONE", "RESOLVED"}
  BY DEF CancelBatch
<1> HIDE DEF st
<1>7. \A c \in Batches :
        /\ batch'[c].items = batch[c].items /\ batch'[c].sent = batch[c].sent
        /\ c # b => batch'[c].status = batch[c].status
        /\ c = b => batch'[c].status = st
  BY <1>6 DEF BInv, TypeOK, Batch
<1>8. \A l \in todo : l \in items /\ line[l].request = "NONE" /\ line[l].state # "CANCELLED"
  BY <1>0 DEF BInv, LineOk
<1> HIDE DEF q, todo
<1>9. LinesGood'
  BY <1>4, <1>5 DEF GInv, LinesGood
<1>10. \A l \in Lines :
         /\ line'[l].frozen = line[l].frozen /\ line'[l].ack = line[l].ack
         /\ line[l].state = "CANCELLED" => line'[l] = line[l]
         /\ line'[l].batch = line[l].batch
              \/ (line'[l].batch = NoBatch /\ line[l].batch = b /\ ~batch[b].sent)
  BY <1>1, <1>2, <1>4, <1>5, <1>8
<1>11. FilesGood'
  <2>1. ASSUME NEW l \in Lines, line'[l].request # "NONE", line'[l].batch # NoBatch
        PROVE  batch'[line'[l].batch].sent
    <3>1. line'[l].batch = line[l].batch /\ line[l].batch \in Batches
      BY <1>0, <1>10, <2>1 DEF Shape
    <3>2. CASE l \in todo
      <4>1. BatchOf(l).sent /\ line[l].batch = b
        BY <1>1, <1>4, <1>5, <1>8, <2>1, <3>1, <3>2, NoBatchAssumption
      <4> QED
        BY <1>2, <1>7, <1>8, <3>1, <3>2, <4>1
    <3>3. CASE l \notin todo
      BY <1>5, <1>7, <2>1, <3>1, <3>3, NoBatchAssumption DEF GInv, FilesGood
    <3> QED
      BY <3>2, <3>3
  <2>2. ASSUME NEW l \in Lines, line'[l].request # "NONE", line'[l].frozen,
               line'[l].batch = NoBatch
        PROVE  line'[l].state = "CANCELLED"
    <3>1. CASE l \in todo
      <4>1. line'[l] = q(l) /\ l \in items /\ ~BatchOf(l).sent
        BY <1>1, <1>2, <1>4, <1>5, <1>8, <2>2, <3>1, NoBatchAssumption
      <4> QED
        BY <1>3, <1>4, <3>1, <4>1
    <3>2. CASE l \notin todo
      BY <1>5, <2>2, <3>2 DEF GInv, FilesGood
    <3> QED
      BY <3>1, <3>2
  <2>3. \A c \in Batches : \A l \in batch'[c].items : line'[l].frozen
    BY <1>0, <1>7, <1>10 DEF GInv, FilesGood, Shape
  <2>4. \A c \in Batches :
         batch'[c].status \in {"SENT", "ACKNOWLEDGED", "PARTIAL", "REJECTED", "CANCEL_PENDING"} =>
           batch'[c].sent
    <3>1. st = "CANCELLED" \/ batch[b].sent
      BY DEF st
    <3> QED
      BY <1>7, <3>1 DEF GInv, FilesGood
  <2> QED
    BY <2>1, <2>2, <2>3, <2>4 DEF FilesGood
<1>12. ASSUME NEW c \in Batches PROVE BatchGood(c)'
  <2>0. BatchGood(c) /\ batch[c].items \subseteq Lines
    BY <1>0 DEF GInv, Shape
  <2>1. CASE c # b
    <3>1. \A l \in batch[c].items :
            /\ line[l].batch = c => line'[l] = line[l]
            /\ line[l].batch # c => line'[l].batch # c
            /\ line[l].state = "CANCELLED" => line'[l].state = "CANCELLED"
      BY <1>1, <1>5, <1>8, <1>10, <2>0, <2>1, NoBatchAssumption
    <3> QED
      BY <1>0, <1>7, <2>0, <2>1, <3>1, OtherFile DEF GInv
  <2>2. CASE c = b /\ ~batch[b].sent
    <3>1. batch'[c].status = "CANCELLED" /\ ~batch'[c].sent /\ batch'[c].items = items
      BY <1>7, <2>2 DEF st
    <3>2. ASSUME NEW l \in items PROVE line'[l].batch # c /\ line'[l].state = "CANCELLED"
      <4>1. ~BatchOf(l).sent
        BY <1>1, <1>2, <2>2
      <4>2. CASE l \in todo
        BY <1>0, <1>3, <1>4, <1>5, <4>1, <4>2, NoBatchAssumption
      <4>3. CASE l \notin todo
        <5>1. line'[l] = line[l] /\ line[l].request # "NONE" /\ line[l].frozen
          BY <1>0, <1>5, <4>3 DEF todo, GInv, FilesGood
        <5>2. line[l].batch = NoBatch
          BY <1>0, <1>1, <2>2, <5>1, NoBatchAssumption DEF GInv, FilesGood
        <5> QED
          BY <1>0, <5>1, <5>2, NoBatchAssumption DEF GInv, FilesGood
      <4> QED
        BY <4>2, <4>3
    <3> QED
      BY <3>1, <3>2 DEF BatchGood, Current, Dissolved, Stopped, Summed, Closed
  <2>3. CASE c = b /\ batch[b].sent
    <3>1. /\ batch'[c].status \in {"CANCEL_PENDING", batch[c].status}
          /\ batch'[c].items = batch[c].items
      BY <1>7, <2>3 DEF st
    <3>2. batch[c].status \notin {"FILE_READY", "EXPORTED", "INVALIDATED", "CANCELLED", "RESOLVED"}
      BY <1>6, <2>0, <2>3 DEF BInv, Agreement, BatchGood, Dissolved
    <3>3. Summed(c)'
      BY <1>10, <2>0, <3>1 DEF BatchGood, Summed
    <3> QED
      BY <3>1, <3>2, <3>3 DEF BatchGood, Current, Dissolved, Stopped, Closed
  <2> QED
    BY <2>1, <2>2, <2>3
<1> QED
  BY <1>9, <1>11, <1>12 DEF GInv

LEMMA GInitially == Init => GInv
<1> SUFFICES ASSUME Init PROVE GInv
  OBVIOUS
<1>1. LinesGood
  <2>1. \A l \in Lines :
          /\ line[l].so \in {"MANUAL_REVIEW", "PENDING"}
          /\ line[l].so = "MANUAL_REVIEW" => line[l].reviews = {"LEGACY"}
          /\ line[l].payment = "NONE" /\ line[l].request = "NONE"
    BY DEF Init
  <2> QED
    BY <2>1 DEF LinesGood, LineGood, Told, Leaves, Cleared
<1>2. FilesGood
  BY DEF Init, FilesGood
<1>3. \A b \in Batches : BatchGood(b)
  BY DEF Init, BatchGood, Current, Dissolved, Stopped, Summed, Closed
<1> QED
  BY <1>1, <1>2, <1>3 DEF GInv

LEMMA GStep == BInv /\ GInv /\ Next => GInv'
<1> SUFFICES ASSUME BInv, GInv, Next PROVE GInv'
  OBVIOUS
<1>0. LinesGood
  BY DEF GInv
<1>1. CASE \E b \in Batches, ls \in SUBSET Lines, path \in PaymentPath : CreateBatch(b, ls, path)
  BY <1>1, CreateFiles
<1>2. CASE \E b \in Batches : ExportBatch(b)
  BY <1>2, ExportFiles
<1>3. CASE \E b \in Batches : MarkSent(b)
  BY <1>3, MarkSentFiles
<1>4. CASE \E b \in Batches : CancelBatch(b)
  BY <1>4, CancelBatchFiles
<1>5. CASE \E b \in Batches : ResolveBatch(b)
  BY <1>5, ResolveFiles
<1>6. CASE \E b \in Batches : \E verdict \in [batch[b].items -> UNION {Verdict(l) : l \in Lines}] :
            /\ \A l \in batch[b].items : verdict[l] \in Verdict(l)
            /\ Acknowledge(b, verdict)
  BY <1>6, AcknowledgeFiles
<1>7. CASE \E l \in Lines : RequestCancellation(l)
  BY <1>7, RequestFiles
<1>8. ASSUME NEW l \in Lines,
             \/ ConfirmCancellation(l) \/ ApprovePayment(l) \/ RecordEvidence(l)
             \/ ConfirmEvidence(l) \/ DispatchPayment(l) \/ PaymentUncertain(l)
             \/ FinalizePayment(l) \/ AdoptLegacy(l) \/ Ship(l)
      PROVE  GInv'
  <2>1. \A m \in Lines : Calm(line[m], line'[m]) /\ LineGood(m, line'[m])
    BY <1>0, <1>8, CalmCommands
  <2>2. UNCHANGED batch
    BY <1>8 DEF ConfirmCancellation, ApprovePayment, RecordEvidence, ConfirmEvidence,
       DispatchPayment, PaymentUncertain, FinalizePayment, AdoptLegacy, Ship
  <2> QED
    BY <2>1, <2>2, CalmKeepsFiles
<1>9. CASE \E l \in Lines : Revalidate(l)
  BY <1>9, RevalidateFiles
<1> QED
  BY <1>1, <1>2, <1>3, <1>4, <1>5, <1>6, <1>7, <1>8, <1>9 DEF Next

\* Reviews, approvals and batch rows, for every number of lines and batches.
THEOREM BTruth == Spec => []GInv
<1>1. BInv /\ GInv /\ [Next]_vars => GInv'
  <2> SUFFICES ASSUME BInv, GInv, [Next]_vars PROVE GInv'
    OBVIOUS
  <2>1. CASE Next
    BY <2>1, GStep
  <2>2. CASE UNCHANGED vars
    BY <2>2 DEF vars, GInv, LinesGood, FilesGood, BatchGood, Current, Dissolved, Stopped,
       Summed, Closed
  <2> QED
    BY <2>1, <2>2
<1> QED
  BY GInitially, BInvariant, <1>1, PTL DEF Spec

\* No payment above the automatic limit goes ahead without an approval, whoever
\* acknowledges, revalidates, dispatches or confirms it (prepare_payment,
\* approve_payment, confirm_evidence).
THEOREM BLargeIsApproved == Spec => []LargeIsApproved
<1>1. GInv => LargeIsApproved
  BY LinesAssumption DEF GInv, LinesGood, LineGood, Cleared, LargeIsApproved
<1> QED
  BY <1>1, BTruth, PTL

\* A line that stopped has an open review of the category its stop stands for
\* (hold, request_cancellation_in_session, confirm_cancellation, revalidate_original_terms).
THEOREM BHaltsAreReviewed == Spec => []HaltsAreReviewed
<1>1. GInv => HaltsAreReviewed
  <2> SUFFICES ASSUME NEW l \in Lines, Told(line[l])
               PROVE  LET r == line[l] IN
                      /\ r.so = "CANCEL_PENDING" => "CANCELLATION_REQUIRED" \in r.reviews
                      /\ r.so = "MANUAL_REVIEW" =>
                           r.reviews \cap {"LEGACY", "TERMS_CHANGED", "PREPARATION_BLOCKED"} # {}
                      /\ r.so = "REJECTED" => "REJECTED" \in r.reviews
                      /\ r.payment = "MANUAL_APPROVAL" =>
                           r.reviews \cap {"PAYMENT_APPROVAL", "HELD"} # {}
                      /\ r.payment = "UNKNOWN" => "RESULT_UNKNOWN" \in r.reviews
                      /\ r.request \in {"PENDING", "FINANCIAL_REVIEW"} =>
                           r.reviews \cap {"CANCELLATION_REQUIRED", "FINANCIAL_REVIEW"} # {}
    BY DEF GInv, LinesGood, LineGood, HaltsAreReviewed
  <2> QED
    BY DEF Told
<1> QED
  BY <1>1, BTruth, PTL

\* The batch row tells the truth about its lines, although files dissolve, answers come
\* late and resolved batches are reopened by a cancellation (mark_sent, acknowledge_batch,
\* request_cancellation_in_session, cancel_batch, resolve_batch).
THEOREM BBatchIsTrue == Spec => []BatchIsTrue
<1>1. BInv /\ GInv => BatchIsTrue
  <2> SUFFICES ASSUME BInv, GInv PROVE BatchIsTrue
    OBVIOUS
  <2>1. \A b \in Batches : Current(b) /\ Dissolved(b) /\ Stopped(b) /\ Summed(b) /\ Closed(b)
    BY DEF GInv, BatchGood
  <2> QED
    BY <2>1 DEF BatchIsTrue, Current, Dissolved, Stopped, Summed, Closed
<1> QED
  BY <1>1, BInvariant, BTruth, PTL

\* A line the supplier has, and has not rejected, is cancelled only by the supplier's
\* confirmation (request_cancellation_in_session, confirm_cancellation).
THEOREM BSentNeedsConfirmation == Spec => SentNeedsConfirmation
<1> DEFINE Asked(l) == (BatchOf(l).sent /\ line[l].so \notin {"REJECTED", "CANCELLED"}
                          /\ line'[l].so = "CANCELLED")
                       => line[l].request = "PENDING"
           Asks == \A l \in Lines : Asked(l)
<1>1. BInv /\ GInv /\ [Next]_vars => [Asks]_vars
  <2> SUFFICES ASSUME BInv, GInv, Next, NEW l \in Lines, BatchOf(l).sent,
                      line[l].so \notin {"REJECTED", "CANCELLED"}, line'[l].so = "CANCELLED"
               PROVE  line[l].request = "PENDING"
    OBVIOUS
  <2>0. Shape /\ line[l] \in Line /\ LineGood(l, line[l]) /\ LineOk(line[l])
        /\ \A m \in Lines : BatchOf(m).sent \in BOOLEAN
    BY ShapeHolds DEF Shape, GInv, LinesGood, BInv, BatchOf, NoBatchRow, Batch
  <2>1. ASSUME NEW b \in Batches, NEW ls \in SUBSET Lines, NEW path \in PaymentPath,
               CreateBatch(b, ls, path) PROVE FALSE
    BY <2>0, <2>1 DEF CreateBatch, Line
  <2>2. ASSUME NEW b \in Batches, ExportBatch(b) \/ MarkSent(b) \/ ResolveBatch(b) PROVE FALSE
    BY <2>0, <2>2 DEF ExportBatch, MarkSent, ResolveBatch, Line
  <2>3. ASSUME NEW b \in Batches, CancelBatch(b) PROVE FALSE
    <3>1. CASE l \in batch[b].items /\ line[l].request = "NONE"
      <4>1. line'[l] = CancelRequested(line[l], BatchOf(l).sent)
        BY <2>3, <3>1 DEF CancelBatch
      <4> QED
        BY <2>0, <3>1, <4>1, GoodCancelRequested
    <3>2. CASE ~(l \in batch[b].items /\ line[l].request = "NONE")
      <4>1. line'[l] = line[l]
        BY <2>3, <3>2 DEF CancelBatch
      <4> QED
        BY <4>1
    <3> QED
      BY <3>1, <3>2
  <2>4. ASSUME NEW b \in Batches, NEW verdict,
               \A m \in batch[b].items : verdict[m] \in Verdict(m), Acknowledge(b, verdict)
        PROVE  FALSE
    <3>1. CASE l \in batch[b].items
      <4>1. line'[l] = Acknowledged(line[l], batch[b].path, verdict[l])
        BY <2>4, <3>1 DEF Acknowledge
      <4>2. line[l].ack = "NONE" /\ batch[b].path \in PaymentPath
        BY <2>0, <2>4, <3>1, NoBatchAssumption DEF Acknowledge, BInv, Agreement, Shape, Batch
      <4> QED
        BY <2>0, <2>4, <3>1, <4>1, <4>2, GoodAcknowledged
    <3>2. CASE l \notin batch[b].items
      BY <2>4, <3>2 DEF Acknowledge
    <3> QED
      BY <3>1, <3>2
  <2>5. ASSUME NEW m \in Lines, RequestCancellation(m) PROVE FALSE
    <3>1. CASE m = l
      <4>1. line'[l] = CancelRequested(line[l], BatchOf(l).sent) /\ line[l].request = "NONE"
        BY <2>5, <3>1 DEF RequestCancellation
      <4> QED
        BY <2>0, <4>1, GoodCancelRequested
    <3>2. CASE m # l
      <4>1. line'[l] \in {Survivor(line[l]), line[l]}
        BY <2>5, <3>2 DEF RequestCancellation
      <4> QED
        BY <2>0, <4>1, GoodSurvivor
    <3> QED
      BY <3>1, <3>2
  <2>6. ASSUME NEW m \in Lines, Revalidate(m) PROVE FALSE
    BY <2>6, RevalidateFiles
  <2>7. ASSUME NEW m \in Lines,
               \/ ConfirmCancellation(m) \/ ApprovePayment(m) \/ RecordEvidence(m)
               \/ ConfirmEvidence(m) \/ DispatchPayment(m) \/ PaymentUncertain(m)
               \/ FinalizePayment(m) \/ AdoptLegacy(m) \/ Ship(m)
        PROVE  line[l].request = "PENDING"
    <3>1. LinesGood
      BY DEF GInv
    <3> QED
      BY <2>7, <3>1, CalmCommands DEF Calm
  <2> QED
    BY <2>1, <2>2, <2>3, <2>4, <2>5, <2>6, <2>7 DEF Next
<1> QED
  BY <1>1, BInvariant, BTruth, PTL DEF Spec, SentNeedsConfirmation
=============================================================================
