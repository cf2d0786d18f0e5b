-------------------------- MODULE PaidCancellation --------------------------
(***************************************************************************)
(* An Excel order that is paid by manual evidence and then cancelled:      *)
(* packages/application/review_resolution.py, marketplace_cancellation.py  *)
(* and payment_evidence.py, with the evidence and cancellation commands of *)
(* supplier_operations.py and the late line of commerce.ingest.            *)
(*                                                                         *)
(* All of it is paper: documents prove that the supplier was paid, that    *)
(* the supplier paid back, that the marketplace refunded the customer and  *)
(* that nothing is left to settle. Every command locks the treasury and is *)
(* one transaction, so it is one action, and a refused command changes     *)
(* nothing unless an action says so. What an administrator has seen of a   *)
(* file may be old: the version acted on is a parameter.                   *)
(*                                                                         *)
(* All orders have one supplier and one marketplace, so that they share    *)
(* the namespaces in which a reference must be new. Amounts are full and   *)
(* frozen here; the snapshot comparisons guard what does not change.       *)
(***************************************************************************)
EXTENDS Integers, Sequences, FiniteSets, SequencesExt

CONSTANTS Orders,           \* accepted orders whose payment awaits evidence
          Documents,        \* papers, each with its own reference and file hash
          NoDocument,
          MaxCorrections,   \* bound: corrections of one proof, and of one statement
          MaxLines          \* bound: orders that get another line

ASSUME NoDocumentAssumption == NoDocument \notin Documents
ASSUME BoundsAssumption == MaxCorrections \in Nat /\ MaxLines \in Nat

VARIABLE file     \* file[o]: the rows that belong to one order

State == {"SUPPLIER_ORDERED", "SHIPMENT_PENDING", "SHIPPED", "CANCEL_REQUESTED", "CANCELLED"}
CancellationStatus ==
  {"NONE", "PENDING", "CONFIRMED", "FINANCIAL_REVIEW", "FINANCIALLY_RECONCILED"}
Reason == {"WRONG_REFERENCE", "WRONG_ATTACHMENT", "REFERENCE_AND_ATTACHMENT"}

Statement == [document : Documents, residual : BOOLEAN]

File ==
  [state : State, shipped : BOOLEAN,               \* the order, a shipment row
   payment : {"EVIDENCE_PENDING", "SUCCEEDED", "CANCELLED"},
   proof : Seq(Documents),                         \* the evidence and its revisions
   correction : Reason \cup {"NONE"},              \* an open request to correct it
   confirmed : Nat,                                \* the version bound by the confirmation
   refused : BOOLEAN,                              \* a review of a refused confirmation
   cancellation : CancellationStatus,
   recovery : Documents \cup {NoDocument},
   refund : Documents \cup {NoDocument},
   statement : Seq(Statement),                     \* the statement and its revisions
   reconciled : Nat,                               \* the version the order was closed on
   line : {"NONE", "QUEUED", "IMPORTED", "HELD", "FULFILLED"}]  \* another line of the order

Init ==
  file = [o \in Orders |->
    [state |-> "SUPPLIER_ORDERED", shipped |-> FALSE, payment |-> "EVIDENCE_PENDING",
     proof |-> <<>>, correction |-> "NONE", confirmed |-> 0, refused |-> FALSE,
     cancellation |-> "NONE", recovery |-> NoDocument, refund |-> NoDocument,
     statement |-> <<>>, reconciled |-> 0, line |-> "NONE"]]

-----------------------------------------------------------------------------
(* Documents in use *)

\* Slip: a superseded reference is free again.
ReferenceInUseNow(o, reference) ==
  \E p \in Orders \ {o} : file[p].proof # <<>> /\ Last(file[p].proof).reference = reference

\* reference_in_use: another payment's evidence, or any revision of it.
ReferenceInUse(o, reference) ==
  \E p \in Orders \ {o} : \E d \in ToSet(file[p].proof) : d.reference = reference

\* Everything recorded for an order that carries a file hash.
SupplierPapers(o) == ToSet(file[o].proof) \cup ({file[o].recovery} \ {NoDocument})
CustomerPapers(o) == ({file[o].refund} \ {NoDocument})
                       \cup {s.document : s \in ToSet(file[o].statement)}

\* Slip: the revisions of statements are not looked at.
EvidenceUnusedOriginals(o, d) ==
  /\ \A p \in Orders :
       /\ \A e \in SupplierPapers(p) \cup ({file[p].refund} \ {NoDocument}) : e.hash # d.hash
       /\ \A i \in {1} \cap DOMAIN file[p].statement :
            file[p].statement[i].document.hash # d.hash
  /\ \A e \in SupplierPapers(o) : e.reference # d.reference

\* _evidence_unused: no money evidence has this hash, and no paper about the
\* supplier of this order has this reference.
EvidenceUnused(o, d) ==
  /\ \A p \in Orders : \A e \in SupplierPapers(p) \cup CustomerPapers(p) : e.hash # d.hash
  /\ \A e \in SupplierPapers(o) : e.reference # d.reference

\* References are new among refunds, among original statements, and among revisions.
NewRefundReference(d) ==
  \A p \in Orders : file[p].refund # NoDocument => file[p].refund.reference # d.reference
NewStatementReference(d) ==
  \A p \in Orders :
    file[p].statement # <<>> => file[p].statement[1].document.reference # d.reference
NewRevisionReference(d) ==
  \A p \in Orders : \A i \in 2 .. Len(file[p].statement) :
    file[p].statement[i].document.reference # d.reference

-----------------------------------------------------------------------------
(* The outgoing payment and its proof *)

\* Money that may have moved: there is evidence, or the payment is confirmed.
Exposed(r) == r.proof # <<>> \/ r.payment = "SUCCEEDED"

Set(o, r) == file' = [file EXCEPT ![o] = r]

RecordEvidence(o, d) ==
  /\ file[o].proof = <<>> /\ ~ReferenceInUse(o, d.reference)
  /\ file[o].payment = "EVIDENCE_PENDING" /\ file[o].cancellation = "NONE"
  /\ Set(o, [file[o] EXCEPT !.proof = <<d>>])

\* _unconfirmed: the payment can still be confirmed and nobody has cancelled.
Unconfirmed(r) ==
  /\ r.proof # <<>> /\ r.payment = "EVIDENCE_PENDING" /\ r.confirmed = 0
  /\ r.cancellation = "NONE" /\ r.state = "SUPPLIER_ORDERED"

RequestCorrection(o, reason) ==
  /\ Unconfirmed(file[o]) /\ file[o].correction = "NONE"
  /\ Len(file[o].proof) <= MaxCorrections
  /\ Set(o, [file[o] EXCEPT !.correction = reason])

\* correct_evidence: the request names what may change; a revision supersedes the proof.
CorrectEvidence(o, d) ==
  LET current == Last(file[o].proof)
      reason == file[o].correction
  IN /\ Unconfirmed(file[o]) /\ reason # "NONE" /\ d # current
     /\ reason = "WRONG_REFERENCE" => d.hash = current.hash
     /\ reason = "WRONG_ATTACHMENT" => d.reference = current.reference
     /\ ~ReferenceInUse(o, d.reference)
     /\ Set(o, [file[o] EXCEPT !.proof = Append(@, d), !.correction = "NONE"])

\* Slip: a pending correction does not stop the confirmation.
ConfirmEvidenceAnyway(o, version) ==
  /\ Unconfirmed(file[o])
  /\ version = Len(file[o].proof)
  /\ Set(o, [file[o] EXCEPT !.confirmed = version, !.payment = "SUCCEEDED",
               !.state = "SHIPMENT_PENDING"])

\* confirm_evidence: only of the version that is in force.
ConfirmEvidence(o, version) ==
  /\ Unconfirmed(file[o]) /\ file[o].correction = "NONE"
  /\ version = Len(file[o].proof)
  /\ Set(o, [file[o] EXCEPT !.confirmed = version, !.payment = "SUCCEEDED",
               !.state = "SHIPMENT_PENDING"])

\* A confirmation refused over the daily limit, because the frozen terms no longer hold
\* or after a cancellation, opens a review of the payment that stays open even if a later
\* confirmation succeeds.
RefuseConfirmation(o) ==
  /\ file[o].proof # <<>> /\ file[o].payment = "EVIDENCE_PENDING"
  /\ file[o].correction = "NONE" /\ ~file[o].refused
  /\ Set(o, [file[o] EXCEPT !.refused = TRUE])

AddShipment(o) ==
  /\ file[o].state = "SHIPMENT_PENDING" /\ file[o].cancellation = "NONE"
  /\ file[o].payment = "SUCCEEDED" /\ ~file[o].shipped
  /\ Set(o, [file[o] EXCEPT !.state = "SHIPPED", !.shipped = TRUE])

-----------------------------------------------------------------------------
(* The cancellation and the supplier's money *)

\* The batch was sent and accepted, so the supplier must confirm.
RequestCancellation(o) ==
  /\ file[o].cancellation = "NONE"
  /\ Set(o, [file[o] EXCEPT !.cancellation = "PENDING", !.state = "CANCEL_REQUESTED",
               !.payment = IF Exposed(file[o]) THEN @ ELSE "CANCELLED"])

ConfirmCancellation(o) ==
  /\ file[o].cancellation = "PENDING"
  /\ Set(o, IF Exposed(file[o])
            THEN [file[o] EXCEPT !.cancellation = "FINANCIAL_REVIEW"]
            ELSE [file[o] EXCEPT !.cancellation = "CONFIRMED", !.payment = "CANCELLED",
                                 !.state = "CANCELLED"])

\* A receipt of incoming money: no version of the proof, and credited once.
ReceiptIsNew(o, d) ==
  /\ \A e \in ToSet(file[o].proof) : e.reference # d.reference /\ e.hash # d.hash
  /\ \A p \in Orders : file[p].recovery # NoDocument =>
       file[p].recovery.reference # d.reference /\ file[p].recovery.hash # d.hash

\* confirm_recovery: of a confirmed payment, before any shipment. The journal is
\* posted and the customer's review is opened in the same transaction.
ConfirmRecovery(o, d) ==
  /\ file[o].cancellation = "FINANCIAL_REVIEW" /\ file[o].state = "CANCEL_REQUESTED"
  /\ file[o].payment = "SUCCEEDED" /\ ~file[o].shipped
  /\ file[o].recovery = NoDocument /\ ReceiptIsNew(o, d)
  /\ Set(o, [file[o] EXCEPT !.recovery = d, !.cancellation = "FINANCIALLY_RECONCILED"])

-----------------------------------------------------------------------------
(* The customer's money *)

\* Slip: the other lines of the marketplace order are forgotten.
ReconcilableLine(r) ==
  /\ r.recovery # NoDocument /\ r.cancellation = "FINANCIALLY_RECONCILED"
  /\ r.payment = "SUCCEEDED" /\ r.state = "CANCEL_REQUESTED" /\ ~r.shipped
  /\ ~r.refused /\ r.correction = "NONE"

\* _context: every invariant is derived again, whatever succeeded before.
Reconcilable(r) ==
  /\ r.recovery # NoDocument /\ r.cancellation = "FINANCIALLY_RECONCILED"
  /\ r.payment = "SUCCEEDED" /\ r.state = "CANCEL_REQUESTED" /\ ~r.shipped
  /\ r.line = "NONE"
  /\ ~r.refused /\ r.correction = "NONE"

RecordRefund(o, d) ==
  /\ file[o].refund = NoDocument /\ Reconcilable(file[o])
  /\ EvidenceUnused(o, d) /\ NewRefundReference(d)
  /\ Set(o, [file[o] EXCEPT !.refund = d])

\* A statement with a residual is kept, and stands in the way.
RecordStatement(o, d, residual) ==
  /\ file[o].statement = <<>> /\ Reconcilable(file[o]) /\ file[o].refund # NoDocument
  /\ EvidenceUnused(o, d) /\ NewStatementReference(d)
  /\ Set(o, [file[o] EXCEPT !.statement = <<[document |-> d, residual |-> residual]>>])

CorrectStatement(o, d, residual) ==
  /\ file[o].statement # <<>> /\ Reconcilable(file[o])
  /\ Len(file[o].statement) <= MaxCorrections
  /\ EvidenceUnused(o, d) /\ NewStatementReference(d) /\ NewRevisionReference(d)
  /\ Set(o, [file[o] EXCEPT !.statement =
               Append(@, [document |-> d, residual |-> residual])])

\* Slip: the statement as it was recorded.
OriginalStatement(r) == r.statement[1]

\* effective_statement: the latest revision.
EffectiveStatement(r) == Last(r.statement)

Complete(o, version) ==
  /\ Reconcilable(file[o]) /\ file[o].refund # NoDocument /\ file[o].statement # <<>>
  /\ version = Len(file[o].statement) /\ ~EffectiveStatement(file[o]).residual
  /\ Set(o, [file[o] EXCEPT !.state = "CANCELLED", !.reconciled = version])

-----------------------------------------------------------------------------
(* Another line of the same marketplace order *)

\* ingest: a line that comes after the refund is held; else a job processes it, or an
\* operator must vouch for it when it came with a file.
Arrived(r, status) == IF r.refund # NoDocument THEN "HELD" ELSE status

LateLine(o, status) ==
  /\ file[o].line = "NONE" /\ Cardinality({p \in Orders : file[p].line # "NONE"}) < MaxLines
  /\ Set(o, [file[o] EXCEPT !.line = Arrived(file[o], status)])

\* process_order: held lines have no job.
ProcessLine(o) ==
  /\ file[o].line = "QUEUED"
  /\ Set(o, [file[o] EXCEPT !.line = "FULFILLED"])

\* verify_and_validate.
VerifyLine(o) ==
  /\ file[o].line \in {"IMPORTED", "HELD"} /\ file[o].refund = NoDocument
  /\ Set(o, [file[o] EXCEPT !.line = "FULFILLED"])

-----------------------------------------------------------------------------
Next ==
  \E o \in Orders :
    \/ \E d \in Documents :
         \/ RecordEvidence(o, d) \/ CorrectEvidence(o, d) \/ ConfirmRecovery(o, d)
         \/ RecordRefund(o, d)
         \/ \E residual \in BOOLEAN : \/ RecordStatement(o, d, residual)
                                      \/ CorrectStatement(o, d, residual)
    \/ \E reason \in Reason : RequestCorrection(o, reason)
    \/ \E version \in 1 .. Len(file[o].proof) : ConfirmEvidence(o, version)
    \/ \E version \in 1 .. Len(file[o].statement) : Complete(o, version)
    \/ RefuseConfirmation(o) \/ AddShipment(o)
    \/ RequestCancellation(o) \/ ConfirmCancellation(o)
    \/ \E status \in {"QUEUED", "IMPORTED"} : LateLine(o, status)
    \/ ProcessLine(o) \/ VerifyLine(o)

Spec == Init /\ [][Next]_file

-----------------------------------------------------------------------------
(* Properties *)

\* The types of the rows.
TypeOK == file \in [Orders -> File]

\* A payment is booked on the evidence in force (confirm_evidence): no correction was
\* asked for, and none can change afterwards what was confirmed.
ConfirmedProofIsFinal ==
  \A o \in Orders : file[o].payment = "SUCCEEDED" =>
    /\ file[o].confirmed = Len(file[o].proof) /\ file[o].proof # <<>>
    /\ file[o].correction = "NONE"

\* Supplier evidence serves once (reference_in_use, confirm_recovery): a reference proves
\* one payment, even a corrected one; a receipt is credited once; and what proved that
\* money went out never proves that it came back.
SupplierEvidenceServesOnce ==
  \A p, q \in Orders :
    /\ p # q => \A d \in ToSet(file[p].proof), e \in ToSet(file[q].proof) :
                  d.reference # e.reference
    /\ file[p].recovery # NoDocument =>
         /\ p # q /\ file[q].recovery # NoDocument =>
              /\ file[p].recovery.reference # file[q].recovery.reference
              /\ file[p].recovery.hash # file[q].recovery.hash
         /\ \A d \in ToSet(file[p].proof) : /\ d.reference # file[p].recovery.reference
                                            /\ d.hash # file[p].recovery.hash

\* The papers about the customer's money, by order and number; the refund is number 0.
Paper(o, i) == IF i = 0 THEN file[o].refund ELSE file[o].statement[i].document
PaperNumbers(o) == IF file[o].refund = NoDocument THEN {} ELSE 0 .. Len(file[o].statement)

\* Customer evidence serves once (_evidence_unused): no file stands for two refunds,
\* statements or corrections, whichever came first and whatever was superseded, and
\* none of them is a paper about the supplier's money of the same order.
CustomerEvidenceServesOnce ==
  \A p, q \in Orders : \A i \in PaperNumbers(p) :
    /\ \A j \in PaperNumbers(q) :
         <<p, i>> # <<q, j>> => Paper(p, i).hash # Paper(q, j).hash
    /\ \A d \in SupplierPapers(p) : /\ d.hash # Paper(p, i).hash
                                    /\ d.reference # Paper(p, i).reference

\* A paid order is cancelled only when all money is back (complete): the supplier's
\* receipt, the customer's refund and a final statement that leaves nothing, which no
\* later correction replaces; and the goods never left.
CancelledIsSettled ==
  \A o \in Orders : file[o].state = "CANCELLED" /\ file[o].payment # "CANCELLED" =>
    /\ file[o].payment = "SUCCEEDED" /\ ~file[o].shipped
    /\ file[o].recovery # NoDocument /\ file[o].refund # NoDocument
    /\ file[o].statement # <<>> /\ file[o].reconciled = Len(file[o].statement)
    /\ ~Last(file[o].statement).residual

\* Once the customer's refund is recorded, no other line of the marketplace order is
\* fulfilled or waits to be, whichever of the two came first (_context, ingest, _eligible).
NoFulfilmentBesideRefund ==
  \A o \in Orders : file[o].refund # NoDocument => file[o].line \in {"NONE", "HELD"}

\* docs/phase11b-marketplace-cancellation.md:65 "Evidence hashes cannot be reused across
\* refund evidence, statements, supplier recoveries, payment proofs or proof revisions".
\* Not so: record_evidence, correct_evidence and confirm_recovery do not look at the
\* refunds and statements of other orders.
HashesAreNotReusedAcrossKinds ==
  \A p, q \in Orders : \A d \in SupplierPapers(p), e \in CustomerPapers(q) : d.hash # e.hash
=============================================================================
