----------------------- MODULE PaidCancellationProofs -----------------------
(***************************************************************************)
(* Proofs about PaidCancellation, for any orders, papers and bounds. Every *)
(* step replaces the file of one order (OneFile). The new file is in order *)
(* by itself (FileOk), and at most one paper joins it, one that the step's *)
(* conditions compared with the papers of all orders (Filed). From this    *)
(* follows that a paper serves once.                                       *)
(***************************************************************************)
EXTENDS PaidCancellation, SequenceTheorems, TLAPS

\* The money is back on both sides, and the statement in force says that nothing is left.
Settled(r) ==
  /\ r.payment = "SUCCEEDED" /\ ~r.shipped
  /\ r.recovery # NoDocument /\ r.refund # NoDocument
  /\ r.statement # <<>> /\ r.reconciled = Len(r.statement)
  /\ ~Last(r.statement).residual

\* The inductive invariant of one file: each paper rests on those before it, and on a
\* payment, a cancellation and other lines that can no longer change against it.
FileOk(r) ==
  /\ r.payment = "SUCCEEDED" =>
       r.confirmed = Len(r.proof) /\ r.proof # <<>> /\ r.correction = "NONE"
  /\ r.cancellation = "NONE" => r.state \notin {"CANCEL_REQUESTED", "CANCELLED"}
  /\ r.recovery # NoDocument => /\ r.payment = "SUCCEEDED" /\ ~r.shipped
                                /\ r.cancellation = "FINANCIALLY_RECONCILED"
  /\ r.refund # NoDocument => r.recovery # NoDocument /\ r.line \in {"NONE", "HELD"}
  /\ r.statement # <<>> => r.refund # NoDocument
  /\ r.state = "CANCELLED" /\ r.payment # "CANCELLED" => Settled(r)

\* What joins the file of order o when it becomes q: nothing, or one paper.
Filed(o, q) ==
  LET r == file[o] IN
  \/ /\ q.proof = r.proof /\ q.recovery = r.recovery
     /\ q.refund = r.refund /\ q.statement = r.statement
  \/ \E d \in Documents :
       /\ q.proof = Append(r.proof, d) /\ ~ReferenceInUse(o, d.reference)
       /\ r.recovery = NoDocument /\ q.recovery = NoDocument
       /\ r.refund = NoDocument /\ q.refund = NoDocument /\ q.statement = r.statement
  \/ \E d \in Documents :
       /\ q.recovery = d /\ ReceiptIsNew(o, d) /\ q.proof = r.proof
       /\ r.refund = NoDocument /\ q.refund = NoDocument /\ q.statement = r.statement
  \/ \E d \in Documents :
       /\ r.refund = NoDocument /\ q.refund = d /\ EvidenceUnused(o, d)
       /\ q.proof = r.proof /\ q.recovery = r.recovery
       /\ r.statement = <<>> /\ q.statement = <<>>
  \/ \E s \in Statement :
       /\ q.statement = Append(r.statement, s) /\ EvidenceUnused(o, s.document)
       /\ r.refund # NoDocument /\ q.refund = r.refund
       /\ q.proof = r.proof /\ q.recovery = r.recovery

\* A step as the other lemmas see it.
OneFile(o, q) == q \in File /\ FileOk(q) /\ Set(o, q) /\ Filed(o, q)

PInv ==
  /\ TypeOK
  /\ \A o \in Orders : FileOk(file[o])
  /\ SupplierEvidenceServesOnce
  /\ CustomerEvidenceServesOnce

-----------------------------------------------------------------------------
(* One file *)

LEMMA ToSetAppend ==
  ASSUME NEW S, NEW s \in Seq(S), NEW e \in S
  PROVE  ToSet(Append(s, e)) = ToSet(s) \cup {e}
<1> DEFINE t == Append(s, e)
<1>1. /\ t \in Seq(S) /\ Len(t) = Len(s) + 1 /\ t[Len(s) + 1] = e
      /\ \A i \in 1 .. Len(s) : t[i] = s[i]
  BY AppendProperties
<1>2. DOMAIN t = (DOMAIN s) \cup {Len(s) + 1} /\ DOMAIN s = 1 .. Len(s) /\ Len(s) \in Nat
  BY <1>1, LenProperties
<1> HIDE DEF t
<1>3. ToSet(t) = ToSet(s) \cup {e}
  BY <1>1, <1>2 DEF ToSet
<1> QED BY <1>3 DEF t

LEMMA SetFile ==
  ASSUME TypeOK, NEW o \in Orders, NEW q \in File, Set(o, q)
  PROVE  /\ TypeOK' /\ file'[o] = q
         /\ \A p \in Orders \ {o} : file'[p] = file[p]
BY DEF TypeOK, Set

\* The commands about the payment.
LEMMA PaymentStep ==
  ASSUME TypeOK, NEW o \in Orders, FileOk(file[o]),
         \/ \E d \in Documents : RecordEvidence(o, d) \/ CorrectEvidence(o, d)
         \/ \E reason \in Reason : RequestCorrection(o, reason)
         \/ \E version \in 1 .. Len(file[o].proof) : ConfirmEvidence(o, version)
         \/ RefuseConfirmation(o) \/ AddShipment(o)
  PROVE  \E q \in File : OneFile(o, q)
<1> DEFINE r == file[o]
<1>0. r \in File
  BY DEF TypeOK
<1>1. ASSUME NEW d \in Documents, RecordEvidence(o, d)
      PROVE  \E q \in File : OneFile(o, q)
  <2> DEFINE q == [r EXCEPT !.proof = <<d>>]
  <2>0. <<d>> \in Seq(Documents)
    OBVIOUS
  <2>1. q \in File /\ Set(o, q)
    BY <1>0, <1>1, <2>0 DEF RecordEvidence, File
  <2>2. r.payment = "EVIDENCE_PENDING" /\ r.cancellation = "NONE"
        /\ ~ReferenceInUse(o, d.reference) /\ q.proof = Append(r.proof, d)
    BY <1>0, <1>1 DEF RecordEvidence, File
  <2>3. FileOk(q) /\ Filed(o, q)
    BY <1>0, <2>2 DEF FileOk, Filed, File
  <2> QED BY <2>1, <2>3 DEF OneFile
<1>2. ASSUME NEW d \in Documents, CorrectEvidence(o, d)
      PROVE  \E q \in File : OneFile(o, q)
  <2> DEFINE q == [r EXCEPT !.proof = Append(@, d), !.correction = "NONE"]
  <2>1. q \in File /\ Set(o, q)
    BY <1>0, <1>2, AppendProperties DEF CorrectEvidence, File
  <2>2. r.payment = "EVIDENCE_PENDING" /\ r.cancellation = "NONE"
        /\ ~ReferenceInUse(o, d.reference) /\ q.proof = Append(r.proof, d)
    BY <1>0, <1>2 DEF CorrectEvidence, Unconfirmed, File
  <2>3. FileOk(q) /\ Filed(o, q)
    BY <1>0, <2>2 DEF FileOk, Filed, File
  <2> QED BY <2>1, <2>3 DEF OneFile
<1>3. CASE \E reason \in Reason : RequestCorrection(o, reason)
  <2>1. PICK reason \in Reason : RequestCorrection(o, reason)
    BY <1>3
  <2> DEFINE q == [r EXCEPT !.correction = reason]
  <2>2. q \in File /\ Set(o, q) /\ r.payment = "EVIDENCE_PENDING" /\ r.cancellation = "NONE"
    BY <1>0, <2>1 DEF RequestCorrection, Unconfirmed, File
  <2>3. FileOk(q) /\ Filed(o, q)
    BY <1>0, <2>2 DEF FileOk, Filed, File
  <2> QED BY <2>2, <2>3 DEF OneFile
<1>4. CASE \E version \in 1 .. Len(file[o].proof) : ConfirmEvidence(o, version)
  <2>1. PICK version \in 1 .. Len(file[o].proof) : ConfirmEvidence(o, version)
    BY <1>4
  <2> DEFINE q == [r EXCEPT !.confirmed = version, !.payment = "SUCCEEDED",
                            !.state = "SHIPMENT_PENDING"]
  <2>0. version \in Nat
    BY <2>1
  <2>2. q \in File /\ Set(o, q) /\ r.payment = "EVIDENCE_PENDING" /\ r.cancellation = "NONE"
        /\ version = Len(r.proof) /\ r.proof # <<>> /\ r.correction = "NONE"
    BY <1>0, <2>0, <2>1 DEF ConfirmEvidence, Unconfirmed, File, State
  <2>3. FileOk(q) /\ Filed(o, q)
    BY <1>0, <2>2 DEF FileOk, Filed, File
  <2> QED BY <2>2, <2>3 DEF OneFile
<1>5. CASE RefuseConfirmation(o)
  <2> DEFINE q == [r EXCEPT !.refused = TRUE]
  <2>1. q \in File /\ Set(o, q)
    BY <1>0, <1>5 DEF RefuseConfirmation, File
  <2>2. FileOk(q) /\ Filed(o, q)
    BY <1>0 DEF FileOk, Filed, File, Settled
  <2> QED BY <2>1, <2>2 DEF OneFile
<1>6. CASE AddShipment(o)
  <2> DEFINE q == [r EXCEPT !.state = "SHIPPED", !.shipped = TRUE]
  <2>1. q \in File /\ Set(o, q) /\ r.cancellation = "NONE"
    BY <1>0, <1>6 DEF AddShipment, File, State
  <2>2. FileOk(q) /\ Filed(o, q)
    BY <1>0, <2>1 DEF FileOk, Filed, File
  <2> QED BY <2>1, <2>2 DEF OneFile
<1> QED BY <1>1, <1>2, <1>3, <1>4, <1>5, <1>6

\* The commands about the cancellation and the supplier's money.
LEMMA CancellationStep ==
  ASSUME TypeOK, NEW o \in Orders, FileOk(file[o]),
         \/ RequestCancellation(o) \/ ConfirmCancellation(o)
         \/ \E d \in Documents : ConfirmRecovery(o, d)
  PROVE  \E q \in File : OneFile(o, q)
<1> DEFINE r == file[o]
<1>0. r \in File
  BY DEF TypeOK
<1>1. CASE RequestCancellation(o)
  <2> DEFINE q == [r EXCEPT !.cancellation = "PENDING", !.state = "CANCEL_REQUESTED",
                            !.payment = IF Exposed(r) THEN @ ELSE "CANCELLED"]
  <2>1. q \in File /\ Set(o, q) /\ r.cancellation = "NONE"
    BY <1>0, <1>1 DEF RequestCancellation, File, State, CancellationStatus
  <2>2. FileOk(q) /\ Filed(o, q)
    BY <1>0, <2>1 DEF FileOk, Filed, File, Exposed
  <2> QED BY <2>1, <2>2 DEF OneFile
<1>2. CASE ConfirmCancellation(o) /\ Exposed(r)
  <2> DEFINE q == [r EXCEPT !.cancellation = "FINANCIAL_REVIEW"]
  <2>1. q \in File /\ Set(o, q) /\ r.cancellation = "PENDING"
    BY <1>0, <1>2 DEF ConfirmCancellation, File, CancellationStatus
  <2>2. FileOk(q) /\ Filed(o, q)
    BY <1>0, <2>1 DEF FileOk, Filed, File, Settled
  <2> QED BY <2>1, <2>2 DEF OneFile
<1>3. CASE ConfirmCancellation(o) /\ ~Exposed(r)
  <2> DEFINE q == [r EXCEPT !.cancellation = "CONFIRMED", !.payment = "CANCELLED",
                            !.state = "CANCELLED"]
  <2>1. q \in File /\ Set(o, q) /\ r.cancellation = "PENDING"
    BY <1>0, <1>3 DEF ConfirmCancellation, File, State, CancellationStatus
  <2>2. FileOk(q) /\ Filed(o, q)
    BY <1>0, <2>1 DEF FileOk, Filed, File
  <2> QED BY <2>1, <2>2 DEF OneFile
<1>4. ASSUME NEW d \in Documents, ConfirmRecovery(o, d)
      PROVE  \E q \in File : OneFile(o, q)
  <2> DEFINE q == [r EXCEPT !.recovery = d, !.cancellation = "FINANCIALLY_RECONCILED"]
  <2>1. q \in File /\ Set(o, q)
    BY <1>0, <1>4 DEF ConfirmRecovery, File, CancellationStatus
  <2>2. /\ r.payment = "SUCCEEDED" /\ ~r.shipped /\ r.state = "CANCEL_REQUESTED"
        /\ r.recovery = NoDocument /\ ReceiptIsNew(o, d)
    BY <1>4 DEF ConfirmRecovery
  <2>3. FileOk(q) /\ Filed(o, q)
    BY <1>0, <2>2 DEF FileOk, Filed, File
  <2> QED BY <2>1, <2>3 DEF OneFile
<1> QED BY <1>1, <1>2, <1>3, <1>4

\* The commands about the customer's money.
LEMMA CustomerStep ==
  ASSUME TypeOK, NEW o \in Orders, FileOk(file[o]),
         \/ \E d \in Documents : RecordRefund(o, d)
         \/ \E d \in Documents, residual \in BOOLEAN :
              RecordStatement(o, d, residual) \/ CorrectStatement(o, d, residual)
         \/ \E version \in 1 .. Len(file[o].statement) : Complete(o, version)
  PROVE  \E q \in File : OneFile(o, q)
<1> DEFINE r == file[o]
<1>0. r \in File
  BY DEF TypeOK
<1>1. ASSUME NEW d \in Documents, RecordRefund(o, d)
      PROVE  \E q \in File : OneFile(o, q)
  <2> DEFINE q == [r EXCEPT !.refund = d]
  <2>1. q \in File /\ Set(o, q)
    BY <1>0, <1>1 DEF RecordRefund, File
  <2>2. /\ r.refund = NoDocument /\ EvidenceUnused(o, d) /\ r.recovery # NoDocument
        /\ r.line = "NONE" /\ r.state = "CANCEL_REQUESTED"
    BY <1>1 DEF RecordRefund, Reconcilable
  <2>3. FileOk(q) /\ Filed(o, q)
    BY <1>0, <2>2 DEF FileOk, Filed, File
  <2> QED BY <2>1, <2>3 DEF OneFile
<1>2. ASSUME NEW d \in Documents, NEW residual \in BOOLEAN,
             RecordStatement(o, d, residual) \/ CorrectStatement(o, d, residual)
      PROVE  \E q \in File : OneFile(o, q)
  <2> DEFINE s == [document |-> d, residual |-> residual]
  <2>0. s \in Statement
    BY DEF Statement
  <2> DEFINE q == [r EXCEPT !.statement = Append(@, s)]
  <2>1. /\ r.refund # NoDocument /\ EvidenceUnused(o, d) /\ r.state = "CANCEL_REQUESTED"
        /\ Set(o, q)
    <3>1. CASE RecordStatement(o, d, residual)
      <4>1. <<s>> = Append(r.statement, s)
        BY <3>1 DEF RecordStatement
      <4> QED BY <3>1, <4>1 DEF RecordStatement, Reconcilable
    <3>2. CASE CorrectStatement(o, d, residual)
      BY <3>2 DEF CorrectStatement, Reconcilable, FileOk
    <3> QED BY <1>2, <3>1, <3>2
  <2>2. Append(r.statement, s) \in Seq(Statement)
    BY <1>0, <2>0, AppendProperties DEF File
  <2>3. q \in File
    BY <1>0, <2>2 DEF File
  <2>4. s.document = d /\ q.statement = Append(r.statement, s)
    BY <1>0 DEF File
  <2>5. FileOk(q)
    BY <1>0, <2>1 DEF FileOk, File
  <2>6. Filed(o, q)
    BY <1>0, <2>0, <2>1, <2>4 DEF Filed, File
  <2> QED BY <2>1, <2>3, <2>5, <2>6 DEF OneFile
<1>3. CASE \E version \in 1 .. Len(file[o].statement) : Complete(o, version)
  <2>1. PICK version \in 1 .. Len(file[o].statement) : Complete(o, version)
    BY <1>3
  <2> DEFINE q == [r EXCEPT !.state = "CANCELLED", !.reconciled = version]
  <2>0. version \in Nat
    BY <2>1
  <2>2. q \in File /\ Set(o, q)
    BY <1>0, <2>0, <2>1 DEF Complete, File, State
  <2>3. /\ r.refund # NoDocument /\ r.recovery # NoDocument /\ r.statement # <<>>
        /\ r.payment = "SUCCEEDED" /\ ~r.shipped /\ r.cancellation # "NONE"
        /\ version = Len(r.statement) /\ ~Last(r.statement).residual
    BY <2>1 DEF Complete, Reconcilable, EffectiveStatement
  <2>4. FileOk(q) /\ Filed(o, q)
    BY <1>0, <2>3 DEF FileOk, Filed, File, Settled
  <2> QED BY <2>2, <2>4 DEF OneFile
<1> QED BY <1>1, <1>2, <1>3

\* Another line of the marketplace order.
LEMMA LineStep ==
  ASSUME TypeOK, NEW o \in Orders, FileOk(file[o]),
         \/ \E status \in {"QUEUED", "IMPORTED"} : LateLine(o, status)
         \/ ProcessLine(o) \/ VerifyLine(o)
  PROVE  \E q \in File : OneFile(o, q)
<1> DEFINE r == file[o]
<1>0. r \in File
  BY DEF TypeOK
<1>1. CASE \E status \in {"QUEUED", "IMPORTED"} : LateLine(o, status)
  <2>1. PICK status \in {"QUEUED", "IMPORTED"} : LateLine(o, status)
    BY <1>1
  <2> DEFINE q == [r EXCEPT !.line = Arrived(r, status)]
  <2>2. q \in File /\ Set(o, q)
    BY <1>0, <2>1 DEF LateLine, Arrived, File
  <2>3. FileOk(q) /\ Filed(o, q)
    BY <1>0 DEF FileOk, Filed, File, Arrived, Settled
  <2> QED BY <2>2, <2>3 DEF OneFile
<1>2. CASE ProcessLine(o) \/ VerifyLine(o)
  <2> DEFINE q == [r EXCEPT !.line = "FULFILLED"]
  <2>1. q \in File /\ Set(o, q) /\ r.refund = NoDocument
    BY <1>0, <1>2 DEF ProcessLine, VerifyLine, File, FileOk
  <2>2. FileOk(q) /\ Filed(o, q)
    BY <1>0, <2>1 DEF FileOk, Filed, File, Settled
  <2> QED BY <2>1, <2>2 DEF OneFile
<1> QED BY <1>1, <1>2

LEMMA NextStep ==
  ASSUME TypeOK, \A o \in Orders : FileOk(file[o]), Next
  PROVE  \E o \in Orders, q \in File : OneFile(o, q)
<1>1. PICK o \in Orders :
        \/ \E d \in Documents :
             \/ RecordEvidence(o, d) \/ CorrectEvidence(o, d) \/ ConfirmRecovery(o, d)
             \/ RecordRefund(o, d)
             \/ \E residual \in BOOLEAN : \/ RecordStatement(o, d, residual)
                                          \/ CorrectStatement(o, d, residual)
        \/ \E reason \in Reason : RequestCorrection(o, reason)
        \/ \E version \in 1 .. Len(file[o].proof) : ConfirmEvidence(o, version)
        \/ \E version \in 1 .. Len(file[o].statement) : Complete(o, version)
        \/ RefuseConfirmation(o) \/ AddShipment(o)
        \/ RequestCancellation(o) \/ ConfirmCancellation(o)
        \/ \E status \in {"QUEUED", "IMPORTED"} : LateLine(o, status)
        \/ ProcessLine(o) \/ VerifyLine(o)
  BY DEF Next
<1>2. FileOk(file[o])
  OBVIOUS
<1>3. \E q \in File : OneFile(o, q)
  BY <1>1, <1>2, PaymentStep, CancellationStep, CustomerStep, LineStep
<1> QED BY <1>3

-----------------------------------------------------------------------------
(* The supplier's papers of two files *)

SupplierOk(r) ==
  r.recovery # NoDocument =>
    \A d \in ToSet(r.proof) : d.reference # r.recovery.reference /\ d.hash # r.recovery.hash

SupplierApart(r, q) ==
  /\ \A d \in ToSet(r.proof), e \in ToSet(q.proof) : d.reference # e.reference
  /\ r.recovery # NoDocument /\ q.recovery # NoDocument =>
       /\ r.recovery.reference # q.recovery.reference
       /\ r.recovery.hash # q.recovery.hash

LEMMA SupplierByFile ==
  SupplierEvidenceServesOnce <=>
    \A p \in Orders : /\ SupplierOk(file[p])
                      /\ \A q \in Orders \ {p} : SupplierApart(file[p], file[q])
BY DEF SupplierEvidenceServesOnce, SupplierOk, SupplierApart

LEMMA SupplierStep ==
  ASSUME TypeOK, SupplierEvidenceServesOnce,
         NEW o \in Orders, NEW q \in File, OneFile(o, q)
  PROVE  SupplierEvidenceServesOnce'
<1> DEFINE r == file[o]
<1>0. r \in File /\ file'[o] = q /\ \A p \in Orders \ {o} : file'[p] = file[p]
  BY SetFile DEF OneFile, TypeOK
<1>1. /\ SupplierOk(r)
      /\ \A p \in Orders \ {o} : SupplierApart(r, file[p]) /\ SupplierApart(file[p], r)
  BY SupplierByFile
<1>2. SupplierOk(q) /\ \A p \in Orders \ {o} : SupplierApart(q, file[p])
  <2>1. CASE q.proof = r.proof /\ q.recovery = r.recovery
    BY <1>1, <2>1 DEF SupplierOk, SupplierApart
  <2>2. ASSUME NEW d \in Documents, q.proof = Append(r.proof, d),
               ~ReferenceInUse(o, d.reference), q.recovery = NoDocument
        PROVE  SupplierOk(q) /\ \A p \in Orders \ {o} : SupplierApart(q, file[p])
    <3>1. ToSet(q.proof) = ToSet(r.proof) \cup {d}
      BY <1>0, <2>2, ToSetAppend DEF File
    <3>2. \A p \in Orders \ {o} : \A e \in ToSet(file[p].proof) : d.reference # e.reference
      BY <2>2 DEF ReferenceInUse
    <3> QED BY <1>1, <2>2, <3>1, <3>2 DEF SupplierOk, SupplierApart
  <2>3. ASSUME NEW d \in Documents, q.recovery = d, ReceiptIsNew(o, d), q.proof = r.proof
        PROVE  SupplierOk(q) /\ \A p \in Orders \ {o} : SupplierApart(q, file[p])
    BY <1>1, <2>3 DEF ReceiptIsNew, SupplierOk, SupplierApart
  <2> QED BY <2>1, <2>2, <2>3 DEF OneFile, Filed
<1>3. \A p \in Orders \ {o} : SupplierApart(file[p], q)
  BY <1>2 DEF SupplierApart
<1>4. \A p \in Orders \ {o} :
        SupplierOk(file[p]) /\ \A p2 \in Orders \ {p} : SupplierApart(file[p], file[p2])
  BY SupplierByFile
<1>5. \A p \in Orders : /\ SupplierOk(file'[p])
                        /\ \A p2 \in Orders \ {p} : SupplierApart(file'[p], file'[p2])
  BY <1>0, <1>2, <1>3, <1>4
<1> QED BY <1>5 DEF SupplierEvidenceServesOnce, SupplierOk, SupplierApart

-----------------------------------------------------------------------------
(* The customer's papers of two files *)

FilePapers(r) == ToSet(r.proof) \cup ({r.recovery} \ {NoDocument})
FilePaper(r, i) == IF i = 0 THEN r.refund ELSE r.statement[i].document
FileNumbers(r) == IF r.refund = NoDocument THEN {} ELSE 0 .. Len(r.statement)

CustomerOk(r) ==
  \A i \in FileNumbers(r) :
    /\ \A j \in FileNumbers(r) : i # j => FilePaper(r, i).hash # FilePaper(r, j).hash
    /\ \A d \in FilePapers(r) : /\ d.hash # FilePaper(r, i).hash
                                /\ d.reference # FilePaper(r, i).reference

CustomerApart(r, q) ==
  \A i \in FileNumbers(r), j \in FileNumbers(q) : FilePaper(r, i).hash # FilePaper(q, j).hash

CustomersByFile ==
  \A p \in Orders : /\ CustomerOk(file[p])
                    /\ \A q \in Orders \ {p} : CustomerApart(file[p], file[q])

LEMMA CustomerByFile == CustomerEvidenceServesOnce <=> CustomersByFile
<1>1. \A p \in Orders : /\ SupplierPapers(p) = FilePapers(file[p])
                        /\ PaperNumbers(p) = FileNumbers(file[p])
                        /\ \A i : Paper(p, i) = FilePaper(file[p], i)
  BY DEF SupplierPapers, FilePapers, PaperNumbers, FileNumbers, Paper, FilePaper
<1>2. ASSUME CustomerEvidenceServesOnce
      PROVE  CustomersByFile
  BY <1>1, <1>2
  DEF CustomerEvidenceServesOnce, CustomersByFile, CustomerOk, CustomerApart
<1>3. ASSUME CustomersByFile
      PROVE  CustomerEvidenceServesOnce
  BY <1>1, <1>3
  DEF CustomerEvidenceServesOnce, CustomersByFile, CustomerOk, CustomerApart
<1> QED BY <1>2, <1>3

\* A number of a file stands for one of the papers that _evidence_unused looks at.
LEMMA NumberedPapers ==
  ASSUME TypeOK, NEW p \in Orders, NEW i \in FileNumbers(file[p])
  PROVE  FilePaper(file[p], i) \in CustomerPapers(p)
<1>1. file[p].statement \in Seq(Statement)
  BY DEF TypeOK, File
<1>2. CASE i = 0
  BY <1>2 DEF FileNumbers, FilePaper, CustomerPapers
<1>3. CASE i # 0
  <2>1. i \in 1 .. Len(file[p].statement)
    BY <1>1, <1>3 DEF FileNumbers
  <2>2. file[p].statement[i] \in ToSet(file[p].statement)
    BY <1>1, <2>1 DEF ToSet
  <2> QED BY <1>3, <2>2 DEF FilePaper, CustomerPapers
<1> QED BY <1>2, <1>3

\* One paper about the customer's money joins the file.
LEMMA CustomerPaperJoins ==
  ASSUME TypeOK, NEW o \in Orders, NEW q \in File, NEW d, NEW n,
         CustomerOk(file[o]), EvidenceUnused(o, d),
         FilePapers(q) = FilePapers(file[o]),
         FileNumbers(q) = FileNumbers(file[o]) \cup {n}, FilePaper(q, n) = d,
         n \notin FileNumbers(file[o]),
         \A i \in FileNumbers(file[o]) : FilePaper(q, i) = FilePaper(file[o], i),
         \A p \in Orders \ {o} : CustomerApart(file[o], file[p])
  PROVE  CustomerOk(q) /\ \A p \in Orders \ {o} : CustomerApart(q, file[p])
<1>1. \A p \in Orders : \A i \in FileNumbers(file[p]) : FilePaper(file[p], i).hash # d.hash
  BY NumberedPapers DEF EvidenceUnused
<1>2. \A e \in FilePapers(file[o]) : e.hash # d.hash /\ e.reference # d.reference
  BY DEF EvidenceUnused, SupplierPapers, FilePapers
<1>3. CustomerOk(q)
  BY <1>1, <1>2 DEF CustomerOk
<1>4. \A p \in Orders \ {o} : CustomerApart(q, file[p])
  BY <1>1 DEF CustomerApart
<1> QED BY <1>3, <1>4

LEMMA CustomerPapersStep ==
  ASSUME TypeOK, CustomerEvidenceServesOnce,
         NEW o \in Orders, NEW q \in File, OneFile(o, q)
  PROVE  CustomerEvidenceServesOnce'
<1> DEFINE r == file[o]
<1>0. r \in File /\ file'[o] = q /\ \A p \in Orders \ {o} : file'[p] = file[p]
  BY SetFile DEF OneFile, TypeOK
<1>1. /\ CustomerOk(r)
      /\ \A p \in Orders \ {o} : CustomerApart(r, file[p]) /\ CustomerApart(file[p], r)
  BY CustomerByFile DEF CustomersByFile
<1>2. CustomerOk(q) /\ \A p \in Orders \ {o} : CustomerApart(q, file[p])
  <2>1. CASE /\ q.proof = r.proof /\ q.recovery = r.recovery
             /\ q.refund = r.refund /\ q.statement = r.statement
    BY <1>1, <2>1 DEF CustomerOk, CustomerApart, FilePapers, FilePaper, FileNumbers
  <2>2. CASE q.refund = NoDocument
    BY <2>2 DEF CustomerOk, CustomerApart, FileNumbers
  <2>3. ASSUME NEW d \in Documents, r.refund = NoDocument, q.refund = d,
               EvidenceUnused(o, d), q.proof = r.proof, q.recovery = r.recovery,
               q.statement = <<>>
        PROVE  CustomerOk(q) /\ \A p \in Orders \ {o} : CustomerApart(q, file[p])
    <3>1. FileNumbers(r) = {} /\ FileNumbers(q) = {0} /\ FilePaper(q, 0) = d
      BY <2>3, NoDocumentAssumption DEF FileNumbers, FilePaper
    <3>2. FilePapers(q) = FilePapers(r)
      BY <2>3 DEF FilePapers
    <3> QED BY <1>1, <2>3, <3>1, <3>2, CustomerPaperJoins
  <2>4. ASSUME NEW s \in Statement, q.statement = Append(r.statement, s),
               EvidenceUnused(o, s.document), r.refund # NoDocument, q.refund = r.refund,
               q.proof = r.proof, q.recovery = r.recovery
        PROVE  CustomerOk(q) /\ \A p \in Orders \ {o} : CustomerApart(q, file[p])
    <3> DEFINE n == Len(r.statement) + 1
    <3>1. /\ r.statement \in Seq(Statement) /\ Len(r.statement) \in Nat
          /\ Len(q.statement) = n /\ q.statement[n] = s
          /\ \A i \in 1 .. Len(r.statement) : q.statement[i] = r.statement[i]
      BY <1>0, <2>4, AppendProperties DEF File
    <3>2. FileNumbers(r) = 0 .. Len(r.statement) /\ FileNumbers(q) = 0 .. n
      BY <2>4, <3>1 DEF FileNumbers
    <3>3. FileNumbers(q) = FileNumbers(r) \cup {n} /\ n \notin FileNumbers(r)
      BY <3>1, <3>2
    <3>4. FilePaper(q, n) = s.document
      BY <3>1 DEF FilePaper
    <3>5. \A i \in FileNumbers(r) : FilePaper(q, i) = FilePaper(r, i)
      BY <2>4, <3>1, <3>2 DEF FilePaper
    <3>6. FilePapers(q) = FilePapers(r)
      BY <2>4 DEF FilePapers
    <3> HIDE DEF n
    <3> QED BY <1>1, <2>4, <3>3, <3>4, <3>5, <3>6, CustomerPaperJoins
  <2> QED BY <2>1, <2>2, <2>3, <2>4 DEF OneFile, Filed
<1>3. \A p \in Orders \ {o} : CustomerApart(file[p], q)
  BY <1>2 DEF CustomerApart
<1>4. \A p \in Orders \ {o} :
        CustomerOk(file[p]) /\ \A p2 \in Orders \ {p} : CustomerApart(file[p], file[p2])
  BY CustomerByFile DEF CustomersByFile
<1>5. CustomersByFile'
  BY <1>0, <1>2, <1>3, <1>4 DEF CustomersByFile
<1> QED BY <1>5, CustomerByFile, PTL

-----------------------------------------------------------------------------
(* The invariant *)

LEMMA InitInv == Init => PInv
<1> SUFFICES ASSUME Init PROVE PInv
  OBVIOUS
<1>1. \A o \in Orders :
        /\ file[o].state = "SUPPLIER_ORDERED" /\ file[o].payment = "EVIDENCE_PENDING"
        /\ file[o].proof = <<>> /\ file[o].statement = <<>>
        /\ file[o].recovery = NoDocument /\ file[o].refund = NoDocument
  BY DEF Init
<1>2. TypeOK
  BY DEF Init, TypeOK, File, State, CancellationStatus
<1>3. \A o \in Orders : FileOk(file[o])
  BY <1>1 DEF FileOk
<1>4. ToSet(<<>>) = {}
  BY DEF ToSet
<1>5. SupplierEvidenceServesOnce
  BY <1>1, <1>4 DEF SupplierEvidenceServesOnce
<1>6. CustomerEvidenceServesOnce
  BY <1>1 DEF CustomerEvidenceServesOnce, PaperNumbers
<1> QED BY <1>2, <1>3, <1>5, <1>6 DEF PInv

LEMMA StepInv == PInv /\ [Next]_file => PInv'
<1> SUFFICES ASSUME PInv, [Next]_file PROVE PInv'
  OBVIOUS
<1>1. CASE Next
  <2>1. PICK o \in Orders, q \in File : OneFile(o, q)
    BY <1>1, NextStep DEF PInv
  <2>2. TypeOK' /\ file'[o] = q /\ \A p \in Orders \ {o} : file'[p] = file[p]
    BY <2>1, SetFile DEF OneFile, PInv
  <2>3. \A p \in Orders : FileOk(file'[p])
    BY <2>1, <2>2 DEF OneFile, PInv
  <2>4. SupplierEvidenceServesOnce'
    BY <2>1, SupplierStep DEF PInv
  <2>5. CustomerEvidenceServesOnce'
    BY <2>1, CustomerPapersStep DEF PInv
  <2> QED BY <2>2, <2>3, <2>4, <2>5 DEF PInv
<1>2. CASE UNCHANGED file
  <2>1. TypeOK' /\ \A p \in Orders : FileOk(file'[p])
    BY <1>2 DEF PInv, TypeOK
  <2>2. SupplierEvidenceServesOnce'
    BY <1>2 DEF PInv, SupplierEvidenceServesOnce
  <2>3. CustomerEvidenceServesOnce'
    BY <1>2
    DEF PInv, CustomerEvidenceServesOnce, Paper, PaperNumbers, SupplierPapers
  <2> QED BY <2>1, <2>2, <2>3 DEF PInv
<1> QED BY <1>1, <1>2

\* The files are in order and their papers serve once, whatever the commands and their order.
THEOREM PInvariant == Spec => []PInv
BY InitInv, StepInv, PTL DEF Spec

\* The rows keep their types.
THEOREM PTypeOK == Spec => []TypeOK
<1>1. PInv => TypeOK
  BY DEF PInv
<1> QED BY <1>1, PInvariant, PTL

\* What was confirmed is the last version of the proof, and no correction is open
\* (confirm_evidence, correct_evidence).
THEOREM PConfirmedProofIsFinal == Spec => []ConfirmedProofIsFinal
<1>1. PInv => ConfirmedProofIsFinal
  BY DEF PInv, FileOk, ConfirmedProofIsFinal
<1> QED BY <1>1, PInvariant, PTL

\* A supplier reference proves one payment and a receipt is credited once
\* (reference_in_use, confirm_recovery).
THEOREM PSupplierEvidenceServesOnce == Spec => []SupplierEvidenceServesOnce
<1>1. PInv => SupplierEvidenceServesOnce
  BY DEF PInv
<1> QED BY <1>1, PInvariant, PTL

\* No file stands for two refunds, statements or corrections (_evidence_unused).
THEOREM PCustomerEvidenceServesOnce == Spec => []CustomerEvidenceServesOnce
<1>1. PInv => CustomerEvidenceServesOnce
  BY DEF PInv
<1> QED BY <1>1, PInvariant, PTL

\* A paid order is cancelled only on the final papers of both refunds (complete).
THEOREM PCancelledIsSettled == Spec => []CancelledIsSettled
<1>1. PInv => CancelledIsSettled
  BY DEF PInv, FileOk, Settled, CancelledIsSettled
<1> QED BY <1>1, PInvariant, PTL

\* A line that comes beside a refund is never fulfilled (_context, ingest, _eligible).
THEOREM PNoFulfilmentBesideRefund == Spec => []NoFulfilmentBesideRefund
<1>1. PInv => NoFulfilmentBesideRefund
  BY DEF PInv, FileOk, NoFulfilmentBesideRefund
<1> QED BY <1>1, PInvariant, PTL
=============================================================================
