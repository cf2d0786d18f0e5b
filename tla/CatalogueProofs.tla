-------------------------- MODULE CatalogueProofs --------------------------
(***************************************************************************)
(* Catalogue's safety for every number of workers, attempts, revisions and *)
(* disturbances. What a worker still carries is bound to the row it was    *)
(* read from, and a row to the revision that made it.                      *)
(***************************************************************************)
EXTENDS Catalogue, TLAPS

HasJob(r) == job[r].status # "NONE"

\* Jobs exist only for revisions up to the current one, and workers and marketplace know no
\* revision without one.
RevisionsInOrder ==
  /\ \A r \in Revisions : HasJob(r) => r <= listing.revision
  /\ listing.desired = "ACTIVE" => listing.revision < MaxRevision
  /\ told => HasJob(listing.revision)
  /\ \A r \in resumed : HasJob(r)
  /\ \A w \in Workers : worker[w].at # "idle" => HasJob(worker[w].revision)

\* A person's confirmation has no job; any other sale is the first revision's, with nothing
\* but a claim warning against it, or resumed.
SalesHaveASource ==
  /\ listing.remote = "MANUALLY_CONFIRMED" =>
       listing.desired = "ACTIVE" /\ ~HasJob(listing.revision)
  /\ listing.desired = "ACTIVE" /\ listing.remote # "MANUALLY_CONFIRMED" =>
       \/ listing.revision = 0 /\ risks \subseteq {"CLAIM_RATE_WARNING"}
       \/ listing.revision \in resumed
  /\ HasJob(listing.revision) => listing.desired = Intent(listing.revision)

\* What a worker is about to record or to report has happened.
AnswersAreTrue ==
  \A w \in Workers :
    /\ worker[w].at = "record" /\ worker[w].revision = listing.revision => told
    /\ worker[w].at = "end" /\ worker[w].outcome = "ok"
         /\ worker[w].revision = listing.revision =>
         listing.remote # "UNCONFIRMED" \/ "PRICE_SYNC_FAILED" \in risks

CatalogueInv ==
  /\ CatalogueTypeOK /\ RevisionsInOrder /\ SalesHaveASource /\ AnswersAreTrue
  /\ ConfirmationIsNewest /\ ChangeIsPursued /\ RiskStopsSales

-----------------------------------------------------------------------------
\* What the queue does to a row, in the words used here.
LEMMA RowSteps ==
  ASSUME NEW row \in JobRow, NEW token, NEW outcome
  PROVE  /\ Enqueued(row) \in JobRow /\ Claimed(row) \in JobRow /\ Exhausted(row) \in JobRow
         /\ Completed(row, token, outcome, MaxAttempts) \in JobRow /\ NoJob \in JobRow
         /\ Enqueued(row).status # "NONE" /\ Claimed(row).status = "RUNNING"
         /\ Exhausted(row).status = "DEAD"
         /\ row.status = "NONE" => Enqueued(row).status = "PENDING"
         /\ Completed(row, token, outcome, MaxAttempts).status =
              IF row.lease # token THEN row.status
              ELSE IF outcome = "ok" THEN "DONE"
              ELSE IF outcome = "retry" /\ row.attempts < MaxAttempts THEN "PENDING" ELSE "DEAD"
  BY DEF JobRow, JobStatus, Enqueued, Claimed, Exhausted, Completed, NoJob

\* A worker goes on with what it has, and does not begin to record.
GoesOn(w) ==
  /\ worker'[w].revision = worker[w].revision
  /\ worker'[w].at # "idle" => worker[w].at # "idle"
  /\ worker'[w].at = "record" => worker[w].at = "record"

\* A pause, whoever pauses: no worker has its revision yet.
LEMMA PauseStep ==
  ASSUME CatalogueInv, NEW terms \in BOOLEAN, Pause(terms), listing.revision < MaxRevision,
         UNCHANGED <<origin, deadLetters>>, risks \subseteq risks', risks' \subseteq Risk,
         sellable' \in BOOLEAN, disturbances' \in Nat, worker' \in [Workers -> Work],
         \A w \in Workers : GoesOn(w)
  PROVE  CatalogueInv'
<1> DEFINE next == listing.revision + 1
<1>1. /\ listing \in Listing /\ job \in [Revisions -> JobRow] /\ worker \in [Workers -> Work]
      /\ listing.revision \in Nat /\ next \in Revisions /\ next \in Nat /\ MaxRevision \in Nat
  BY CatalogueBounds DEF CatalogueInv, CatalogueTypeOK, Listing, Revisions
<1>2. ~HasJob(next)
  BY <1>1 DEF CatalogueInv, RevisionsInOrder
<1>3. /\ listing' = [desired |-> "PAUSED", remote |-> "UNCONFIRMED", revision |-> next]
      /\ job' = [job EXCEPT ![next] = Enqueued(@)]
      /\ told' = FALSE /\ resumed' = resumed /\ ownTerms' \in BOOLEAN
  BY DEF Pause, NewRevision, EnqueueNext, CatalogueInv, CatalogueTypeOK
<1>4. /\ job' \in [Revisions -> JobRow] /\ job'[next].status = "PENDING"
      /\ \A r \in Revisions \ {next} : job'[r] = job[r]
  BY <1>1, <1>2, <1>3, RowSteps DEF HasJob
<1>5. \A w \in Workers : worker[w].revision \in Revisions
  BY <1>1 DEF Work
<1> HIDE DEF next
<1>6. CatalogueTypeOK'
  BY <1>1, <1>3, <1>4 DEF CatalogueInv, CatalogueTypeOK, Listing, Remote
<1>7. resumed \subseteq Revisions /\ next \notin resumed
  BY <1>2 DEF CatalogueInv, CatalogueTypeOK, RevisionsInOrder
<1>8. RevisionsInOrder'
  <2>1. \A r \in Revisions : HasJob(r)' => r <= next
    BY <1>1, <1>4 DEF HasJob, CatalogueInv, RevisionsInOrder, next, Revisions
  <2>2. \A r \in Revisions : HasJob(r) => HasJob(r)'
    BY <1>4 DEF HasJob
  <2>3. \A w \in Workers : (worker[w].at # "idle" => HasJob(worker[w].revision))'
    BY <2>2, <1>5 DEF GoesOn, CatalogueInv, RevisionsInOrder, HasJob
  <2> QED
    BY <2>1, <2>2, <2>3, <1>3, <1>7 DEF RevisionsInOrder, CatalogueInv
<1>9. AnswersAreTrue'
  <2>1. ASSUME NEW w \in Workers, worker'[w].at # "idle"
        PROVE  worker'[w].revision # next
    BY <2>1, <1>1, <1>2, <1>5 DEF GoesOn, CatalogueInv, RevisionsInOrder
  <2> QED
    BY <2>1, <1>3 DEF AnswersAreTrue, CatalogueInv, GoesOn
<1>10. next # 0
  BY <1>1 DEF next
<1>11. SalesHaveASource'
  BY <1>3, <1>7, <1>10 DEF SalesHaveASource, Intent
<1> QED
  BY <1>3, <1>4, <1>6, <1>8, <1>9, <1>11 DEF CatalogueInv, ConfirmationIsNewest, ChangeIsPursued,
     RiskStopsSales

\* A step of the queue: neither what is wanted nor what is known changes.
LEMMA QueueStep ==
  ASSUME CatalogueInv, CatalogueTypeOK', UNCHANGED <<origin, listing, risks, resumed>>,
         \A r \in Revisions : HasJob(r)' <=> HasJob(r),
         told => told', told' => HasJob(listing.revision),
         \A w \in Workers : worker'[w].at # "idle" => HasJob(worker'[w].revision),
         AnswersAreTrue', ChangeIsPursued'
  PROVE  CatalogueInv'
<1>1. \A w \in Workers : worker'[w].revision \in Revisions
  BY DEF CatalogueTypeOK, Work
<1>2. resumed \subseteq Revisions /\ listing.revision \in Revisions
  BY DEF CatalogueTypeOK, CatalogueInv, Listing
<1>3. RevisionsInOrder'
  BY <1>1, <1>2 DEF CatalogueInv, RevisionsInOrder, HasJob
<1>4. SalesHaveASource'
  BY <1>2 DEF CatalogueInv, SalesHaveASource, HasJob, Intent
<1>5. ConfirmationIsNewest'
  BY <1>2 DEF CatalogueInv, SalesHaveASource, ConfirmationIsNewest
<1> QED
  BY <1>3, <1>4, <1>5 DEF CatalogueInv, RiskStopsSales

-----------------------------------------------------------------------------
LEMMA CatalogueStart == CatalogueInit => CatalogueInv
<1> SUFFICES ASSUME CatalogueInit PROVE CatalogueInv
  OBVIOUS
<1>1. /\ 0 \in Revisions /\ MaxRevision \in Nat \ {0}
      /\ job \in [Revisions -> JobRow] /\ \A r \in Revisions : HasJob(r) => r = 0
  BY CatalogueBounds DEF CatalogueInit, Revisions, HasJob, NoJob, Enqueued, JobRow, JobStatus
<1>2. /\ Idle \in Work /\ worker = [w \in Workers |-> Idle] /\ Idle.at = "idle"
      /\ listing \in Listing /\ listing.revision = 0
      /\ listing.remote = "UNKNOWN" /\ risks = {} /\ ~told /\ resumed = {}
      /\ listing.desired = Intent(0)
  BY <1>1 DEF CatalogueInit, Idle, Work, Position, Listing, Remote, Intent
<1>3. CatalogueTypeOK
  BY <1>1, <1>2 DEF CatalogueInit, CatalogueTypeOK
<1> QED
  BY <1>1, <1>2, <1>3 DEF CatalogueInv, RevisionsInOrder, SalesHaveASource, AnswersAreTrue,
     ConfirmationIsNewest, ChangeIsPursued, RiskStopsSales

\* A resumption: a job that no worker has, for a listing without an open review but the
\* warning the resumption itself may open.
LEMMA ResumeStep ==
  ASSUME CatalogueInv, ResumeTerms
  PROVE  CatalogueInv'
<1> DEFINE next == listing.revision + 1
<1>1. /\ listing \in Listing /\ job \in [Revisions -> JobRow] /\ worker \in [Workers -> Work]
      /\ listing.revision \in Nat /\ next \in Revisions /\ next \in Nat /\ MaxRevision \in Nat
      /\ next < MaxRevision /\ resumed \subseteq Revisions
  BY CatalogueBounds DEF CatalogueInv, CatalogueTypeOK, Listing, Revisions, ResumeTerms
<1>2. ~HasJob(next)
  BY <1>1 DEF CatalogueInv, RevisionsInOrder
<1>3. /\ listing' = [desired |-> "ACTIVE", remote |-> "UNCONFIRMED", revision |-> next]
      /\ job' = [job EXCEPT ![next] = Enqueued(@)] /\ resumed' = resumed \cup {next}
      /\ told' = FALSE /\ ownTerms' = FALSE /\ risks' \in {{}, {"CLAIM_RATE_WARNING"}}
      /\ UNCHANGED <<origin, sellable, deadLetters, worker, disturbances>>
  BY DEF ResumeTerms, NewRevision, EnqueueNext
<1>4. /\ job' \in [Revisions -> JobRow] /\ job'[next].status = "PENDING"
      /\ \A r \in Revisions \ {next} : job'[r] = job[r]
  BY <1>1, <1>2, <1>3, RowSteps DEF HasJob
<1>5. \A w \in Workers : worker[w].revision \in Revisions
  BY <1>1 DEF Work
<1>6. \A r \in Revisions : HasJob(r) => job'[r].status # "NONE"
  BY <1>4 DEF HasJob
<1>7. \A r \in Revisions : job'[r].status # "NONE" => r <= next
  BY <1>1, <1>4 DEF HasJob, CatalogueInv, RevisionsInOrder, Revisions
<1> HIDE DEF next
<1>8. CatalogueTypeOK'
  <2>1. risks' \subseteq Risk
    BY <1>3 DEF Risk, ClaimRisk
  <2> QED
    BY <1>1, <1>3, <1>4, <2>1 DEF CatalogueInv, CatalogueTypeOK, Listing, Remote
<1>9. RevisionsInOrder'
  <2>1. \A r \in resumed' : job'[r].status # "NONE"
    BY <1>1, <1>3, <1>4, <1>6 DEF CatalogueInv, RevisionsInOrder
  <2>2. \A w \in Workers :
          worker'[w].at # "idle" => job'[worker'[w].revision].status # "NONE"
    BY <1>3, <1>5, <1>6 DEF CatalogueInv, RevisionsInOrder
  <2> QED
    BY <1>1, <1>3, <1>7, <2>1, <2>2 DEF RevisionsInOrder, HasJob
<1>10. SalesHaveASource'
  BY <1>3 DEF SalesHaveASource, Intent
<1>11. AnswersAreTrue'
  <2>1. ASSUME NEW w \in Workers, worker[w].at # "idle"
        PROVE  worker[w].revision # next
    BY <2>1, <1>2, <1>5 DEF CatalogueInv, RevisionsInOrder
  <2> QED
    BY <2>1, <1>3 DEF AnswersAreTrue
<1> QED
  BY <1>3, <1>4, <1>8, <1>9, <1>10, <1>11 DEF CatalogueInv, ConfirmationIsNewest,
     ChangeIsPursued, RiskStopsSales

\* The guard on cash and claims: with the kill switch it pauses, with the warning it may not.
LEMMA GuardStep ==
  ASSUME CatalogueInv, CashAndClaimsGuard
  PROVE  CatalogueInv'
<1>1. PICK found \in ClaimsFound :
        /\ risks' = risks \cup found
        /\ \/ Pause(FALSE)
           \/ /\ "CLAIM_LOSS_KILL_SWITCH" \notin found
              /\ UNCHANGED <<listing, told, job, ownTerms, resumed>>
  BY DEF CashAndClaimsGuard
<1>2. /\ risks \subseteq risks' /\ risks' \subseteq Risk
      /\ listing.desired = "ACTIVE"
      /\ UNCHANGED <<origin, sellable, deadLetters, worker, disturbances>>
  BY <1>1 DEF CashAndClaimsGuard, CatalogueInv, CatalogueTypeOK, ClaimsFound, ClaimRisk, Risk
<1>3. CASE Pause(FALSE)
  <2>1. \A w \in Workers : GoesOn(w)
    BY <1>2 DEF GoesOn
  <2>2. /\ listing.revision < MaxRevision /\ sellable \in BOOLEAN /\ disturbances \in Nat
        /\ worker \in [Workers -> Work]
    BY <1>2 DEF CatalogueInv, CatalogueTypeOK, RevisionsInOrder
  <2> QED
    BY <1>2, <1>3, <2>1, <2>2, PauseStep
<1>4. CASE /\ "CLAIM_LOSS_KILL_SWITCH" \notin found
           /\ UNCHANGED <<listing, told, job, ownTerms, resumed>>
  <2>1. risks' \ risks \subseteq {"CLAIM_RATE_WARNING"}
    BY <1>1, <1>4 DEF ClaimsFound, ClaimRisk
  <2>2. CatalogueTypeOK' /\ RevisionsInOrder'
    BY <1>2, <1>4 DEF CatalogueInv, CatalogueTypeOK, RevisionsInOrder, HasJob
  <2>3. SalesHaveASource'
    BY <1>2, <1>4, <2>1 DEF CatalogueInv, SalesHaveASource, HasJob, Intent
  <2>4. AnswersAreTrue'
    BY <1>2, <1>4 DEF CatalogueInv, AnswersAreTrue
  <2>5. ConfirmationIsNewest' /\ ChangeIsPursued'
    BY <1>2, <1>4 DEF CatalogueInv, ConfirmationIsNewest, ChangeIsPursued
  <2>6. RiskStopsSales'
    BY <1>2, <1>4, <2>1 DEF CatalogueInv, RiskStopsSales
  <2> QED
    BY <2>2, <2>3, <2>4, <2>5, <2>6 DEF CatalogueInv
<1> QED
  BY <1>1, <1>3, <1>4

\* A step of everybody but the workers.
LEMMA WishStep ==
  ASSUME CatalogueInv,
         \/ \E available, risk \in BOOLEAN : ImportPrice(available, risk)
         \/ InventoryGuard \/ CashAndClaimsGuard \/ Activate \/ ResumeTerms \/ GoodsChange
         \/ \E terms \in BOOLEAN : OrderPauses(terms)
  PROVE  CatalogueInv'
<1>1. /\ listing \in Listing /\ listing.revision \in Nat /\ MaxRevision \in Nat
      /\ worker \in [Workers -> Work] /\ sellable \in BOOLEAN /\ disturbances \in Nat
      /\ risks \subseteq Risk /\ resumed \subseteq Revisions
  BY CatalogueBounds DEF CatalogueInv, CatalogueTypeOK, Listing, Revisions
<1>2. UNCHANGED worker => \A w \in Workers : GoesOn(w)
  BY DEF GoesOn
<1>3. CASE InventoryGuard \/ \E terms \in BOOLEAN : OrderPauses(terms)
  <2>1. \E terms \in BOOLEAN : Pause(terms)
    BY <1>3, Zenon DEF InventoryGuard, OrderPauses
  <2>2. listing.desired = "ACTIVE" \/ listing.revision + 1 < MaxRevision
    BY <1>3, Zenon DEF InventoryGuard, OrderPauses
  <2>3. listing.revision < MaxRevision
    BY <1>1, <2>2 DEF CatalogueInv, RevisionsInOrder
  <2>4. UNCHANGED <<origin, sellable, risks, deadLetters, worker, disturbances>>
    BY <1>3, Zenon DEF InventoryGuard, OrderPauses
  <2> QED
    BY <2>1, <2>3, <2>4, <1>1, <1>2, PauseStep
<1>4. ASSUME UNCHANGED <<origin, listing, told, risks, ownTerms, resumed, queueVars, disturbances>>,
             sellable' \in BOOLEAN
      PROVE  CatalogueInv'
  BY <1>4 DEF queueVars, CatalogueInv, CatalogueTypeOK, RevisionsInOrder, SalesHaveASource,
     AnswersAreTrue, ConfirmationIsNewest, ChangeIsPursued, RiskStopsSales, HasJob, Intent
<1>5. CASE \E available, risk \in BOOLEAN : ImportPrice(available, risk)
  <2>1. PICK available \in BOOLEAN, risk \in BOOLEAN : ImportPrice(available, risk)
    BY <1>5
  <2>2. CASE risk \/ ~available
    <3>1. /\ Pause(FALSE) /\ sellable' \in BOOLEAN
          /\ UNCHANGED <<origin, deadLetters, worker, disturbances>>
          /\ risks' = risks \cup {"SUPPLIER_DATA"}
      BY <2>1, <2>2, Zenon DEF ImportPrice
    <3>2. listing.revision < MaxRevision
      BY <1>1, <2>1 DEF ImportPrice
    <3> QED
      BY <3>1, <3>2, <1>1, <1>2, PauseStep DEF Risk, ListingRisk
  <2>3. CASE ~(risk \/ ~available)
    <3>1. /\ UNCHANGED <<origin, listing, told, risks, ownTerms, resumed, queueVars, disturbances>>
          /\ sellable' \in BOOLEAN
      BY <2>1, <2>3 DEF ImportPrice, queueVars
    <3> QED
      BY <3>1, <1>4
  <2> QED
    BY <2>2, <2>3
<1>6. CASE GoodsChange
  <2>1. UNCHANGED <<origin, listing, told, risks, ownTerms, resumed, queueVars, disturbances>>
        /\ sellable' \in BOOLEAN
    BY <1>1, <1>6 DEF GoodsChange
  <2> QED
    BY <2>1, <1>4
<1>7. CASE Activate
  <2> DEFINE next == listing.revision + 1
  <2>1. /\ next \in Revisions /\ next \in Nat /\ next < MaxRevision
        /\ listing' = [desired |-> "ACTIVE", remote |-> "MANUALLY_CONFIRMED", revision |-> next]
        /\ told' = FALSE /\ ownTerms' = FALSE /\ "SUPPLIER_DATA" \notin risks
        /\ UNCHANGED <<origin, sellable, risks, resumed, queueVars, disturbances>>
    BY <1>1, <1>7 DEF Activate, NewRevision, Revisions, ListingRisk
  <2>2. ~HasJob(next) /\ UNCHANGED <<job, deadLetters, worker>>
    BY <1>1, <2>1 DEF CatalogueInv, RevisionsInOrder, queueVars
  <2>3. CatalogueTypeOK'
    BY <2>1, <2>2 DEF CatalogueInv, CatalogueTypeOK, Listing, Remote
  <2>4. \A w \in Workers : worker[w].revision \in Revisions
    BY <1>1 DEF Work
  <2>5. RevisionsInOrder'
    <3>1. \A r \in Revisions : HasJob(r) => r <= next
      BY <1>1 DEF CatalogueInv, RevisionsInOrder, Revisions
    <3> QED
      BY <1>1, <2>1, <2>2, <2>4, <3>1 DEF CatalogueInv, RevisionsInOrder, HasJob
  <2>6. SalesHaveASource'
    BY <1>1, <2>1, <2>2 DEF CatalogueInv, RevisionsInOrder, SalesHaveASource, HasJob
  <2>7. AnswersAreTrue'
    BY <2>1, <2>2, <2>4 DEF CatalogueInv, AnswersAreTrue, RevisionsInOrder
  <2> QED
    BY <2>1, <2>2, <2>3, <2>5, <2>6, <2>7 DEF CatalogueInv, ConfirmationIsNewest, ChangeIsPursued,
       RiskStopsSales
<1>8. CASE CashAndClaimsGuard
  BY <1>8, GuardStep
<1> QED
  BY <1>3, <1>5, <1>6, <1>7, <1>8, ResumeStep

-----------------------------------------------------------------------------
\* What the types say to a worker's step.
LEMMA Types ==
  ASSUME CatalogueInv
  PROVE  /\ listing \in Listing /\ listing.revision \in Revisions /\ listing.revision \in Nat
         /\ job \in [Revisions -> JobRow] /\ worker \in [Workers -> Work]
         /\ \A w \in Workers : worker[w].revision \in Revisions /\ worker[w].revision \in Nat
         /\ \A r \in Revisions : job[r] \in JobRow /\ job[r].lease \in Nat
         /\ Revisions \subseteq Nat /\ resumed \subseteq Revisions /\ told \in BOOLEAN
         /\ disturbances \in Nat /\ Idle \in Work /\ Idle.at = "idle"
  BY CatalogueBounds DEF CatalogueInv, CatalogueTypeOK, Listing, Revisions, Work, Idle, Position,
     JobRow

\* A step in the queue's transactions: a row changes but stays, and at most one worker begins
\* or ends with it.
LEMMA RowStep ==
  ASSUME CatalogueInv, NEW r \in Revisions, NEW row \in JobRow,
         HasJob(r), row.status # "NONE", job' = [job EXCEPT ![r] = row],
         UNCHANGED <<origin, goodsVars>>, disturbances' \in Nat,
         deadLetters \subseteq deadLetters', deadLetters' \subseteq Revisions,
         worker' \in [Workers -> Work],
         \A w \in Workers : \/ worker'[w] = worker[w] \/ worker'[w].at = "idle"
                            \/ worker'[w].at = "read" /\ worker'[w].revision = r,
         \/ row.status \in {"PENDING", "RUNNING"}
         \/ r \in deadLetters'
         \/ r # listing.revision
         \/ listing.remote # "UNCONFIRMED" \/ "PRICE_SYNC_FAILED" \in risks
         \/ row.status = job[r].status
  PROVE  CatalogueInv'
<1>1. /\ job' \in [Revisions -> JobRow] /\ job'[r] = row
      /\ \A x \in Revisions \ {r} : job'[x] = job[x]
      /\ UNCHANGED <<listing, sellable, risks, told, ownTerms, resumed>>
      /\ listing.revision \in Revisions
  BY Types DEF goodsVars
<1>2. CatalogueTypeOK'
  BY <1>1 DEF CatalogueInv, CatalogueTypeOK
<1>3. \A x \in Revisions : HasJob(x)' <=> HasJob(x)
  BY <1>1 DEF HasJob
<1>4. \A w \in Workers : worker'[w].at # "idle" => HasJob(worker'[w].revision)
  BY DEF CatalogueInv, RevisionsInOrder
<1>5. AnswersAreTrue'
  BY <1>1 DEF CatalogueInv, AnswersAreTrue
<1>6. ChangeIsPursued'
  BY <1>1 DEF CatalogueInv, ChangeIsPursued
<1>7. told' => HasJob(listing.revision)
  BY <1>1 DEF CatalogueInv, RevisionsInOrder
<1> QED
  BY <1>1, <1>2, <1>3, <1>4, <1>5, <1>6, <1>7, QueueStep

LEMMA TakeStep ==
  ASSUME CatalogueInv,
         \/ \E w \in Workers : TakeSync(w)
         \/ \E r \in Revisions : ReplaySync(r)
  PROVE  CatalogueInv'
<1> USE Types
<1>0. ASSUME NEW r, LeaseOver(r) PROVE disturbances' \in Nat
  BY <1>0 DEF LeaseOver
<1>1. ASSUME NEW w \in Workers, NEW r \in Revisions, ClaimSync(w, r) PROVE CatalogueInv'
  <2> DEFINE row == Claimed(job[r])
             taken == [at |-> "read", revision |-> r, lease |-> job[r].lease + 1, outcome |-> "ok"]
  <2>1. /\ row \in JobRow /\ row.status = "RUNNING" /\ HasJob(r)
        /\ job' = [job EXCEPT ![r] = row] /\ UNCHANGED <<origin, goodsVars>>
        /\ deadLetters' = deadLetters /\ disturbances' \in Nat
    BY <1>0, <1>1, RowSteps DEF ClaimSync, Claimable, HasJob
  <2>2. taken \in Work /\ worker' = [worker EXCEPT ![w] = taken]
    BY <1>1 DEF ClaimSync, Work, Position
  <2>3. /\ worker' \in [Workers -> Work] /\ worker'[w] = taken
        /\ \A x \in Workers \ {w} : worker'[x] = worker[x]
    BY <2>2
  <2>4. taken.at = "read" /\ taken.revision = r /\ deadLetters \subseteq Revisions
    BY DEF CatalogueInv, CatalogueTypeOK
  <2> HIDE DEF row, taken
  <2> QED
    BY <2>1, <2>3, <2>4, RowStep
<1>2. ASSUME NEW r \in Revisions, BurySync(r) PROVE CatalogueInv'
  <2> DEFINE row == Exhausted(job[r])
  <2>1. /\ row \in JobRow /\ row.status = "DEAD" /\ HasJob(r)
        /\ job' = [job EXCEPT ![r] = row] /\ UNCHANGED <<origin, goodsVars, worker>>
        /\ deadLetters' = deadLetters \cup {r} /\ disturbances' \in Nat
    BY <1>0, <1>2, RowSteps DEF BurySync, Claimable, HasJob
  <2>2. deadLetters \subseteq Revisions
    BY DEF CatalogueInv, CatalogueTypeOK
  <2> HIDE DEF row
  <2> QED
    BY <2>1, <2>2, RowStep
<1>3. ASSUME NEW r \in Revisions, ReplaySync(r) PROVE CatalogueInv'
  <2> DEFINE row == [job[r] EXCEPT !.status = "PENDING", !.attempts = 0]
  <2>1. /\ row \in JobRow /\ row.status = "PENDING" /\ HasJob(r)
    BY <1>3 DEF ReplaySync, HasJob, JobRow, JobStatus
  <2>2. job' = [job EXCEPT ![r] = row]
    BY <1>3, Zenon DEF ReplaySync
  <2>4. /\ UNCHANGED <<origin, goodsVars, deadLetters, worker>>
        /\ disturbances' = disturbances + 1
    BY <1>3, Zenon DEF ReplaySync
  <2>5. /\ UNCHANGED <<origin, goodsVars, worker>>
        /\ deadLetters' = deadLetters /\ disturbances' \in Nat
    BY <2>4
  <2>3. deadLetters \subseteq Revisions
    BY DEF CatalogueInv, CatalogueTypeOK
  <2> HIDE DEF row
  <2> QED
    BY <2>1, <2>2, <2>3, <2>5, RowStep
<1> QED
  BY <1>1, <1>2, <1>3 DEF TakeSync

LEMMA CompleteStep ==
  ASSUME CatalogueInv, NEW w \in Workers, CompleteSync(w)
  PROVE  CatalogueInv'
<1> USE Types
<1> DEFINE r == worker[w].revision
           outcome == worker[w].outcome
           row == Completed(job[r], worker[w].lease, outcome, MaxAttempts)
<1>1. /\ worker[w].at = "end" /\ worker' = [worker EXCEPT ![w] = Idle]
      /\ job' = [job EXCEPT ![r] = row] /\ UNCHANGED <<origin, goodsVars, disturbances>>
      /\ deadLetters' = IF job[r].lease = worker[w].lease /\ job'[r].status = "DEAD"
                        THEN deadLetters \cup {r} ELSE deadLetters
  BY DEF CompleteSync, At
<1>2. /\ row \in JobRow /\ HasJob(r) /\ r \in Revisions
      /\ row.status = IF job[r].lease # worker[w].lease THEN job[r].status
                      ELSE IF outcome = "ok" THEN "DONE"
                      ELSE IF outcome = "retry" /\ job[r].attempts < MaxAttempts
                           THEN "PENDING" ELSE "DEAD"
  BY <1>1, RowSteps DEF CatalogueInv, RevisionsInOrder
<1>3. /\ worker' \in [Workers -> Work] /\ worker'[w].at = "idle" /\ job'[r] = row
      /\ \A x \in Workers \ {w} : worker'[x] = worker[x]
      /\ deadLetters' \subseteq Revisions /\ deadLetters \subseteq deadLetters'
  BY <1>1, <1>2 DEF CatalogueInv, CatalogueTypeOK
<1>4. \/ listing.remote # "UNCONFIRMED" \/ "PRICE_SYNC_FAILED" \in risks
      \/ outcome # "ok" \/ r # listing.revision
  BY <1>1 DEF CatalogueInv, AnswersAreTrue
<1> HIDE DEF row, r, outcome
<1> QED
  BY <1>1, <1>2, <1>3, <1>4, RowStep DEF HasJob

\* A worker looks at the revision, calls, and records the answer.
LEMMA HandlerStep ==
  ASSUME CatalogueInv, NEW w \in Workers,
         ReadRevision(w) \/ CallTaken(w) \/ CallFails(w) \/ CrashSync(w)
  PROVE  CatalogueInv'
<1> USE Types
<1> DEFINE rev == worker[w].revision
<1>1. HasJob(rev) /\ rev <= listing.revision
  BY DEF ReadRevision, CallTaken, CallFails, CrashSync, At, CatalogueInv, RevisionsInOrder
<1>2. /\ UNCHANGED <<origin, listing, sellable, risks, ownTerms, resumed, job, deadLetters>>
      /\ disturbances' \in Nat
      /\ worker' \in [Workers -> Work]
      /\ \A x \in Workers \ {w} : worker'[x] = worker[x]
      /\ worker'[w].at # "idle" => worker'[w].revision = rev
      /\ (told => told') /\ told' \in BOOLEAN /\ (told' => told \/ rev = listing.revision)
      /\ worker'[w].at = "record" /\ rev = listing.revision => told'
      /\ worker'[w].at = "end" /\ worker'[w].outcome = "ok" => rev # listing.revision
  <2>1. CASE ReadRevision(w)
    <3>1. PICK position \in {"end", "call"}, outcome \in {"ok", "fatal"} :
            /\ worker' = [worker EXCEPT ![w].at = position, ![w].outcome = outcome]
            /\ position = "end" /\ outcome = "ok" => rev # listing.revision
      BY <2>1 DEF ReadRevision, Moved
    <3>2. /\ worker'[w].at = position /\ worker'[w].outcome = outcome
          /\ worker'[w].revision = rev /\ worker' \in [Workers -> Work]
          /\ \A x \in Workers \ {w} : worker'[x] = worker[x]
      BY <3>1 DEF Work, Position
    <3> QED
      BY <2>1, <3>1, <3>2 DEF ReadRevision, goodsVars
  <2>2. CASE CallTaken(w)
    BY <2>2 DEF CallTaken, Moved, At, Work, Position
  <2>3. CASE CallFails(w)
    <3>1. PICK outcome \in {"retry", "fatal"} :
            worker' = [worker EXCEPT ![w].at = "refused", ![w].outcome = outcome]
      BY <2>3 DEF CallFails, Moved
    <3>2. /\ worker'[w].at = "refused" /\ worker'[w].revision = rev
          /\ worker' \in [Workers -> Work]
          /\ \A x \in Workers \ {w} : worker'[x] = worker[x]
      BY <3>1 DEF Work, Position
    <3>3. /\ UNCHANGED <<origin, listing, sellable, risks, ownTerms, resumed, job, deadLetters>>
          /\ disturbances' \in Nat
      BY <2>3 DEF CallFails
    <3>4. (told => told') /\ told' \in BOOLEAN /\ (told' => told \/ rev = listing.revision)
      <4>1. (told' = told) \/ (told' = (told \/ listing.revision = rev))
        BY <2>3, Zenon DEF CallFails
      <4>2. CASE told' = told
        BY <4>2
      <4>3. CASE told' = (told \/ listing.revision = rev)
        <5>1. told' <=> told \/ listing.revision = rev
          BY <4>3, Zenon
        <5>2. told' \in BOOLEAN
          BY <4>3, Zenon
        <5> QED
          BY <5>1, <5>2
      <4> QED
        BY <4>1, <4>2, <4>3
    <3> QED
      BY <3>2, <3>3, <3>4
  <2>4. CASE CrashSync(w)
    <3>1. worker'[w] = Idle
      BY <2>4 DEF CrashSync
    <3> QED
      BY <2>4, <3>1 DEF CrashSync, goodsVars
  <2> QED
    BY <2>1, <2>2, <2>3, <2>4
<1>3. CatalogueTypeOK'
  BY <1>2 DEF CatalogueInv, CatalogueTypeOK
<1>4. UNCHANGED <<listing, risks, resumed>>
  BY <1>2
<1>5. AnswersAreTrue'
  BY <1>2, <1>4 DEF CatalogueInv, AnswersAreTrue
<1>6. ChangeIsPursued'
  BY <1>2, <1>4 DEF CatalogueInv, ChangeIsPursued
<1>7. /\ told' => HasJob(listing.revision)
      /\ \A x \in Workers : worker'[x].at # "idle" => HasJob(worker'[x].revision)
      /\ \A r \in Revisions : HasJob(r)' <=> HasJob(r)
  BY <1>1, <1>2 DEF CatalogueInv, RevisionsInOrder, HasJob
<1> QED
  BY <1>2, <1>3, <1>4, <1>5, <1>6, <1>7, QueueStep

LEMMA SuccessStep ==
  ASSUME CatalogueInv, NEW w \in Workers, RecordSuccess(w)
  PROVE  CatalogueInv'
<1> USE Types
<1> DEFINE rev == worker[w].revision
<1>1. /\ worker[w].at = "record" /\ worker' = [worker EXCEPT ![w].at = "end"]
      /\ UNCHANGED <<origin, sellable, risks, ownTerms, resumed, job, deadLetters, told,
                     disturbances>>
      /\ listing' = IF listing.revision = rev THEN [listing EXCEPT !.remote = Intent(rev)]
                    ELSE listing
  BY DEF RecordSuccess, At
<1>2. /\ worker' \in [Workers -> Work] /\ worker'[w].at = "end" /\ worker'[w].revision = rev
      /\ \A x \in Workers \ {w} : worker'[x] = worker[x]
  BY <1>1 DEF Work, Position
<1>3. HasJob(rev) /\ (rev = listing.revision => told) /\ rev <= listing.revision
  BY <1>1 DEF CatalogueInv, RevisionsInOrder, AnswersAreTrue
<1>4. CASE listing.revision # rev
  <2>1. listing' = listing
    BY <1>1, <1>4
  <2>2. CatalogueTypeOK'
    BY <1>1, <1>2, <2>1 DEF CatalogueInv, CatalogueTypeOK
  <2>3. AnswersAreTrue' /\ ChangeIsPursued'
    BY <1>1, <1>2, <1>4, <2>1 DEF CatalogueInv, AnswersAreTrue, ChangeIsPursued
  <2>4. /\ told' => HasJob(listing.revision)
        /\ \A x \in Workers : worker'[x].at # "idle" => HasJob(worker'[x].revision)
        /\ \A r \in Revisions : HasJob(r)' <=> HasJob(r)
    BY <1>1, <1>2, <1>3 DEF CatalogueInv, RevisionsInOrder, HasJob
  <2> QED
    BY <1>1, <2>1, <2>2, <2>3, <2>4, QueueStep
<1>5. CASE listing.revision = rev
  <2>1. /\ listing' = [listing EXCEPT !.remote = Intent(rev)]
        /\ Intent(rev) \in {"ACTIVE", "PAUSED"} /\ listing.desired = Intent(rev)
    BY <1>1, <1>3, <1>5 DEF CatalogueInv, SalesHaveASource, Intent
  <2>2. /\ listing'.remote = Intent(rev) /\ listing'.desired = listing.desired
        /\ listing'.revision = listing.revision /\ listing' \in Listing
    BY <2>1 DEF Listing, Remote
  <2>3. CatalogueTypeOK'
    BY <1>1, <1>2, <2>2 DEF CatalogueInv, CatalogueTypeOK
  <2>4. RevisionsInOrder'
    BY <1>1, <1>2, <1>3, <2>2 DEF CatalogueInv, RevisionsInOrder, HasJob
  <2>5. listing.remote # "MANUALLY_CONFIRMED"
    BY <1>3, <1>5 DEF CatalogueInv, SalesHaveASource
  <2>6. SalesHaveASource'
    BY <1>1, <2>1, <2>2, <2>5 DEF CatalogueInv, SalesHaveASource, HasJob, Intent
  <2>7. AnswersAreTrue'
    BY <1>1, <1>2, <2>1, <2>2 DEF CatalogueInv, AnswersAreTrue
  <2> QED
    BY <1>1, <1>3, <1>5, <2>1, <2>2, <2>3, <2>4, <2>5, <2>6, <2>7 DEF CatalogueInv,
       ConfirmationIsNewest, ChangeIsPursued, RiskStopsSales
<1> QED
  BY <1>4, <1>5

LEMMA FailureStep ==
  ASSUME CatalogueInv, NEW w \in Workers, RecordFailure(w)
  PROVE  CatalogueInv'
<1> USE Types
<1> DEFINE rev == worker[w].revision
<1>1. /\ worker[w].at = "refused" /\ worker' = [worker EXCEPT ![w].at = "end"]
      /\ risks' = risks \cup {"PRICE_SYNC_FAILED"}
      /\ UNCHANGED <<origin, sellable, deadLetters, disturbances>>
  BY DEF RecordFailure, At
<1>2. /\ worker' \in [Workers -> Work] /\ worker'[w].at = "end" /\ worker'[w].revision = rev
      /\ \A x \in Workers \ {w} : worker'[x] = worker[x]
  BY <1>1 DEF Work, Position
<1>3. HasJob(rev) /\ rev <= listing.revision
  BY <1>1 DEF CatalogueInv, RevisionsInOrder
<1>4. /\ risks' \subseteq Risk /\ "PRICE_SYNC_FAILED" \in risks'
      /\ sellable' \in BOOLEAN /\ disturbances' \in Nat
  BY <1>1 DEF CatalogueInv, CatalogueTypeOK, Risk, ListingRisk
<1>5. \A x \in Workers : GoesOn(x)
  BY <1>1, <1>2 DEF GoesOn
<1>6. CASE listing.revision = rev /\ listing.desired = "ACTIVE"
  BY <1>1, <1>2, <1>4, <1>5, <1>6, PauseStep DEF RecordFailure, CatalogueInv, RevisionsInOrder
<1>7. CASE listing.revision = rev /\ listing.desired # "ACTIVE"
  <2>1. /\ listing' = [listing EXCEPT !.remote = "UNCONFIRMED"]
        /\ UNCHANGED <<told, job, ownTerms, resumed>> /\ listing.desired = "PAUSED"
    BY <1>7 DEF RecordFailure, Listing
  <2>2. /\ listing'.remote = "UNCONFIRMED" /\ listing'.desired = "PAUSED"
        /\ listing'.revision = listing.revision /\ listing' \in Listing
    BY <2>1 DEF Listing, Remote
  <2>3. CatalogueTypeOK'
    BY <1>1, <1>2, <1>4, <2>1, <2>2 DEF CatalogueInv, CatalogueTypeOK
  <2>4. RevisionsInOrder'
    BY <1>1, <1>2, <1>3, <2>1, <2>2 DEF CatalogueInv, RevisionsInOrder, HasJob
  <2>5. SalesHaveASource'
    BY <1>1, <2>1, <2>2 DEF CatalogueInv, SalesHaveASource, HasJob, Intent
  <2>6. AnswersAreTrue'
    BY <1>1, <1>2, <1>4, <2>1 DEF CatalogueInv, AnswersAreTrue
  <2> QED
    BY <1>4, <2>2, <2>3, <2>4, <2>5, <2>6 DEF CatalogueInv, ConfirmationIsNewest,
       ChangeIsPursued, RiskStopsSales
<1>8. CASE listing.revision # rev
  <2>1. UNCHANGED <<listing, told, job, ownTerms, resumed>>
    BY <1>8 DEF RecordFailure
  <2>2. listing.desired = "ACTIVE" =>
          listing.remote = "MANUALLY_CONFIRMED" \/ listing.revision \in resumed
    BY <1>3, <1>8 DEF CatalogueInv, SalesHaveASource
  <2>3. CatalogueTypeOK'
    BY <1>1, <1>2, <1>4, <2>1 DEF CatalogueInv, CatalogueTypeOK
  <2>4. RevisionsInOrder'
    BY <1>1, <1>2, <1>3, <2>1 DEF CatalogueInv, RevisionsInOrder, HasJob
  <2>5. SalesHaveASource'
    BY <1>1, <2>1, <2>2 DEF CatalogueInv, SalesHaveASource, HasJob, Intent
  <2>6. AnswersAreTrue'
    BY <1>1, <1>2, <1>4, <2>1 DEF CatalogueInv, AnswersAreTrue
  <2>7. RiskStopsSales'
    BY <1>1, <2>1, <2>2 DEF CatalogueInv, RiskStopsSales
  <2> QED
    BY <1>1, <1>4, <2>1, <2>3, <2>4, <2>5, <2>6, <2>7 DEF CatalogueInv, ConfirmationIsNewest,
       ChangeIsPursued
<1> QED
  BY <1>6, <1>7, <1>8

-----------------------------------------------------------------------------
LEMMA CatalogueInductive == CatalogueInv /\ [CatalogueNext]_catalogueVars => CatalogueInv'
<1> SUFFICES ASSUME CatalogueInv, [CatalogueNext]_catalogueVars PROVE CatalogueInv'
  OBVIOUS
<1>1. CASE UNCHANGED catalogueVars
  BY <1>1 DEF catalogueVars, goodsVars, queueVars, CatalogueInv, CatalogueTypeOK,
     RevisionsInOrder, SalesHaveASource, AnswersAreTrue, ConfirmationIsNewest, ChangeIsPursued,
     RiskStopsSales, HasJob, Intent
<1>2. CASE \E w \in Workers : SyncStep(w) \/ CrashSync(w)
  BY <1>2, HandlerStep, SuccessStep, FailureStep, CompleteStep DEF SyncStep
<1>3. CASE \/ \E w \in Workers : TakeSync(w)
           \/ \E r \in Revisions : ReplaySync(r)
  BY <1>3, TakeStep
<1> QED
  BY <1>1, <1>2, <1>3, WishStep DEF CatalogueNext

\* Every reachable state satisfies the invariant.
THEOREM CatalogueInvariant == CatalogueSpec => []CatalogueInv
<1> QED
  BY CatalogueStart, CatalogueInductive, PTL DEF CatalogueSpec

\* Listing, product, queue rows and workers have their types in every reachable state, and no
\* revision leaves the table.
THEOREM CatalogueTypes == CatalogueSpec => []CatalogueTypeOK
<1>1. CatalogueInv => CatalogueTypeOK
  BY DEF CatalogueInv
<1> QED
  BY <1>1, CatalogueInvariant, PTL

\* No late answer to an older revision is taken for the current one, however many workers
\* carry answers (the second check of sync_revision in sync_listing).
THEOREM ConfirmationsAreNewest == CatalogueSpec => []ConfirmationIsNewest
<1>1. CatalogueInv => ConfirmationIsNewest
  BY DEF CatalogueInv
<1> QED
  BY <1>1, CatalogueInvariant, PTL

\* An unconfirmed pause is never forgotten: its job lives, or a dead letter or a review tells
\* (pause_listing, sync_listing, the worker's completion).
THEOREM ChangesArePursued == CatalogueSpec => []ChangeIsPursued
<1>1. CatalogueInv => ChangeIsPursued
  BY DEF CatalogueInv
<1> QED
  BY <1>1, CatalogueInvariant, PTL

\* Selling and an open review of changed supplier data exclude each other, and so do selling
\* and a failed synchronisation but for the late failure of an old call. The claim kill switch
\* stops every sale but the one a person confirms: activate_listing looks at the reviews of
\* listing and product, not at those guard_cash_and_claims opens on the supplier product
\* (activate_listing, resume_own_terms_pause, apply_price, guard_cash_and_claims, sync_listing).
THEOREM RisksStopSales == CatalogueSpec => []RiskStopsSales
<1>1. CatalogueInv => RiskStopsSales
  BY DEF CatalogueInv
<1> QED
  BY <1>1, CatalogueInvariant, PTL
=============================================================================
