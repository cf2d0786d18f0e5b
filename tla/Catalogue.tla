----------------------------- MODULE Catalogue -----------------------------
(***************************************************************************)
(* One listing of one supplier product: application/catalog.py, risk.py,   *)
(* the listing commands of operations.py, resume_own_terms_pause of        *)
(* supplier_operations.py, and Commerce.sync_listing run by the workers of *)
(* apps/worker/main.py.                                                    *)
(*                                                                         *)
(* What the application wants (desired) and what it knows of the           *)
(* marketplace (remote) are two columns. Every change of the first takes a *)
(* new revision and, unless a person has already made it at the            *)
(* marketplace, a job for that revision. The job reads the revision, calls *)
(* the marketplace and records the answer in three steps between which     *)
(* anything may happen; several revisions may be under way at once.        *)
(*                                                                         *)
(* A listing made by hand (LOCAL_LISTING_CREATED) is never synchronised:   *)
(* its jobs fail for good and a person takes over. Prices, margins and     *)
(* claim statistics are seen through the outcomes of the checks on them.   *)
(***************************************************************************)
EXTENDS JobTable

CONSTANTS Origins,       \* how the listing may have been made: demo (on sale or not), local
          Workers,       \* worker processes
          MaxAttempts,   \* settings.max_job_attempts
          MaxRevision,   \* bound: revisions; the last is kept for pausing an active listing
          MaxDisturbances \* bound: crashes, overrun leases, failed calls and replays in a behaviour

ASSUME CatalogueBounds ==
  /\ Origins \subseteq {"demo_active", "demo_paused", "local"}
  /\ MaxAttempts \in Nat \ {0} /\ MaxRevision \in Nat \ {0}
  /\ MaxDisturbances \in Nat

VARIABLES
  origin,       \* how the listing was made
  listing,      \* marketplace_listings: desired_state, remote_state, sync_revision
  sellable,     \* the product's stock is not empty, not too old and in season
  risks,        \* open reviews on the listing, its product and its supplier product
  ownTerms,     \* since it was last on sale, only changed supplier terms have paused it
  resumed,      \* the revisions whose job puts it back on sale
  job,          \* the queue rows listing:{id}:{revision}
  deadLetters,  \* revisions whose job has a dead-letter review
  worker,       \* each worker's position, revision, lease token and outcome
  told,         \* external: the marketplace has taken the current revision
  disturbances  \* crashes, overrun leases, failed calls and replays so far

goodsVars == <<listing, told, sellable, risks, ownTerms, resumed>>
queueVars == <<job, deadLetters, worker>>
catalogueVars == <<origin, goodsVars, queueVars, disturbances>>

Revisions == 0 .. MaxRevision
Remote == {"UNKNOWN", "UNCONFIRMED", "ACTIVE", "PAUSED", "MANUALLY_CONFIRMED"}
Listing == [desired : {"ACTIVE", "PAUSED"}, remote : Remote, revision : Revisions]
\* The reviews on product and listing, which activation looks at, and those guard_cash_and_
\* claims opens on the supplier product, which only a resumption looks at.
ListingRisk == {"SUPPLIER_DATA", "PRICE_SYNC_FAILED"}
ClaimRisk == {"CLAIM_RATE_WARNING", "CLAIM_LOSS_KILL_SWITCH"}
Risk == ListingRisk \cup ClaimRisk
Position == {"idle", "read", "call", "refused", "record", "end"}
Work == [at : Position, revision : Revisions, lease : Nat, outcome : {"ok", "retry", "fatal"}]

Idle == [at |-> "idle", revision |-> 0, lease |-> 0, outcome |-> "ok"]

CatalogueTypeOK ==
  /\ origin \in Origins /\ listing \in Listing /\ sellable \in BOOLEAN
  /\ told \in BOOLEAN /\ ownTerms \in BOOLEAN /\ resumed \subseteq Revisions
  /\ risks \subseteq Risk /\ deadLetters \subseteq Revisions
  /\ job \in [Revisions -> JobRow] /\ worker \in [Workers -> Work]
  /\ disturbances \in Nat

\* catalog.create_listing enqueues revision 0, active when there is stock;
\* operations.create_listing only writes the row.
CatalogueInit ==
  /\ sellable \in BOOLEAN
  /\ origin \in Origins /\ (origin = "demo_active" => sellable)
  /\ listing = [desired |-> IF origin = "demo_active" THEN "ACTIVE" ELSE "PAUSED",
                remote |-> "UNKNOWN", revision |-> 0]
  /\ job = [r \in Revisions |->
              IF r = 0 /\ origin # "local" THEN Enqueued(NoJob) ELSE NoJob]
  /\ risks = {} /\ deadLetters = {} /\ resumed = {} /\ told = FALSE /\ ownTerms = FALSE
  /\ worker = [w \in Workers |-> Idle]
  /\ disturbances = 0

\* The desired_state in the payload of a revision's job.
Intent(r) == IF r \in resumed \/ (r = 0 /\ origin = "demo_active") THEN "ACTIVE" ELSE "PAUSED"

-----------------------------------------------------------------------------
(* Changes of what is wanted *)

\* A new revision, which nobody has told the marketplace.
NewRevision(state, known) ==
  /\ listing' = [desired |-> state, remote |-> known, revision |-> listing.revision + 1]
  /\ told' = FALSE
EnqueueNext == job' = [job EXCEPT ![listing.revision + 1] = Enqueued(@)]

\* Slip: the pause is not given to the queue.
PauseUnsent(terms) ==
  /\ NewRevision("PAUSED", "UNCONFIRMED") /\ UNCHANGED <<job, resumed>>
  /\ ownTerms' = (terms /\ (listing.desired = "ACTIVE" \/ ownTerms))

\* pause_listing: a new revision, unconfirmed, and the job that tells the marketplace.
Pause(terms) ==
  /\ NewRevision("PAUSED", "UNCONFIRMED") /\ EnqueueNext /\ resumed' = resumed
  /\ ownTerms' = (terms /\ (listing.desired = "ACTIVE" \/ ownTerms))

\* apply_price: the supplier's figures are taken over. Changed metadata, a price spike, a
\* lost margin or an empty stock pause the listing, whatever it is, and leave a review.
ImportPrice(available, risk) ==
  /\ listing.revision + 1 < MaxRevision
  /\ sellable' = available
  /\ IF risk \/ ~available
     THEN Pause(FALSE) /\ risks' = risks \cup {"SUPPLIER_DATA"}
     ELSE UNCHANGED <<listing, told, job, risks, ownTerms, resumed>>
  /\ UNCHANGED <<origin, deadLetters, worker, disturbances>>

\* inventory_guard, in the maintenance transaction.
InventoryGuard ==
  /\ listing.desired = "ACTIVE" /\ ~sellable
  /\ Pause(FALSE)
  /\ UNCHANGED <<origin, sellable, risks, deadLetters, worker, disturbances>>

\* guard_cash_and_claims, after it. What the cash and the claim statistics say is left open:
\* a high claim rate opens a warning and pauses nothing; too high a rate or a loss opens the
\* kill switch; that and the want of cash for another order pause the listing.
ClaimsFound == {{}, {"CLAIM_RATE_WARNING"}, {"CLAIM_LOSS_KILL_SWITCH"}, ClaimRisk}

CashAndClaimsGuard ==
  /\ listing.desired = "ACTIVE" /\ sellable
  /\ \E found \in ClaimsFound :
       /\ risks' = risks \cup found
       /\ \/ Pause(FALSE)
          \/ /\ "CLAIM_LOSS_KILL_SWITCH" \notin found
             /\ UNCHANGED <<listing, told, job, ownTerms, resumed>>
  /\ UNCHANGED <<origin, sellable, deadLetters, worker, disturbances>>

\* A supplier's answer, with changed terms or another reason, or a failed validation pauses
\* the listing of an order.
OrderPauses(terms) ==
  /\ listing.revision + 1 < MaxRevision
  /\ Pause(terms)
  /\ UNCHANGED <<origin, sellable, risks, deadLetters, worker, disturbances>>

\* Slip: the reviews on the listing are not looked at.
ActivateBlindly ==
  /\ listing.revision + 1 < MaxRevision
  /\ sellable
  /\ NewRevision("ACTIVE", "MANUALLY_CONFIRMED")
  /\ ownTerms' = FALSE
  /\ UNCHANGED <<origin, sellable, risks, resumed, queueVars, disturbances>>

\* operations.activate_listing: a person has put it on sale at the marketplace. The
\* checks of margin, cash, tax, season and supplier are left open; the reviews on the
\* supplier product are not looked at.
Activate ==
  /\ listing.revision + 1 < MaxRevision
  /\ sellable /\ risks \cap ListingRisk = {}
  /\ NewRevision("ACTIVE", "MANUALLY_CONFIRMED")
  /\ ownTerms' = FALSE
  /\ UNCHANGED <<origin, sellable, risks, resumed, queueVars, disturbances>>

\* resume_own_terms_pause: the supplier has reconfirmed an order's original terms. Only the
\* pauses since that order was frozen count, and it was frozen while the listing was active;
\* inventory_guard and guard_cash_and_claims, run again in the transaction, must not pause
\* it, though the latter may open its warning.
ResumeTerms ==
  /\ listing.revision + 1 < MaxRevision
  /\ listing.desired = "PAUSED" /\ ownTerms
  /\ sellable /\ risks = {}
  /\ NewRevision("ACTIVE", "UNCONFIRMED") /\ EnqueueNext
  /\ resumed' = resumed \cup {listing.revision + 1}
  /\ ownTerms' = FALSE
  /\ risks' \in {{}, {"CLAIM_RATE_WARNING"}}
  /\ UNCHANGED <<origin, sellable, deadLetters, worker, disturbances>>

\* finance.reserve takes the last unit, the inventory ages or the season ends; a release
\* gives the unit back.
GoodsChange ==
  /\ sellable' = ~sellable
  /\ UNCHANGED <<origin, listing, told, risks, ownTerms, resumed, queueVars, disturbances>>

-----------------------------------------------------------------------------
(* The jobs *)

At(w, position) == worker[w].at = position
Moved(w, position, outcome) ==
  worker' = [worker EXCEPT ![w].at = position, ![w].outcome = outcome]

\* A lease may run out under a worker that is still at its job; this is a disturbance.
StillAt(w, r) ==
  ~At(w, "idle") /\ worker[w].revision = r /\ worker[w].lease = job[r].lease
Overrun(r) == job[r].status = "RUNNING" /\ \E w \in Workers : StillAt(w, r)
LeaseOver(r) ==
  IF Overrun(r) THEN disturbances < MaxDisturbances /\ disturbances' = disturbances + 1
  ELSE disturbances' = disturbances

ClaimSync(w, r) ==
  /\ At(w, "idle") /\ Claimable(job[r]) /\ job[r].attempts < MaxAttempts
  /\ LeaseOver(r)
  /\ job' = [job EXCEPT ![r] = Claimed(@)]
  /\ worker' = [worker EXCEPT ![w] =
       [at |-> "read", revision |-> r, lease |-> job[r].lease + 1, outcome |-> "ok"]]
  /\ UNCHANGED <<origin, goodsVars, deadLetters>>

\* Slip: an exhausted row dies without a word.
BurySilently(r) ==
  /\ Claimable(job[r]) /\ job[r].attempts >= MaxAttempts
  /\ LeaseOver(r)
  /\ job' = [job EXCEPT ![r] = Exhausted(@)]
  /\ UNCHANGED <<origin, goodsVars, deadLetters, worker>>

BurySync(r) ==
  /\ Claimable(job[r]) /\ job[r].attempts >= MaxAttempts
  /\ LeaseOver(r)
  /\ job' = [job EXCEPT ![r] = Exhausted(@)]
  /\ deadLetters' = deadLetters \cup {r}
  /\ UNCHANGED <<origin, goodsVars, worker>>

\* sync_listing: the revision is read without a lock; an outdated job has nothing to do,
\* and a local listing is left to a person.
ReadRevision(w) ==
  /\ At(w, "read")
  /\ IF listing.revision # worker[w].revision THEN Moved(w, "end", "ok")
     ELSE IF origin = "local" THEN Moved(w, "end", "fatal")
     ELSE Moved(w, "call", "ok")
  /\ UNCHANGED <<origin, goodsVars, job, deadLetters, disturbances>>

\* The marketplace takes the call; a repeated key changes nothing.
CallTaken(w) ==
  /\ At(w, "call")
  /\ told' = (told \/ listing.revision = worker[w].revision)
  /\ Moved(w, "record", "ok")
  /\ UNCHANGED <<origin, listing, sellable, risks, ownTerms, resumed, job, deadLetters,
                 disturbances>>

\* It fails: before the effect (and may be tried again), after it, or it is not supported.
CallFails(w) ==
  /\ At(w, "call") /\ disturbances < MaxDisturbances
  /\ \/ told' = told /\ \E outcome \in {"retry", "fatal"} : Moved(w, "refused", outcome)
     \/ told' = (told \/ listing.revision = worker[w].revision) /\ Moved(w, "refused", "fatal")
  /\ disturbances' = disturbances + 1
  /\ UNCHANGED <<origin, listing, sellable, risks, ownTerms, resumed, job, deadLetters>>

\* Slip: the answer to an older revision is recorded as well.
RecordAnySuccess(w) ==
  /\ At(w, "record")
  /\ listing' = [listing EXCEPT !.remote = Intent(worker[w].revision)]
  /\ worker' = [worker EXCEPT ![w].at = "end"]
  /\ UNCHANGED <<origin, sellable, risks, ownTerms, resumed, job, deadLetters, told, disturbances>>

\* The answer counts only while its revision is the current one.
RecordSuccess(w) ==
  /\ At(w, "record")
  /\ listing' = IF listing.revision = worker[w].revision
                THEN [listing EXCEPT !.remote = Intent(worker[w].revision)] ELSE listing
  /\ worker' = [worker EXCEPT ![w].at = "end"]
  /\ UNCHANGED <<origin, sellable, risks, ownTerms, resumed, job, deadLetters, told, disturbances>>

\* Nothing is known any more; a listing that was meant to be on sale is paused. The
\* review is opened even when the revision is an old one.
RecordFailure(w) ==
  /\ At(w, "refused")
  /\ IF listing.revision = worker[w].revision /\ listing.desired = "ACTIVE" THEN Pause(FALSE)
     ELSE /\ listing' = IF listing.revision = worker[w].revision
                        THEN [listing EXCEPT !.remote = "UNCONFIRMED"] ELSE listing
          /\ UNCHANGED <<told, job, ownTerms, resumed>>
  /\ risks' = risks \cup {"PRICE_SYNC_FAILED"}
  /\ worker' = [worker EXCEPT ![w].at = "end"]
  /\ UNCHANGED <<origin, sellable, deadLetters, disturbances>>

\* The completion of the worker's claim; a job that dies gets a dead-letter review.
CompleteSync(w) ==
  LET r == worker[w].revision IN
  /\ At(w, "end")
  /\ job' = [job EXCEPT ![r] = Completed(@, worker[w].lease, worker[w].outcome, MaxAttempts)]
  /\ deadLetters' = IF job[r].lease = worker[w].lease /\ job'[r].status = "DEAD"
                    THEN deadLetters \cup {r} ELSE deadLetters
  /\ worker' = [worker EXCEPT ![w] = Idle]
  /\ UNCHANGED <<origin, goodsVars, disturbances>>

CrashSync(w) ==
  /\ ~At(w, "idle") /\ disturbances < MaxDisturbances
  /\ worker' = [worker EXCEPT ![w] = Idle]
  /\ disturbances' = disturbances + 1
  /\ UNCHANGED <<origin, goodsVars, job, deadLetters>>

\* listing.sync is one of the kinds an administrator may replay.
ReplaySync(r) ==
  /\ job[r].status = "DEAD" /\ disturbances < MaxDisturbances
  /\ job' = [job EXCEPT ![r] = [@ EXCEPT !.status = "PENDING", !.attempts = 0]]
  /\ disturbances' = disturbances + 1
  /\ UNCHANGED <<origin, goodsVars, deadLetters, worker>>

-----------------------------------------------------------------------------
TakeSync(w) == \E r \in Revisions : ClaimSync(w, r) \/ BurySync(r)
SyncStep(w) ==
  ReadRevision(w) \/ CallTaken(w) \/ CallFails(w) \/ RecordSuccess(w) \/ RecordFailure(w)
    \/ CompleteSync(w)

CatalogueNext ==
  \/ \E available, risk \in BOOLEAN : ImportPrice(available, risk)
  \/ InventoryGuard \/ CashAndClaimsGuard \/ Activate \/ ResumeTerms \/ GoodsChange
  \/ \E terms \in BOOLEAN : OrderPauses(terms)
  \/ \E w \in Workers : TakeSync(w) \/ SyncStep(w) \/ CrashSync(w)
  \/ \E r \in Revisions : ReplaySync(r)

CatalogueSpec == CatalogueInit /\ [][CatalogueNext]_catalogueVars

\* The worker process runs the maintenance every 30 seconds and polls for jobs; people,
\* suppliers and the marketplace are free.
CatalogueFairSpec ==
  /\ CatalogueSpec /\ WF_catalogueVars(InventoryGuard)
  /\ \A w \in Workers : WF_catalogueVars(SyncStep(w) \/ TakeSync(w))

-----------------------------------------------------------------------------
(* Safety *)

\* A confirmation is the marketplace's answer to the current revision and says what is
\* wanted, whatever older jobs have recorded late; a person's confirmation stands only for
\* a sale, and only until the next pause.
ConfirmationIsNewest ==
  /\ listing.remote \in {"ACTIVE", "PAUSED"} =>
       listing.remote = listing.desired /\ told
  /\ listing.remote = "MANUALLY_CONFIRMED" =>
       listing.desired = "ACTIVE" /\ ~told

\* A change the marketplace may not know of is on its way in a job of its own revision or
\* in front of a person: as a dead letter, or as the review of a failed call.
ChangeIsPursued ==
  listing.remote = "UNCONFIRMED" =>
    \/ job[listing.revision].status \in {"PENDING", "RUNNING"}
    \/ listing.revision \in deadLetters \/ "PRICE_SYNC_FAILED" \in risks

\* What an open review keeps off sale. Changed supplier data: the listing. The failure of a
\* synchronisation: the listing, unless it is the late failure of an older call, recorded
\* after a person has put the listing on sale again or a supplier has resumed it. The claim
\* kill switch: whatever the application puts on sale by itself; a person may sell beside
\* it, because activation does not look at it. A claim warning keeps nothing off sale.
RiskStopsSales ==
  listing.desired = "ACTIVE" =>
    /\ "SUPPLIER_DATA" \notin risks
    /\ "PRICE_SYNC_FAILED" \in risks =>
         listing.remote = "MANUALLY_CONFIRMED" \/ listing.revision \in resumed
    /\ "CLAIM_LOSS_KILL_SWITCH" \in risks => listing.remote = "MANUALLY_CONFIRMED"

-----------------------------------------------------------------------------
(* Liveness, under CatalogueFairSpec *)

Withdrawn ==
  \/ listing.remote = "PAUSED" \/ listing.revision \in deadLetters
  \/ "PRICE_SYNC_FAILED" \in risks

\* A listing that must not be sold is withdrawn, with the marketplace's word or with a
\* person informed that it is missing, unless the trouble passes.
UnsafeSalesEnd == listing.desired = "ACTIVE" /\ ~sellable ~> Withdrawn \/ sellable
=============================================================================
