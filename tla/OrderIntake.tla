---------------------------- MODULE OrderIntake ----------------------------
(***************************************************************************)
(* How orders come in and reach the treasury: files of marketplace orders  *)
(* (application/order_intake.py), the API's ingest, and the validation     *)
(* that both end in (validate_received_in_session), composed with          *)
(* Treasury, whose cash and stock the validation takes.                    *)
(*                                                                         *)
(* A file's lines may overlap with another file's or with what the API has *)
(* brought, and may contradict it. The preview's ticket and the snapshot a *)
(* verification must name only prove that a person has seen the rows as    *)
(* they are; commit and verification test again all that they depend on,   *)
(* so they change the same rows as if both had been read at once, and      *)
(* neither token is kept here. A repeated commit returns the first result. *)
(***************************************************************************)
EXTENDS Treasury

CONSTANTS Files,      \* the files a person may upload
          Content,    \* what each says: a payload for every line it has
          ApiPayload  \* what the API says of every order

ASSUME IntakeContents == \A f \in Files : DOMAIN Content[f] \subseteq Orders

VARIABLES
  order,      \* orders: the state until the supplier's work begins, origin, payload, reviews
  committed,  \* the files whose commit has a receipt
  onSale      \* the suppliers whose listing is wanted ACTIVE (Catalogue has the rest)

intakeVars == <<order, committed, onSale>>

LinesOf(f) == DOMAIN Content[f]
Payloads == {ApiPayload} \cup UNION {{Content[f][o] : o \in LinesOf(f)} : f \in Files}

\* The codes of a failed validation, by what else they do: INSUFFICIENT_CASH, OUT_OF_STOCK,
\* STALE_INVENTORY and MARGIN_BELOW_THRESHOLD pause the listing.
RetryReviews == {"PAUSING", "OTHER"}
SourceReview == "MARKETPLACE_ORDER_SOURCE_VERIFICATION_REQUIRED"
Order == [state : {"NONE", "RECEIVED", "MANUAL_REVIEW", "SUPPLIER_ORDER_PENDING", "CANCELLED"},
          source : {"none", "api", "file"}, payload : Payloads,
          reviews : SUBSET (RetryReviews \cup {SourceReview})]

IntakeTypeOK ==
  order \in [Orders -> Order] /\ committed \subseteq Files /\ onSale \subseteq Suppliers

IntakeInit ==
  /\ TreasuryInit
  /\ order = [o \in Orders |->
       [state |-> "NONE", source |-> "none", payload |-> ApiPayload, reviews |-> {}]]
  /\ committed = {} /\ onSale = {s \in Suppliers : product[s].stock > 0}

-----------------------------------------------------------------------------
(* Coming in *)

\* ingest: an order that is there already is not created again.
Ingest(o) ==
  /\ order[o].state = "NONE"
  /\ order' = [order EXCEPT ![o] =
       [state |-> "RECEIVED", source |-> "api", payload |-> ApiPayload, reviews |-> {}]]
  /\ UNCHANGED <<treasuryVars, committed, onSale>>

\* What the preview of a file shows without an error: every line is new or the same as before.
Committable(f) ==
  \A o \in LinesOf(f) : order[o].state = "NONE" \/ order[o].payload = Content[f][o]

Imported(f, o) ==
  IF o \notin LinesOf(f) \/ order[o].state # "NONE" THEN order[o]
  ELSE [state |-> "RECEIVED", source |-> "file", payload |-> Content[f][o],
        reviews |-> {SourceReview}]

\* Slip: the lines that contradict an order are skipped.
CommitWhatFits(f) ==
  /\ f \notin committed
  /\ order' = [o \in Orders |-> Imported(f, o)]
  /\ committed' = committed \cup {f}
  /\ UNCHANGED <<treasuryVars, onSale>>

\* OrderIntake.commit: the whole file or nothing; duplicates keep their origin.
Commit(f) ==
  /\ f \notin committed /\ Committable(f)
  /\ order' = [o \in Orders |-> Imported(f, o)]
  /\ committed' = committed \cup {f}
  /\ UNCHANGED <<treasuryVars, onSale>>

-----------------------------------------------------------------------------
(* Validation *)

\* validate_received_in_session, passed; what is not of this model (address, supplier, tax,
\* season, cut-off, age, margin) may pass at any time. The caller resolves reviews.
Accept(o, resolved) ==
  /\ SupplierOf[o] \in onSale /\ Reserve(o)
  /\ order' = [order EXCEPT ![o].state = "SUPPLIER_ORDER_PENDING", ![o].reviews = @ \ resolved]
  /\ UNCHANGED <<committed, onSale>>

\* The same, failed: hold(), and for some codes pause_listing. A paused listing is found
\* before any of them.
Refuse(o, code, resolved) ==
  /\ code = "PAUSING" => SupplierOf[o] \in onSale
  /\ order' = [order EXCEPT ![o].state = "MANUAL_REVIEW",
                            ![o].reviews = (@ \ resolved) \cup {code}]
  /\ onSale' = IF code = "PAUSING" THEN onSale \ {SupplierOf[o]} ELSE onSale
  /\ UNCHANGED <<treasuryVars, committed>>

\* Slip: an imported order is processed like any other.
ProcessAnyOrder(o) ==
  /\ order[o].state = "RECEIVED"
  /\ Accept(o, {}) \/ \E code \in RetryReviews : Refuse(o, code, {})

\* process_order: the job that ingest enqueued; imported orders are left to a person.
ProcessOrder(o) ==
  /\ order[o].state = "RECEIVED" /\ order[o].source = "api"
  /\ Accept(o, {}) \/ \E code \in RetryReviews : Refuse(o, code, {})

\* verify_and_validate, by a person who has looked the order up at the marketplace. What
\* was wrong at earlier attempts is resolved only by one that passes.
Verify(o) ==
  /\ order[o].source = "file" /\ order[o].state \in {"RECEIVED", "MANUAL_REVIEW"}
  /\ \/ Accept(o, RetryReviews \cup {SourceReview})
     \/ \E code \in RetryReviews : Refuse(o, code, {SourceReview})

\* cancel(): nothing has gone to a supplier yet, or Treasury's Cancel goes on.
CancelOrder(o) ==
  /\ order[o].state # "NONE" /\ Cancel(o)
  /\ order' = IF order[o].state = "SUPPLIER_ORDER_PENDING" THEN order
              ELSE [order EXCEPT ![o].state = "CANCELLED"]
  /\ UNCHANGED <<committed, onSale>>

\* apply_price; other reasons than an empty stock may pause the listing too.
ImportStock(s, figure) ==
  /\ Import(s, figure)
  /\ onSale' \in IF product'[s].stock = 0 THEN {onSale \ {s}} ELSE {onSale, onSale \ {s}}
  /\ UNCHANGED <<order, committed>>

\* The guards and other orders pause a listing, a person puts it on sale again.
ListingChanges(s) ==
  /\ \/ s \in onSale /\ onSale' = onSale \ {s}
     \/ s \notin onSale /\ product[s].stock > 0 /\ onSale' = onSale \cup {s}
  /\ UNCHANGED <<treasuryVars, order, committed>>

IntakeNext ==
  \/ \E o \in Orders : Ingest(o) \/ ProcessOrder(o) \/ Verify(o) \/ CancelOrder(o)
  \/ \E f \in Files : Commit(f)
  \/ \E s \in Suppliers : ListingChanges(s) \/ \E figure \in Figures : ImportStock(s, figure)
  \/ TreasuryStep /\ UNCHANGED intakeVars

IntakeSpec == IntakeInit /\ [][IntakeNext]_<<treasuryVars, intakeVars>>

-----------------------------------------------------------------------------
(* Safety *)

\* A file is in as a whole and as it is written, whatever the API or other files brought in
\* between; and no order claims to come from a file nobody has committed.
FilesCameInWhole ==
  /\ \A f \in committed : \A o \in LinesOf(f) :
       order[o].state # "NONE" /\ order[o].payload = Content[f][o]
  /\ \A o \in Orders : order[o].source = "file" =>
       \E f \in committed : o \in LinesOf(f) /\ order[o].payload = Content[f][o]

\* An imported order that has not gone on waits in front of a person: for the check of its
\* source until there was one, then for what was wrong with it. It takes no cash before.
ImportsWaitVisibly ==
  \A o \in Orders : order[o].source = "file" =>
    /\ order[o].state = "RECEIVED" => SourceReview \in order[o].reviews
    /\ order[o].state = "MANUAL_REVIEW" => order[o].reviews # {}
    /\ SourceReview \in order[o].reviews => held[o].status = "NONE"
    /\ order[o].state = "SUPPLIER_ORDER_PENDING" => order[o].reviews = {}
=============================================================================
