# Saup in TLA+

Saup takes marketplace orders, buys the goods from suppliers, pays the suppliers and
settles with the marketplace. It is a Python monolith: an HTTP API, polling workers, and
one SQL database that is also the job queue. Nothing in it is fast; everything in it moves
money. This directory models the protocol: which rows every handler and command changes,
in which order, and what may happen between two of its transactions.

The models are written from the code (`apps/`, `packages/`), and `PROJECT.json` names the
lines behind every definition. Line numbers below are of the files under `src/`.

## 1. The system

### Components, their state and their operations

| Component | Code | State it keeps | Operations |
|---|---|---|---|
| Order dispatch | `application/commerce.py`, `order_rules.py`, `domain/state_machine.py` | orders, supplier_orders, payments, reviews | ingest, process_order, submit_supplier, prepare/approve/execute/finalize/reconcile_payment, cancel, cancel_supplier, add_shipment, sync_shipment, delivered |
| Durable queue | `apps/worker/main.py`, `application/common.py` | jobs (status, attempts, lease token, lease, next run), dead-letter reviews | enqueue, claim, completion, bury, replay, acknowledge |
| Treasury and ledger | `application/finance.py` | reservations, inventory allocations, journals and postings | treasury, capacity, reserve, release, daily_commitments, settle_payment, post |
| Supplier batches | `application/supplier_operations.py` | supplier_order_intents, batches, items, payment evidence, supplier_cancellations | create/export/mark_sent/acknowledge/cancel/resolve batch, record/confirm evidence, request/confirm cancellation, revalidate, adopt legacy |
| After sales | `application/after_sales.py` | claims, refunds, settlements | open/submit claim, supplier_response, recovery, request/execute refund, reconcile, confirm cash |
| Manual operations | `application/operations.py` | operational_receipts, settlement_revisions, master data | evidence-backed variants of the commands above |
| Review resolution, marketplace cancellation | `application/review_resolution.py`, `marketplace_cancellation.py` | evidence corrections, cancellation recoveries, refund evidence, statements, reconciliations | correct evidence, recover a paid cancellation, record refund and statement, complete |
| Order intake | `application/order_intake.py` | receipts of committed files, orders with their origin | preview, commit, verify_and_validate |
| Catalogue and guards | `application/catalog.py`, `risk.py` | listings (desired and remote state, revision), stock, reviews | apply_price, pause, activate, resume, sync_listing, inventory and cash guards |
| Supplier files | `application/files.py` | uploaded price and shipment files | submit, process, export |
| Pricing, discovery | `domain/pricing.py`, `domain/discovery.py` | none | pure arithmetic |
| Connectors | `integrations/` | what the outside world has recorded | get_order, create_orders, cancel_order, pay_supplier, refund, ... |
| API, console, persistence | `apps/api`, `apps/web`, `infrastructure/` | sessions, configuration | forward to the commands |

### How they interact

Every writing transaction of the application starts with `lock_treasury`: it locks the
single CONTROL row, so such transactions never overlap and each is one action of a model.
The two exceptions are the worker's claim, which locks only its job row
(`FOR UPDATE SKIP LOCKED`), and reads outside a transaction. A handler is a sequence of
transactions with network calls between them, and no lock is held across a call. A
command enqueues the handler that continues its work under a business key, in its own
transaction; a key that exists already is left alone, whatever its row's status. A worker
claims a row with a fresh lease token; nothing renews a lease while the handler runs, so a
slow handler and its successor run side by side. People act at any time: customers and
operators cancel, administrators approve, reconcile, replay, and record evidence of what
happened outside.

### What is hard about it

`PROJECT.json` lists the hazards by line. They fall into five groups.

- *Between two transactions of a handler*: the order is cancelled, the lease runs out and
  another worker takes the job, the process dies, an administrator finds the receipt.
- *Uncertain calls*: a timeout may come before or after the effect. A money request must
  never be repeated, and must never be forgotten.
- *Long command sequences*: batches are dissolved and formed again, evidence arrives after
  a cancellation, statements are corrected, claims are refunded while they are submitted.
- *Limits shared by rows*: refunds against the sale, recoveries against the payment; bank,
  deposits, stock and the daily limit against all orders.
- *Two columns for one truth*: what a listing is wanted to be and what the marketplace has
  been told, with several revisions under way.

## 2. The modules

| Module | Models | Correct means |
|---|---|---|
| `OrderStates` | the order state graph | shared by the others |
| `JobTable` | one queue row, as operators | shared by `JobQueue` and `OrderDispatch` |
| `JobQueue` | one row, competing workers, the completion's unlocked read and its write | executions are bounded, dead rows are seen, DONE was handled, the row comes to rest |
| `Sums` | the sums queries take over rows, as sizes of sets of units | used by `Treasury` and `AfterSales` |
| `MoneyMovement` | the abstract promise about one supplier payment | refined by `OrderDispatch` |
| `OrderDispatch` | one API-mode order, its jobs, workers, people and external systems | paid once, never forgotten, never paid after a cancellation, books behind the money |
| `SupplierBatches` | Excel lines and batches under every command | sent once, paid after acceptance, cancellations stop money, batch rows true |
| `Treasury` | bank, deposits, stock and daily limit under the commands of several orders | commitments funded, days within the limit, no unit promised twice |
| `OrderIntake` | `Treasury` with the ways orders come in and are validated | files come in whole, imports wait for a person |
| `Catalogue` | one listing, its revisions and the jobs that tell the marketplace | confirmations are the newest, changes pursued, unsafe sales end |
| `AfterSales` | a shipped order to its closed books | refunds asked once and within the sale, statement complete, accounts agree |
| `PaidCancellation` | paid and cancelled Excel orders over shared papers | proofs final, papers serve once, cancelled only when all money is back |

Each `MC...` module instantiates its module for TLC. Each `...Proofs` module holds its theorems.

### OrderDispatch

Variables are the rows of one order: `state` and `cancelRequested` (orders),
`supplierOrder`, `reservation`, `payment`, `approved`, `posted` (the journal
`supplier-payment:{id}`), `reviews` (open categories, a dead letter being the kind of its job)
and `jobs` (one row per kind of job).
`receipts` and `paymentCalls` are what the connectors have done, `marketCancelled` what the
marketplace will say. A worker has a position `pc` between two transactions of the handler
it runs, the `task` and its `lease`; `recon` is the position of a reconcile_payment request.

An action is a transaction or a network call. The order of positions follows the handler:
for `payment.execute`, fetch (get_order, commerce.py:257), commit (the transaction that sets
SENDING, :262), call (pay_supplier, :286), record (finalize, :294) or refused (the
IntegrationError handler, :289). Checks that depend on other orders or on data not modelled
(cash, stock, cut-off, price, address, daily limit) are left open: the model takes
both outcomes. The completion of a job is one action here; `JobQueue` splits it and finds
that it may then overwrite a newer lease. That race only changes a row's status among
those it already had, and the invariant `IInv` below uses of a row only that it never returns
to NONE and that a dead one has its review, so what is proved from it about money does not depend
on the difference. `NothingWaitsSilently` and the late acceptance rest on `CInv`, which uses the
statuses, and so on the completion being one action.

### JobQueue

The row's status, attempts and token are `JobTable`'s; `due` and `leased` stand for the
clock columns, which is why time is only "it has passed". The completion is two
actions, `CompletionRead` (main.py:55, no lock on the row) and `CompletionWrite` (the ORM
writes the columns that differ from those it read).

### SupplierBatches

`line[l]` is a record of the rows that belong to one Excel order; `batch[b]` a batch with
its items. What a command does to a line is an operator on that record
(`Acknowledged`, `CancelRequested`, `CancelConfirmed`, `Prepared`, `Settled`, ...); an
action applies such operators to one line or to all lines of a batch. The provider's
receipt and the job rows of a payment are not repeated here: `call` says that a
pay_supplier call is out, and how often it may go out is `OrderDispatch`'s concern.

### AfterSales

One order, its `claim` and `refund` rows, its `settlement`, and `book`, the balances that
this order has moved in five accounts. `calling` and `returned` are the marketplace's side of a refund.
The evidence-backed commands of `operations.py` are modelled with the conditions they add.
An execution that finds a refund SENDING makes it UNKNOWN, although the first call may be
out and still succeed; the first worker then books it.

### PaidCancellation

`file[o]` is the folder of one order: the payment, its `proof` with revisions (the last is
`effective_evidence`), an open `correction` request, the version a confirmation `confirmed`,
the `cancellation`, the supplier's receipt (`recovery`), the customer's `refund`, the
`statement` with its revisions and the revision it was `reconciled` on, and another `line` of the
same marketplace order. Actions carry the names of the commands. A paper has a reference
and a file hash; several commands, on several orders, compete for the same papers. All
orders share one supplier and one marketplace, the case in which references can collide.
`refused` is the review that a blocked confirmation leaves behind. Snapshots and amounts are
frozen when an order reaches this module and only full refunds are accepted, so comparisons
with them are left out; a statement keeps only whether it leaves a residual.

### Treasury and OrderIntake

`Treasury` keeps `bank` and `deposit` (the accounts), and per order `held` (its reservation
with the split between bank and deposit), `payment` (status, approval, evidence, the day of
its dispatch), `cancelled`, and `gone` (the unit has left the supplier). A supplier has one
`product` with its stock and the figure it last reported. The sums of `finance.py` are
operators of the same names. `held[o].current` says that the product still has the
inventory time the unit was taken from; an import clears it, and `release` then returns no
unit (finance.py:127). Every action is one transaction; what `OrderDispatch` tells of workers
and receipts is here only what it leaves in the rows, including the late failure that makes
a confirmed payment uncertain again (`Uncertain`). Money comes in from the marketplace
(`Receive`) and back from a supplier (`Recover`): into its deposit after a claim
(after_sales.py:112), or split as it was paid after a paid cancellation (review_resolution.py:218).
What a supplier has given back before is `AfterSales`' and `PaidCancellation`'s concern.

An import takes off the supplier's figure what its open orders hold (catalog.py:50). An order
that is cancelled after its shipment has state CANCEL_REQUESTED and counts once more
(`recounted`); the stock is then lower than it might be, never higher.

`OrderIntake` EXTENDS `Treasury` and adds the orders' first states, where they came from, what
they say (`payload`) and their reviews. `Accept` is a validation that passes and is a `Reserve`
of `Treasury`; `Refuse` is one that fails, with the codes of commerce.py:155 that also pause the
listing told apart. Commands are whole transactions, so a preview and its ticket add nothing
to what `Commit` tests again. Imported orders need an Excel supplier (order_intake.py:58);
the model lets any order have either origin.

### Catalogue

`listing` is the row with `desired`, `remote` and `revision`. `job[r]` is the queue row
`listing:{id}:{r}` (a row of `JobTable`), `told` whether the marketplace has taken the current revision,
`sellable` whether stock, its age and the season allow a sale, `risks` the open reviews on
listing and product (`ListingRisk`) and those that `guard_cash_and_claims` opens on the supplier
product (`ClaimRisk`, risk.py:30): the warning pauses nothing, the kill switch always pauses.
Activation looks at the former only (operations.py:124), a resumption at both
(supplier_operations.py:669). `Pause` is shared by all commands that pause, as `pause_listing` is.
`ResumeTerms` is `resume_own_terms_pause` (supplier_operations.py:660), which gives the queue a
job that puts the listing back on sale; the audit reasons it reads are the flag `ownTerms`: only
changed terms have paused the listing since it was last on sale, which is when the order's terms
were frozen. `resumed` keeps which jobs say ACTIVE. A
worker holds a job at `read` (the unlocked read, commerce.py:424), `call`, `record` or
`refused` (the two transactions that record the outcome) and `end` (the completion). No
command resolves the review that a failed call or an import leaves on a listing, so once
`risks` is not empty the listing is not activated again; the model shows this as it is.

## 3. What the runs check

| Run | Instance | States | Shows |
|---|---|---|---|
| `order_safety` | 2 workers, 1 administrator, 2 attempts, 1 fault | 2.31 M | five invariants, an action property, refinement of `MoneyMovement` |
| `order_liveness` | 1 worker, 3 attempts, 3 faults | 185 k | cancellations end, requests for money are resolved |
| `queue` | 2 workers, 2 attempts, 1 replay, 1 crash | 9.7 k | bounded executions, dead letters, done means handled, rest |
| `supplier_batches` | 2 lines (one large, one legacy), 2 batches | 441 k | six invariants, two action properties |
| `after_sales` | 2 claims, 2 refunds, sale of 2 | 528 k | five invariants |
| `paid_cancellation` | 2 orders, 6 papers, 1 correction of each kind, 1 late line | 1.31 M | five invariants |
| `intake` | 2 orders of 1 supplier, 2 files | 648 k | five invariants over both modules |
| `catalogue` | 2 workers, 4 revisions, 2 attempts, 2 disturbances | 1.80 M | three invariants and an end of unsafe sales |
| `late_timeout`, `approval`, `fencing`, `evidence_reuse` | as small as shows it | | a disagreement each, see section 6 |

The properties, by what they guard against:

- **Paid once**: `AtMostOnePaymentRequest`, `OneRefundCall`, `SentOnce`, `BoundedExecutions`.
- **Evidence serves once**: `SupplierEvidenceServesOnce`, `CustomerEvidenceServesOnce`,
  `ConfirmedProofIsFinal`.
- **Never forgotten**: `MovedMoneyIsVisible`, `MoneySpec`, `SettlementKnowsRefunds`,
  `NothingWaitsSilently`, `HaltsAreReviewed`, `DeadLetterIsOpen`, `ImportsWaitVisibly`,
  `ChangeIsPursued`.
- **Cancellation**: `CancellationStopsUnsentMoney`, `CancellationStopsMoney`,
  `ReservationFollowsOrder`, `CancelledOwesNothing`, `SentNeedsConfirmation`,
  `CancelledIsSettled`, `NoFulfilmentBesideRefund`.
- **Order of things**: `PaidOnlyWhatWasOrdered`, `PaidOnlyAfterAcceptance`, `LargeIsApproved`,
  `DoneWasHandled`, `ConfirmationIsNewest`, `RiskStopsSales`.
- **Shared limits**: `CommitmentsAreFunded`, `DailyLimitHolds`, `StockIsNotCountedTwice`,
  `WithinLimits`.
- **Rows agree**: `BatchIsTrue`, `BooksClose`, `ClaimTellsRefunds`, `FilesCameInWhole`.
- **Ends**: `CancellationEnds`, `SendingIsResolved`, `ComesToRest`, `UnsafeSalesEnd`.

Type invariants are not among the runs' properties: they are theorems (section 4). Three further safety properties (`LedgerFollowsMoney`,
`ExposureIsIrrevocable`, `ClosedIsComplete`) are theorems only as well.

Two exceptions are part of the properties that name them. `ReservationFollowsOrder` asks that
cash is set aside for whatever a supplier may be working on, before and after a cancellation,
except in a `LateAcceptance`: the supplier has confirmed the cancellation, the cash is released,
and the answer to the original submission is recorded afterwards (commerce.py:186), with the
review of the cancellation open. `NothingWaitsSilently` asks that every halt and every dead job
has its review and that each stage up to the payment's answer is in a live job or in front of
a person, except for a payment `ApprovedInVain`, which is what `approval` finds.
`RiskStopsSales` says for each kind of review what it keeps off sale: changed supplier data any
sale, a failed synchronisation any but one already confirmed or resumed when an older call
fails, the claim kill switch any but a person's activation, a claim warning none.

Every property has a mutant: a definition of the model changed the way a plausible bug
would change the code (the operators marked "Slip" in the modules), under which TLC finds
the property violated.

### Bounds

- Two workers: races are pairwise, over one row or one payment. A third worker can only
  repeat what one of two does.
- `MaxAttempts` 2 or 3 instead of the configured number: one retry and one exhaustion.
- `MaxFaults` counts crashes and failed calls together. One is enough for any single
  timeout to meet any interleaving of two workers; the liveness run allows three, which
  exhausts a job.
- `MaxReplays` and `MaxCrashes` 1: one earlier life of a row and one death.
- Two lines and two batches: one line survives the cancellation of the other and is
  batched again. One line is large and one has no intent, so both special paths are met.
- Two refunds of up to 2 over a sale of 2 with fees of 1: the limits are met and exceeded,
  and the expected settlement becomes negative. `Statements`, `Adjustments` and
  `MaxCorrections` bound what a statement says and how often it is corrected.
- Six papers over five files and five references: two papers share a reference, two a file.
  One order needs four papers and one more for each correction, so two orders cannot be
  closed without competing. One correction of each kind makes a first version and a last one.
- Two orders of costs 2 and 1 with a bank of 2, a deposit of 1 and reserves of 1 (`intake`):
  together they want more than there is, the dearer one draws on both accounts, needs an
  approval, and fills the daily limit of 2 alone. One is paid by evidence, one by the
  provider. `Figures` (1 and 2 units) makes the last unit a matter of both orders;
  `Transfers` and `MaxAssets` bound the money that comes in. The second file repeats a line
  of the first and contradicts the other.
- Four revisions (`catalogue`): a resumption or an activation between two pauses; the
  last revision is kept for pausing, as a bound must not forbid that. A disturbance is a
  crash, a failed call, a replay, or a lease that runs out under a worker still at its job; two
  of them, anywhere, let a second worker take a revision whose first call then fails, or a job
  die under its worker and be replayed. The lease of a dead worker may always run out.
- Workers (`order_safety`), claims and refunds (`after_sales`), orders and the papers that
  share nothing (`paid_cancellation`) are symmetric; no liveness is checked under symmetry.

The runs set `CHECK_DEADLOCK FALSE` because an order may rest: everything done, or
waiting for a person.

### Fairness

`OrderDispatch!FairSpec` asks weak fairness of each worker's steps and of its claims:
`main()` polls for ever and the containers are restarted (`docker-compose.yml`,
`restart: unless-stopped`). In `JobQueue` time also passes: leases and back-offs run out.
Nobody who is a person, a customer, a supplier or a provider is fair: approvals, reconciliations, replays and
answers may never come, and the liveness properties name what then remains (a dead
`supplier.cancel` job, an orphaned row, a payment SENDING under a cancellation's review).
`Catalogue!CatalogueFairSpec` asks it of each worker and of `InventoryGuard`, which `main()`
runs every 30 seconds (main.py:73); `CashAndClaimsGuard` runs with it but need not find anything.

## 4. What is proved

TLAPS proves the following for every number of workers, administrators, attempts, faults,
lines, batches, claims, refunds, orders, papers, files and revisions, and for every amount.
Every invariant and every action property of the passing runs is a theorem. So are two
refinements: `OrderDispatch` implements `MoneyMovement`, and `OrderIntake` implements `Treasury`.

**OrderDispatch** (`OrderDispatchProofs`), from `MaxAttempts \in Nat \ {0}` and
`MaxFaults \in Nat`. The invariants are not inductive: whether money may be recorded as paid
depends on where every worker stands. `IInv` adds to `TypeOK` that a worker at a handler has a job that
exists (`Busy`) and seven parts:
`OneDispatch` (a worker that is *paying* is the only one, the payment is at risk, and the
call is still to be made exactly while it stands before it), `ReceiptsKnown` (whoever is
about to finalize has a receipt), `Books` (journal, spent reservation and receipt go
together), `Reserved` (where a reservation exists), `Cancelling` (what a
cancellation leaves behind), `Ordered` and `HaltIsReported`. `Invariant` proves it, one step per
action. What follows from `IInv` alone are the properties about money, the type invariant, `LedgerFollowsMoney`
and `CancelledOwesNothing`. That the supplier's work is covered and that no stage is forgotten
depends further on how handlers end, so `CarriedOn` proves a second invariant `CInv` on top of
`IInv`: `AtSupplier` (cash behind a submitted order, a worker at the submission or the late
acceptance), `StagesBegun` (a stage's job exists once the stage has begun), `HandlersEnd` (a worker
about to complete its job as ok has left the stage behind) and `StageIsPursued`.
`CommitmentsAreCovered`, `ReservationsFollow` and `HaltsAreReviewed` follow from both. For the action properties and the refinement, the lemma
`MoneySteps` classifies every step by what it does to payment, reservation and receipts;
`Refinement` shows that each class is a step or a stutter of `MoneyMovement`.

**JobQueue** (`JobQueueProofs`), from the bounds' types. `QInv` accounts for executions: an
execution is paid by an attempt of the present row or by the full allowance of an earlier
life. It holds although a stale completion lands on a newer claim, because a completion
writes neither attempts nor token. All invariants of the run are proved.

**SupplierBatches** (`SupplierBatchesProofs`), from `NoBatch \notin Batches` and the two kinds
of lines being lines. `BInv` says that each line is in order by itself (`LineOk`) and agrees
with its batch row (`Agreement`). The operators on one line are shown `Sound` first, as lemmas
about records, and the actions are then applications of them. `ExposureIsCovered` (money at risk
keeps its reservation) is proved here and left to the proof.

A second invariant, `GInv`, is proved on top of `BInv` for what the rows tell. `LinesGood` says
of each line that its stops are reviewed (`Told`), that a large one is approved before its money
may go (`Cleared`), and that a line whose cancellation was requested never goes back to its
supplier (`Leaves`). `FilesGood` adds what ties requests to files: a requested line with a
file is in a sent one, a frozen one without a file is cancelled, a file holds only frozen lines,
and what is answered was sent. `BatchGood` is `BatchIsTrue` for one batch. `BatchIsTrue` alone is
not inductive: whether RESOLVED or REJECTED stays true of a row depends on what later commands
may still do to its lines, which `Leaves` and `FilesGood` limit. Commands on one line that
touch neither items nor requests are shown `Calm`, and a calm step keeps every batch row true
(the lemma is proved once and used for nine commands). `LargeIsApproved`, `HaltsAreReviewed` and `BatchIsTrue`
follow, and `SentNeedsConfirmation` from the classification of each step.

**Sums** (`SumsProofs`). A sum of natural numbers over rows counts units, so `Total(f, S)` is
the size of `Units(f, S)`: `f[x]` pairs for each row `x`. No recursion and no induction is needed
then, only cardinalities: the sum over nothing, over one row, with a row more or less, over
disjoint sets and over a subset, and that only the amounts of the rows count. `MCOrderIntake` has TLC compare `Total` with
the sum of the community modules on small functions (`TotalsAreSums`). A table has finitely
many rows at any time: the proofs assume that orders, suppliers, claims and refunds are finite sets.

**AfterSales** (`AfterSalesProofs`), from `AmountsAssumption` (the types of the amounts, finitely many
rows). `AInv` tells how far the call of a refund has got from its row, and that a statement
exists only over booked refunds. `BooksInv` adds to the types, limits and books: nothing is
claimed or refunded before the delivery (`OrderOk`), a claim nobody made asks for nothing
(`RowsOk`), and the statement's accounts are zero before it and its expectation is that of the
booked refunds after it (`LedgerOk`). `BooksInv` alone is not inductive: booking a refund after the statement
would change what the statement was computed from, and that none is still out is `AInv`'s.

**PaidCancellation** (`PaidCancellationProofs`), from `NoDocument \notin Documents`. `PInv` says
that each file is in order by itself (`FileOk`: every paper rests on those before it and on
a payment that can no longer change) and that papers serve once. `NextStep` shows that
every action replaces one file by another that is in order, and that at most one paper joins
it, compared before with all papers it may collide with (`Filed`); the two invariants over
pairs of orders follow from this classification without looking at the actions again. All
invariants of the run are proved.

**OrderIntake** (`OrderIntakeProofs`), from `TreasuryBounds` and `IntakeContents`. `IntakeInv` joins
the types, the two invariants of the intake and `Bare`: an order that has not passed validation
has no reservation. The steps of `Treasury` enter only through three lemmas that say
what they leave alone (`TreasuryHeld`, `ImportHeld`, `ReserveHeld`), so the sums need not be known.

**Treasury** (in `OrderIntakeProofs`), from `TreasuryBounds`. `TreasuryInv` joins the types,
`CommitmentsAreFunded`, `DailyLimitHolds`, `SpentOk` (a confirmed payment has spent its
reservation, what was sent has its day, what left was paid) and `StockFits`. The daily limit is not inductive without
`SpentOk`, because a new day drops from the sum what was confirmed on an earlier one. The stock is not without
`StockFits`, because `StockIsNotCountedTwice` says nothing of a product that is sold
out, while a release may still bring its last unit back. One lemma for each sum (`FewerCounted`,
`OneMoreCounted`, ...) says what a command may do to it; the proof has one step per command.
`IntakeImplementsTreasury` shows that every step of `OrderIntake` is a step or a stutter of `Treasury`,
with the same variables, so the three invariants hold in the intake without a second proof.

**Catalogue** (`CatalogueProofs`), from `CatalogueBounds`. `CatalogueInv` adds to the types and the
three invariants that jobs exist only up to the current revision (`RevisionsInOrder`), that a
worker about to record a success has been heard (`AnswersAreTrue`), and that a sale is the first
revision's (with nothing but a claim warning against it), a person's or a resumption
(`SalesHaveASource`). The proof has a lemma for what every row operation does
to a row, one for the commands, one for the guard on cash and claims, one for the resumption, and
one per step of the job.

Only model-checked: liveness (`CancellationEnds`, `SendingIsResolved`, `ComesToRest`,
`UnsafeSalesEnd`). Each needs fairness, hence ENABLED, which the installed prover cannot expand.
Deadlock freedom is not claimed, as an order may rest. The four disagreements of section 6 are
counterexamples that TLC finds.

## 5. What is not modelled, and why

- Replays of a command with the same key and the same payload return the first result;
  with another payload they are refused. Keys and hashes are therefore left out, except
  where an existing job row is returned (`enqueue`).
- Quantities above one unit, several products of a supplier, and margins, prices, ages and
  claim rates: their checks may pass or fail at any time.
- The ticket and snapshot tokens of the intake: commit and verification test again what they
  stand for.
- The order in which a marketplace applies two revisions of a listing that are under way
  together: the application sends the revision with each call and leaves it to the other side.
- `marketplace.shipment` and `notification.send`: each repeats a call under a stable key and
  sets one flag.
- Spreadsheets, encryption, sessions, rate limits, HTML, metrics, logging: no protocol state.
- Database isolation below the treasury lock, except in `JobQueue`, where it matters.
- Creative studio, web console, seeds and scripts.

## 6. Where the code and its texts disagree

1. `late_timeout`: a provider timeout recorded after an administrator has confirmed the payment takes
   SUCCEEDED back to UNKNOWN (commerce.py:289), and no reconciliation can confirm it again;
   `docs/payment-safety.md:21` says a lookup may.
2. `approval`: a payment that returned to MANUAL_APPROVAL after its job was DONE is
   approved but never executed, because `enqueue` returns the DONE row (commerce.py:253,
   common.py:42); `tests/test_workflows.py:160` expects an approved payment to be paid.
3. `fencing`: a completion can change a row under a newer lease (main.py:55);
   `docs/deployment.md:13` says it requires the same token.
4. `evidence_reuse`: a file recorded as a customer's refund is accepted afterwards as another
   order's payment proof, because only the customer-side commands compare hashes
   (supplier_operations.py:439); `docs/phase11b-marketplace-cancellation.md:65` says that hashes
   cannot be reused across these kinds, in either order.

Four observations beside them, which no run singles out:
the supplier's answer to create_orders may be recorded ACCEPTED on an order that is
already CANCELLED and whose cash is released (commerce.py:186), which `ReservationFollowsOrder`
names; a person may activate a listing beside an open claim kill switch, because activation looks
at the reviews of listing and product while the kill switch is a review of the supplier product
(operations.py:124, risk.py:32), which `RiskStopsSales` names and
`docs/functional-closeout.md:15` ("rechecks ... product risk") leaves open; a payment job that is run again and finds the order
cancelled at the marketplace leaves the payment SENDING (commerce.py:260), which
`SendingIsResolved` names; and no command resolves the reviews that stop the activation of a
listing (operations.py:124).

## 7. Plan

Done, in this order: `OrderStates`, `JobTable`, `OrderDispatch` with `MoneyMovement` and its proofs,
`JobQueue` and its proofs, `SupplierBatches` and its proofs, `AfterSales` and its proofs,
`PaidCancellation` and its proofs, `Catalogue` and its proofs, `Treasury` and `OrderIntake` with the
proofs of the latter, `Sums` with the proofs of `Treasury`, of the books of `AfterSales` and of the
batch rows of `SupplierBatches`.

Next, most important first:

1. Shipments to the marketplace (`sync_shipment`) and deliveries behind `OrderDispatch`.
2. A promise of the settlement in the manner of `MoneyMovement`, which `AfterSales` implements.
3. Pricing and discovery as operators against reference definitions over bounded inputs.
4. A third order in `Treasury`, beyond what one run can hold with both payment paths.
