------------------------------ MODULE JobQueue ------------------------------
(***************************************************************************)
(* One row of the durable queue and the workers that compete for it        *)
(* (apps/worker/main.py), down to the separate SELECT and UPDATE of a      *)
(* transaction.                                                            *)
(*                                                                         *)
(* The claim locks the job row (FOR UPDATE SKIP LOCKED) but not the        *)
(* treasury; the completion and replay lock the treasury (CONTROL) but     *)
(* read the job row without a lock. So a claim may commit between the      *)
(* completion's read and its write, and the write, which names only the    *)
(* columns it changes, then lands on a row it has not seen. OrderDispatch  *)
(* takes the completion as one step; here it is two.                       *)
(***************************************************************************)
EXTENDS JobTable

CONSTANTS Workers,
          NoWorker,        \* holder of a treasury lock nobody holds
          MaxAttempts,     \* settings.max_job_attempts
          MaxReplays,      \* bound on operator replays; 0 for a financial kind
          MaxCrashes       \* bound on worker crashes

ASSUME NoWorkerAssumption == NoWorker \notin Workers
ASSUME BoundsAssumption ==
  MaxAttempts \in Nat \ {0} /\ MaxReplays \in Nat /\ MaxCrashes \in Nat

VARIABLES
  row,          \* the job row
  due,          \* next_run_at (PENDING) or lease_until (RUNNING) has passed
  leased,       \* lease_until is not NULL
  review,       \* the JOB_DEAD_LETTER review of this job
  treasury,     \* the worker whose completion transaction is open
  pc,           \* idle, running, then the outcome of the handler
  token,        \* the lease token given to the worker
  seen,         \* the row as the worker's completion has read it
  handled,      \* some execution of the handler has returned normally
  executions,   \* how often a handler was started
  replays, crashes

vars == <<row, due, leased, review, treasury, pc, token, seen, handled, executions, replays, crashes>>

Outcome == {"ok", "retry", "fatal"}

\* What a completion reads of the row.
Reading == [row : JobRow, leased : BOOLEAN]
Nothing == [row |-> NoJob, leased |-> FALSE]

TypeOK ==
  /\ row \in JobRow /\ due \in BOOLEAN /\ leased \in BOOLEAN
  /\ review \in {"NONE", "OPEN", "ACKNOWLEDGED"}
  /\ treasury \in Workers \cup {NoWorker}
  /\ pc \in [Workers -> {"idle", "running"} \cup Outcome]
  /\ token \in [Workers -> Nat]
  /\ seen \in [Workers -> Reading]
  /\ handled \in BOOLEAN
  /\ executions \in Nat /\ replays \in Nat /\ crashes \in Nat

\* The row has just been enqueued.
Init ==
  /\ row = Enqueued(NoJob) /\ due = TRUE /\ leased = FALSE
  /\ review = "NONE" /\ treasury = NoWorker
  /\ pc = [w \in Workers |-> "idle"]
  /\ token = [w \in Workers |-> 0]
  /\ seen = [w \in Workers |-> Nothing]
  /\ handled = FALSE /\ executions = 0 /\ replays = 0 /\ crashes = 0

Rest(w) ==
  /\ pc' = [pc EXCEPT ![w] = "idle"]
  /\ token' = [token EXCEPT ![w] = 0]
  /\ seen' = [seen EXCEPT ![w] = Nothing]

-----------------------------------------------------------------------------
(* Worker.tick *)

\* The claim's WHERE clause; NULL is not before any time.
Due == Claimable(row) /\ due /\ (row.status = "RUNNING" => leased)

\* Slip: the attempts already made are not looked at.
ClaimUnbounded(w) ==
  /\ pc[w] = "idle" /\ Due
  /\ row' = Claimed(row) /\ due' = FALSE /\ leased' = TRUE
  /\ pc' = [pc EXCEPT ![w] = "running"]
  /\ token' = [token EXCEPT ![w] = row'.lease]
  /\ executions' = executions + 1
  /\ UNCHANGED <<review, treasury, seen, handled, replays, crashes>>

Claim(w) ==
  /\ pc[w] = "idle" /\ Due
  /\ row.attempts < MaxAttempts
  /\ row' = Claimed(row) /\ due' = FALSE /\ leased' = TRUE
  /\ pc' = [pc EXCEPT ![w] = "running"]
  /\ token' = [token EXCEPT ![w] = row'.lease]
  /\ executions' = executions + 1
  /\ UNCHANGED <<review, treasury, seen, handled, replays, crashes>>

\* Slip: the row dies without a review.
BuryQuietly(w) ==
  /\ pc[w] = "idle" /\ Due
  /\ row.attempts >= MaxAttempts
  /\ row' = Exhausted(row)
  /\ UNCHANGED <<due, leased, review, treasury, pc, token, seen, handled, executions, replays, crashes>>

\* The lease token stays: an execution that outlived its lease still owns the row.
Bury(w) ==
  /\ pc[w] = "idle" /\ Due
  /\ row.attempts >= MaxAttempts
  /\ row' = Exhausted(row)
  /\ review' = "OPEN"
  /\ UNCHANGED <<due, leased, treasury, pc, token, seen, handled, executions, replays, crashes>>

Handle(w) ==
  /\ pc[w] = "running"
  /\ \E outcome \in Outcome :
       /\ pc' = [pc EXCEPT ![w] = outcome]
       /\ handled' = (handled \/ outcome = "ok")
  /\ UNCHANGED <<row, due, leased, review, treasury, token, seen, executions, replays, crashes>>

\* The completion transaction begins: treasury lock, unlocked read, token check.
CompletionRead(w) ==
  /\ pc[w] \in Outcome /\ treasury = NoWorker
  /\ \/ /\ row.lease = token[w]
        /\ treasury' = w /\ seen' = [seen EXCEPT ![w] = [row |-> row, leased |-> leased]]
        /\ UNCHANGED <<pc, token>>
     \/ /\ row.lease # token[w]                      \* a newer lease owns completion
        /\ Rest(w) /\ UNCHANGED treasury
  /\ UNCHANGED <<row, due, leased, review, handled, executions, replays, crashes>>

\* It commits: the status, if it differs from the one read, is written whatever
\* the row holds by now, and so is the NULL of lease_until; a retry sets next_run_at.
CompletionWrite(w) ==
  /\ treasury = w
  /\ LET status == Completed(seen[w].row, token[w], pc[w], MaxAttempts).status IN
       /\ row' = IF status = seen[w].row.status THEN row ELSE [row EXCEPT !.status = status]
       /\ due' = (due /\ row'.status # "PENDING")
       /\ leased' = (leased /\ ~seen[w].leased)
       /\ review' = IF status = "DEAD" THEN "OPEN" ELSE review
  /\ treasury' = NoWorker
  /\ Rest(w)
  /\ UNCHANGED <<handled, executions, replays, crashes>>

\* The process dies; an open transaction is rolled back and its lock released.
Crash(w) ==
  /\ pc[w] # "idle" /\ crashes < MaxCrashes
  /\ crashes' = crashes + 1
  /\ treasury' = IF treasury = w THEN NoWorker ELSE treasury
  /\ Rest(w)
  /\ UNCHANGED <<row, due, leased, review, handled, executions, replays>>

-----------------------------------------------------------------------------
(* Time and people *)

\* The back-off or the lease runs out (nothing renews a lease).
TimePasses ==
  /\ ~due /\ due' = TRUE
  /\ UNCHANGED <<row, leased, review, treasury, pc, token, seen, handled, executions, replays, crashes>>

\* Worker.replay: attempts start again, the lease token stays.
Replay ==
  /\ treasury = NoWorker /\ row.status = "DEAD" /\ replays < MaxReplays
  /\ row' = [row EXCEPT !.status = "PENDING", !.attempts = 0]
  /\ due' = TRUE /\ replays' = replays + 1
  /\ UNCHANGED <<leased, review, treasury, pc, token, seen, handled, executions, crashes>>

\* acknowledge_review: noted by a human, not resolved.
Acknowledge ==
  /\ treasury = NoWorker /\ review = "OPEN"
  /\ review' = "ACKNOWLEDGED"
  /\ UNCHANGED <<row, due, leased, treasury, pc, token, seen, handled, executions, replays, crashes>>

-----------------------------------------------------------------------------
Tick(w) == Claim(w) \/ Bury(w) \/ Handle(w) \/ CompletionRead(w) \/ CompletionWrite(w)

Next ==
  \/ \E w \in Workers : Tick(w) \/ Crash(w)
  \/ TimePasses \/ Replay \/ Acknowledge

Spec == Init /\ [][Next]_vars

\* Workers poll for ever, handlers return, time passes. People are free.
FairSpec == Spec /\ WF_vars(TimePasses) /\ \A w \in Workers : WF_vars(Tick(w))

-----------------------------------------------------------------------------
(* Properties *)

\* "bounded retries" (main.py:1): no job is started more than max_job_attempts
\* times per replay, although leases expire, workers crash and stale writes land.
BoundedExecutions == executions <= MaxAttempts * (replays + 1)

\* "dead letters": a row that has died is in front of a human.
DeadLetterIsOpen == row.status = "DEAD" => review \in {"OPEN", "ACKNOWLEDGED"}

\* A job counts as done only after its handler has returned normally.
DoneWasHandled == row.status = "DONE" => handled

\* A stale retry of an earlier life has cleared the lease of a running row.
Orphaned == row.status = "RUNNING" /\ ~leased

\* The row comes to rest DONE or DEAD whatever the workers' races were, unless the
\* holder of an orphaned row dies: nobody's claim finds a row without a lease.
ComesToRest == <>[](row.status \in {"DONE", "DEAD"} \/ Orphaned)

\* docs/deployment.md:13 "Completion requires the same lease token": a completion
\* that changes the row does so under the token it was claimed with.
CompletionNeedsItsLease ==
  [][\A w \in Workers :
       (treasury = w /\ treasury' # w /\ row'.status # row.status)
         => row.lease = token[w]]_vars
=============================================================================
