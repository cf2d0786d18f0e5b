------------------------------ MODULE JobTable ------------------------------
(***************************************************************************)
(* The rows of the durable queue (schema_v1.Job) and what enqueue, a claim *)
(* and the completion transaction of apps/worker/main.py do to one row.    *)
(* A row is                                                                *)
(*   status    NONE while no row with this business key exists;            *)
(*   attempts  how often the row was claimed since it was created/replayed;*)
(*   lease     the lease token: a fresh value per claim.                   *)
(* Time is abstracted: a lease may have run out at any moment, because it  *)
(* is wall-clock time that nothing renews while a handler runs.            *)
(***************************************************************************)
EXTENDS Integers

JobStatus == {"NONE", "PENDING", "RUNNING", "DONE", "DEAD"}
JobRow == [status : JobStatus, attempts : Nat, lease : Nat]

NoJob == [status |-> "NONE", attempts |-> 0, lease |-> 0]

\* enqueue(): an existing row is returned as it is, whatever its status.
Enqueued(job) == IF job.status = "NONE" THEN [job EXCEPT !.status = "PENDING"] ELSE job

\* The claim's WHERE clause: due, or running under a lease that has expired.
Claimable(job) == job.status \in {"PENDING", "RUNNING"}

Claimed(job) ==
  [status |-> "RUNNING", attempts |-> job.attempts + 1, lease |-> job.lease + 1]

\* Slip: an exhausted row goes back to the queue.
ExhaustedRequeued(job) == [job EXCEPT !.status = "PENDING"]

\* Attempts exhausted: the row dies and keeps the lease token it had.
Exhausted(job) == [job EXCEPT !.status = "DEAD"]

\* Slip: a fatal error ends the job like a success.
CompletedBlind(job, token, outcome, maxAttempts) ==
  [job EXCEPT !.status =
     IF outcome = "retry" /\ job.attempts < maxAttempts THEN "PENDING" ELSE "DONE"]

\* The completion transaction of the claim that was given token, with outcome
\* ok, retry (retryable and not uncertain) or fatal. A newer token wins.
Completed(job, token, outcome, maxAttempts) ==
  IF job.lease # token THEN job
  ELSE [job EXCEPT !.status =
          IF outcome = "ok" THEN "DONE"
          ELSE IF outcome = "retry" /\ job.attempts < maxAttempts THEN "PENDING"
          ELSE "DEAD"]
=============================================================================
