--------------------------- MODULE JobQueueProofs ---------------------------
(***************************************************************************)
(* What JobQueue promises for any number of workers, attempts and replays, *)
(* in spite of completions that land on a row they have not seen.          *)
(***************************************************************************)
EXTENDS JobQueue, TLAPS

\* Every execution is paid for: by an attempt of the row as it is, or by the
\* full allowance of an earlier life of it.
AttemptsAccounted ==
  /\ row.attempts <= MaxAttempts
  /\ executions + MaxAttempts <= MaxAttempts * (replays + 1) + row.attempts

\* Nobody carries a success that did not happen.
HandledKnown ==
  /\ DoneWasHandled
  /\ \A w \in Workers : pc[w] = "ok" => handled
  /\ \A w \in Workers : seen[w].row.status = "DONE" => handled

QInv == TypeOK /\ AttemptsAccounted /\ HandledKnown /\ DeadLetterIsOpen

\* What the queue does to a row leaves a row.
LEMMA RowOperations ==
  ASSUME NEW job \in JobRow, NEW t, NEW outcome
  PROVE  /\ Enqueued(job) \in JobRow /\ Claimed(job) \in JobRow /\ Exhausted(job) \in JobRow
         /\ Completed(job, t, outcome, MaxAttempts) \in JobRow
         /\ NoJob \in JobRow /\ Nothing \in Reading
BY DEF Nothing, Reading, JobRow, JobStatus, Enqueued, Claimed, Exhausted, Completed, NoJob

\* A freshly enqueued row satisfies the invariant.
LEMMA QInit == Init => QInv
<1>. SUFFICES ASSUME Init PROVE QInv
  OBVIOUS
<1>1. Nothing \in Reading /\ row = [status |-> "PENDING", attempts |-> 0, lease |-> 0]
  BY DEF Init, Enqueued, Nothing, Reading, NoJob, JobRow, JobStatus
<1>2. TypeOK
  <2>1. row \in JobRow
    BY <1>1 DEF JobRow, JobStatus
  <2>2. /\ token \in [Workers -> Nat] /\ seen \in [Workers -> Reading]
        /\ pc \in [Workers -> {"idle", "running"} \cup Outcome]
    BY <1>1 DEF Init
  <2>. QED
    BY <2>1, <2>2 DEF Init, TypeOK
<1>3. AttemptsAccounted
  <2>1. MaxAttempts * (0 + 1) = MaxAttempts
    BY BoundsAssumption
  <2>. QED
    BY <1>1, <2>1, BoundsAssumption DEF Init, AttemptsAccounted
<1>. QED
  BY <1>1, <1>2, <1>3 DEF Init, QInv, HandledKnown, DoneWasHandled, DeadLetterIsOpen, Nothing, NoJob

\* Every step keeps the variables within their types.
LEMMA QType == TypeOK /\ [Next]_vars => TypeOK'
<1>. SUFFICES ASSUME TypeOK, [Next]_vars PROVE TypeOK'
  OBVIOUS
<1>1. ASSUME NEW w \in Workers, Claim(w) PROVE TypeOK'
  <2>1. row' \in JobRow
    BY <1>1, RowOperations DEF Claim, TypeOK
  <2>2. row'.lease \in Nat
    BY <2>1 DEF JobRow
  <2>3. /\ pc' \in [Workers -> {"idle", "running"} \cup Outcome]
        /\ token' \in [Workers -> Nat]
    BY <1>1, <2>2 DEF Claim, TypeOK
  <2>4. /\ due' = FALSE /\ leased' = TRUE /\ executions' = executions + 1
        /\ UNCHANGED <<review, treasury, seen, handled, replays, crashes>>
    BY <1>1 DEF Claim
  <2>5. due' \in BOOLEAN /\ leased' \in BOOLEAN
    BY <2>4
  <2>7. executions' \in Nat
    BY <2>4 DEF TypeOK
  <2>6. /\ review' \in {"NONE", "OPEN", "ACKNOWLEDGED"}
        /\ treasury' \in Workers \cup {NoWorker} /\ seen' \in [Workers -> Reading]
        /\ handled' \in BOOLEAN /\ replays' \in Nat /\ crashes' \in Nat
    BY <2>4 DEF TypeOK
  <2>. QED
    BY <2>1, <2>3, <2>5, <2>6, <2>7 DEF TypeOK
<1>2. ASSUME NEW w \in Workers, Bury(w) PROVE TypeOK'
  BY <1>2, RowOperations DEF Bury, Due, TypeOK
<1>3. ASSUME NEW w \in Workers, Handle(w) PROVE TypeOK'
  BY <1>3 DEF Handle, TypeOK
<1>4. ASSUME NEW w \in Workers, CompletionRead(w) PROVE TypeOK'
  <2>1. [row |-> row, leased |-> leased] \in Reading /\ Nothing \in Reading
    BY RowOperations DEF TypeOK, Reading
  <2>2. seen' \in [Workers -> Reading] /\ treasury' \in Workers \cup {NoWorker}
    BY <1>4, <2>1 DEF CompletionRead, Rest, TypeOK
  <2>. QED
    BY <1>4, <2>2 DEF CompletionRead, Rest, TypeOK
<1>5. ASSUME NEW w \in Workers, CompletionWrite(w) PROVE TypeOK'
  <2>1. Completed(seen[w].row, token[w], pc[w], MaxAttempts).status \in JobStatus
    <3>1. seen[w].row \in JobRow
      BY DEF TypeOK, Reading
    <3>2. Completed(seen[w].row, token[w], pc[w], MaxAttempts) \in JobRow
      BY <3>1, RowOperations
    <3>. QED
      BY <3>2 DEF JobRow
  <2>2. row' \in JobRow
    BY <1>5, <2>1 DEF CompletionWrite, TypeOK, JobRow
  <2>. QED
    BY <1>5, <2>2, RowOperations DEF CompletionWrite, Rest, TypeOK
<1>6. ASSUME NEW w \in Workers, Crash(w) PROVE TypeOK'
  BY <1>6, RowOperations DEF Crash, Rest, TypeOK
<1>7. CASE Replay
  <2>1. row' \in JobRow
    BY <1>7 DEF Replay, TypeOK, JobRow, JobStatus
  <2>. QED
    BY <1>7, <2>1 DEF Replay, TypeOK
<1>8. CASE TimePasses \/ Acknowledge
  BY <1>8 DEF TimePasses, Acknowledge, TypeOK
<1>9. CASE UNCHANGED vars
  BY <1>9 DEF vars, TypeOK
<1>. QED
  BY <1>1, <1>2, <1>3, <1>4, <1>5, <1>6, <1>7, <1>8, <1>9 DEF Next, Tick

\* Every step of a worker, of time and of people keeps the invariant.
LEMMA QNext == QInv /\ [Next]_vars => QInv'
<1>. SUFFICES ASSUME QInv, [Next]_vars PROVE QInv'
  OBVIOUS
<1>. DEFINE Facts == AttemptsAccounted /\ HandledKnown /\ DeadLetterIsOpen
<1>. USE BoundsAssumption
<1>0. TypeOK'
  BY QType DEF QInv
<1>1. ASSUME NEW w \in Workers, Claim(w) PROVE Facts'
  BY <1>1 DEF QInv, Claim, Claimed, Claimable, Due, TypeOK, JobRow, AttemptsAccounted,
     HandledKnown, DoneWasHandled, DeadLetterIsOpen
<1>2. ASSUME NEW w \in Workers, Bury(w) PROVE Facts'
  BY <1>2 DEF QInv, Bury, Due, Exhausted, TypeOK, JobRow, AttemptsAccounted,
     HandledKnown, DoneWasHandled, DeadLetterIsOpen
<1>3. ASSUME NEW w \in Workers, Handle(w) PROVE Facts'
  BY <1>3 DEF QInv, Handle, TypeOK, AttemptsAccounted, HandledKnown, DoneWasHandled,
     DeadLetterIsOpen
<1>4. ASSUME NEW w \in Workers, CompletionRead(w) PROVE Facts'
  BY <1>4 DEF QInv, CompletionRead, Rest, Nothing, NoJob, TypeOK, AttemptsAccounted, HandledKnown,
     DoneWasHandled, DeadLetterIsOpen
<1>5. ASSUME NEW w \in Workers, CompletionWrite(w) PROVE Facts'
  <2>. DEFINE status == Completed(seen[w].row, token[w], pc[w], MaxAttempts).status
  <2>1. status = "DONE" => handled
    BY DEF QInv, HandledKnown, Completed, TypeOK, JobRow
  <2>2. /\ row' = IF status = seen[w].row.status THEN row ELSE [row EXCEPT !.status = status]
        /\ review' = IF status = "DEAD" THEN "OPEN" ELSE review
        /\ UNCHANGED <<handled, executions, replays>>
    BY <1>5 DEF CompletionWrite
  <2>3. row'.attempts = row.attempts /\ row'.status \in {row.status, status}
    BY <2>2 DEF QInv, TypeOK, JobRow
  <2>4. HandledKnown'
    BY <1>5, <2>1, <2>2, <2>3 DEF CompletionWrite, Rest, Nothing, NoJob, QInv, TypeOK,
       HandledKnown, DoneWasHandled
  <2>5. DeadLetterIsOpen'
    BY <2>2, <2>3 DEF QInv, DeadLetterIsOpen
  <2>. QED
    BY <2>2, <2>3, <2>4, <2>5 DEF QInv, AttemptsAccounted
<1>6. ASSUME NEW w \in Workers, Crash(w) PROVE Facts'
  BY <1>6 DEF QInv, Crash, Rest, Nothing, NoJob, TypeOK, AttemptsAccounted, HandledKnown,
     DoneWasHandled, DeadLetterIsOpen
<1>7. CASE Replay
  <2>1. MaxAttempts * (replays + 1 + 1) = MaxAttempts * (replays + 1) + MaxAttempts
    BY DEF QInv, TypeOK
  <2>2. /\ row'.attempts = 0 /\ row'.status = "PENDING"
        /\ executions' = executions /\ replays' = replays + 1
    BY <1>7 DEF Replay, QInv, TypeOK, JobRow
  <2>3. AttemptsAccounted'
    <3>. DEFINE allowance == MaxAttempts * (replays + 1)
    <3>1. allowance \in Int /\ row.attempts \in Nat /\ executions \in Nat
      BY DEF QInv, TypeOK, JobRow
    <3>2. /\ row.attempts <= MaxAttempts
          /\ executions + MaxAttempts <= allowance + row.attempts
      BY DEF QInv, AttemptsAccounted
    <3>. HIDE DEF allowance
    <3>3. executions + MaxAttempts <= allowance + MaxAttempts + 0
      BY <3>1, <3>2
    <3>. QED
      BY <2>1, <2>2, <3>3 DEF AttemptsAccounted, allowance
  <2>4. UNCHANGED <<pc, seen, handled>>
    BY <1>7 DEF Replay
  <2>5. HandledKnown'
    BY <2>2, <2>4 DEF QInv, HandledKnown, DoneWasHandled
  <2>6. DeadLetterIsOpen'
    BY <2>2 DEF DeadLetterIsOpen
  <2>. QED
    BY <1>0, <2>3, <2>5, <2>6 DEF QInv
<1>8. CASE TimePasses \/ Acknowledge
  BY <1>8 DEF QInv, TypeOK, TimePasses, Acknowledge, AttemptsAccounted, HandledKnown,
     DoneWasHandled, DeadLetterIsOpen
<1>9. CASE UNCHANGED vars
  BY <1>9 DEF QInv, TypeOK, vars, AttemptsAccounted, HandledKnown, DoneWasHandled, DeadLetterIsOpen
<1>. QED
  BY <1>0, <1>1, <1>2, <1>3, <1>4, <1>5, <1>6, <1>7, <1>8, <1>9 DEF Next, Tick, QInv

\* QInv holds in every behaviour of the queue.
LEMMA QInvariant == Spec => []QInv
BY QInit, QNext, PTL DEF Spec

\* No job is started more often than its attempts and replays allow.
THEOREM ExecutionsAreBounded == Spec => []BoundedExecutions
<1>1. QInv => BoundedExecutions
  <2>. SUFFICES ASSUME QInv PROVE BoundedExecutions
    OBVIOUS
  <2>. DEFINE allowance == MaxAttempts * (replays + 1)
  <2>1. /\ allowance \in Int /\ row.attempts \in Nat /\ executions \in Nat
        /\ row.attempts <= MaxAttempts
        /\ executions + MaxAttempts <= allowance + row.attempts
    BY BoundsAssumption DEF QInv, TypeOK, JobRow, AttemptsAccounted
  <2>. HIDE DEF allowance
  <2>2. executions <= allowance
    BY <2>1, BoundsAssumption
  <2>. QED
    BY <2>2 DEF BoundedExecutions, allowance
<1>. QED
  BY <1>1, QInvariant, PTL

\* The row, the workers' positions and what they have read keep their types.
THEOREM QueueTypes == Spec => []TypeOK
<1>1. QInv => TypeOK
  BY DEF QInv
<1>. QED
  BY <1>1, QInvariant, PTL

\* A dead row is always in front of a human (Worker.tick, acknowledge_review).
THEOREM DeadLettersAreSeen == Spec => []DeadLetterIsOpen
<1>1. QInv => DeadLetterIsOpen
  BY DEF QInv
<1>. QED
  BY <1>1, QInvariant, PTL

\* No row is DONE before its handler has returned normally, although an execution of an
\* earlier life may complete it (Worker.tick's completion).
THEOREM DoneJobsWereHandled == Spec => []DoneWasHandled
<1>1. QInv => DoneWasHandled
  BY DEF QInv, HandledKnown
<1>. QED
  BY <1>1, QInvariant, PTL
=============================================================================
