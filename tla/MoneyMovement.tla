--------------------------- MODULE MoneyMovement ---------------------------
(***************************************************************************)
(* What the system promises about the money of one supplier payment, told  *)
(* without workers, jobs or retries: cash is set aside, then either given  *)
(* back or sent out; once sent out it can only be confirmed; the provider  *)
(* moves it at most once; the books follow the money and never precede it. *)
(***************************************************************************)
VARIABLES
  stage,         \* where the money is according to the books
  transferred    \* the provider has moved it

Stage == {"none", "committed", "outstanding", "settled", "void"}

Init == stage = "none" /\ transferred = FALSE

Commit   == stage = "none" /\ stage' = "committed" /\ UNCHANGED transferred
GiveBack == stage = "committed" /\ stage' = "void" /\ UNCHANGED transferred
Dispatch == stage = "committed" /\ stage' = "outstanding" /\ UNCHANGED transferred
Transfer == /\ stage = "outstanding" /\ ~transferred
            /\ transferred' = TRUE /\ UNCHANGED stage
Settle   == /\ stage = "outstanding" /\ transferred
            /\ stage' = "settled" /\ UNCHANGED transferred

Next == Commit \/ GiveBack \/ Dispatch \/ Transfer \/ Settle

Spec == Init /\ [][Next]_<<stage, transferred>>
=============================================================================
