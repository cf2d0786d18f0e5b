---------------------------- MODULE OrderStates ----------------------------
(***************************************************************************)
(* The order state graph of packages/domain/state_machine.py.              *)
(***************************************************************************)
EXTENDS Integers

\* The fourteen states of the normal flow, in order (OrderState, NORMAL).
NormalFlow ==
  <<"RECEIVED", "VALIDATING", "VALIDATED", "RISK_CHECKED", "PAYMENT_RESERVED",
    "SUPPLIER_ORDER_PENDING", "SUPPLIER_ORDERED", "SUPPLIER_PAID",
    "SHIPMENT_PENDING", "SHIPPED", "DELIVERED", "SETTLEMENT_PENDING",
    "SETTLED", "CLOSED">>

ExceptionStates ==
  {"CANCEL_REQUESTED", "CANCELLED", "CLAIM_OPEN", "SUPPLIER_CLAIM_OPEN",
   "REFUND_PENDING", "REFUNDED", "PAYMENT_FAILED", "SUPPLIER_FAILED",
   "MANUAL_REVIEW", "FAILED"}

OrderState == {NormalFlow[i] : i \in 1 .. 14} \cup ExceptionStates

\* Everything before SETTLEMENT_PENDING may be cancelled or held (NORMAL[:-3]).
Interruptible == {NormalFlow[i] : i \in 1 .. 11}

ALLOWED ==
  {<<NormalFlow[i], NormalFlow[i + 1]>> : i \in 1 .. 13}
    \cup (Interruptible \X {"CANCEL_REQUESTED", "MANUAL_REVIEW"})
    \cup {<<"SUPPLIER_ORDER_PENDING", "SUPPLIER_FAILED">>,
          <<"SUPPLIER_ORDERED", "PAYMENT_FAILED">>}
    \cup ({"CANCEL_REQUESTED"} \X {"CANCELLED", "MANUAL_REVIEW"})
    \cup ({"MANUAL_REVIEW"} \X
            {"VALIDATING", "CANCEL_REQUESTED", "FAILED", "SUPPLIER_ORDERED"})
    \cup ({"PAYMENT_FAILED", "SUPPLIER_FAILED"} \X {"MANUAL_REVIEW"})
    \cup {<<"DELIVERED", "CLAIM_OPEN">>}
    \cup ({"CLAIM_OPEN"} \X {"SUPPLIER_CLAIM_OPEN", "MANUAL_REVIEW"})
    \cup ({"SUPPLIER_CLAIM_OPEN"} \X {"REFUND_PENDING", "MANUAL_REVIEW"})
    \cup ({"REFUND_PENDING"} \X {"REFUNDED", "MANUAL_REVIEW"})
    \cup {<<"REFUNDED", "SETTLEMENT_PENDING">>}

\* validate_transition: a repeated state is harmless, anything else needs an edge.
CanGo(current, target) == current = target \/ <<current, target>> \in ALLOWED

\* States in which hold() leaves the order where it is.
HoldExempt == {"MANUAL_REVIEW", "CANCEL_REQUESTED", "CANCELLED", "CLOSED"}

\* States in which cancel() records a late cancellation and changes nothing else.
TooLateToCancel == {"SETTLED", "CLOSED", "SETTLEMENT_PENDING"}
=============================================================================
