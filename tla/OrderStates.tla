---------------------------- MODULE OrderStates ----------------------------
(***************************************************************************)
(* The paper order state machine of core/models/execution.py: the statuses *)
(* an order can have and the table of transitions PaperOrder.transition    *)
(* consults.  The module has no state; the modules that own orders         *)
(* (PaperExecution, Ledger) build on it.                                   *)
(***************************************************************************)

OrderStatus ==
    {"CREATED", "SUBMITTING", "ACKNOWLEDGED", "OPEN", "PARTIALLY_FILLED",
     "FILLED", "CANCEL_PENDING", "CANCELLED", "REJECTED", "EXPIRED", "UNKNOWN"}

TERMINAL_STATUSES == {"FILLED", "CANCELLED", "REJECTED", "EXPIRED"}

\* A status an order can be at rest in while the venue may still act on it.
LiveStatuses == OrderStatus \ (TERMINAL_STATUSES \cup {"UNKNOWN"})

\* Mutant: the table forgets that a partly filled order can be cancelled.
ORDER_TRANSITIONS_narrow ==
    [s \in OrderStatus |->
        CASE s = "CREATED" -> {"SUBMITTING", "REJECTED"}
          [] s = "SUBMITTING" -> {"ACKNOWLEDGED", "REJECTED", "UNKNOWN"}
          [] s \in {"ACKNOWLEDGED", "OPEN"} -> OrderStatus \ {"CREATED", "SUBMITTING"}
          [] s \in {"PARTIALLY_FILLED", "CANCEL_PENDING"} ->
                {"CANCELLED", "FILLED", "PARTIALLY_FILLED", "UNKNOWN"}
          [] s = "UNKNOWN" -> {"OPEN", "PARTIALLY_FILLED"} \cup TERMINAL_STATUSES
          [] OTHER -> {}]

\* The statuses that PaperOrder.can_transition_to accepts from status s.
ORDER_TRANSITIONS ==
    [s \in OrderStatus |->
        CASE s = "CREATED" -> {"SUBMITTING", "REJECTED"}
          [] s = "SUBMITTING" -> {"ACKNOWLEDGED", "REJECTED", "UNKNOWN"}
          [] s = "ACKNOWLEDGED" ->
                {"OPEN", "PARTIALLY_FILLED", "FILLED", "REJECTED",
                 "CANCEL_PENDING", "UNKNOWN"}
          [] s \in {"OPEN", "PARTIALLY_FILLED"} ->
                {"PARTIALLY_FILLED", "FILLED", "CANCEL_PENDING", "CANCELLED",
                 "EXPIRED", "UNKNOWN"}
          [] s = "CANCEL_PENDING" ->
                {"CANCELLED", "FILLED", "PARTIALLY_FILLED", "UNKNOWN"}
          [] s = "UNKNOWN" ->
                {"OPEN", "PARTIALLY_FILLED", "FILLED", "CANCELLED",
                 "REJECTED", "EXPIRED"}
          [] OTHER -> {}]

CanTransition(from, to) == to \in ORDER_TRANSITIONS[from]
=============================================================================
