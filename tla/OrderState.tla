----------------------------- MODULE OrderState -----------------------------
(***************************************************************************)
(* The order lifecycle of src/domain/orders/order-state.ts: the statuses,  *)
(* the table of allowed moves and the two predicates the rest of the       *)
(* kernel asks of it.                                                      *)
(***************************************************************************)

OrderStatus ==
  {"ORDER_INTENT", "RISK_APPROVED", "SUBMITTING", "SUBMITTED", "ACKNOWLEDGED",
   "PARTIALLY_FILLED", "FILLED", "POSITION_OPEN", "PROTECTED", "EXIT_REQUESTED",
   "CLOSED", "REJECTED", "CANCELLED", "EXPIRED", "UNKNOWN"}

\* Where an order of each status may go; the four statuses left out of the
\* cases are final.
Allowed == [s \in OrderStatus |->
  CASE s = "ORDER_INTENT"     -> {"RISK_APPROVED", "REJECTED"}
    [] s = "RISK_APPROVED"    -> {"SUBMITTING", "CANCELLED", "EXPIRED"}
    [] s = "SUBMITTING"       -> {"SUBMITTED", "UNKNOWN", "REJECTED", "FILLED",
                                  "PARTIALLY_FILLED"}
    [] s = "SUBMITTED"        -> {"ACKNOWLEDGED", "PARTIALLY_FILLED", "FILLED",
                                  "UNKNOWN", "CANCELLED", "EXPIRED", "REJECTED"}
    [] s = "ACKNOWLEDGED"     -> {"PARTIALLY_FILLED", "FILLED", "UNKNOWN",
                                  "CANCELLED", "EXPIRED"}
    [] s = "PARTIALLY_FILLED" -> {"PARTIALLY_FILLED", "FILLED", "UNKNOWN",
                                  "CANCELLED", "EXPIRED"}
    [] s = "FILLED"           -> {"POSITION_OPEN", "CLOSED"}
    [] s = "POSITION_OPEN"    -> {"PROTECTED", "EXIT_REQUESTED", "CLOSED", "UNKNOWN"}
    [] s = "PROTECTED"        -> {"EXIT_REQUESTED", "CLOSED", "UNKNOWN"}
    [] s = "EXIT_REQUESTED"   -> {"SUBMITTING", "CLOSED", "UNKNOWN", "REJECTED"}
    [] s = "UNKNOWN"          -> {"SUBMITTED", "ACKNOWLEDGED", "PARTIALLY_FILLED",
                                  "FILLED", "CANCELLED", "CLOSED"}
    [] OTHER                  -> {}]

CanTransition(from, to) == to \in Allowed[from]

Terminal == {s \in OrderStatus : Allowed[s] = {}}

=============================================================================
