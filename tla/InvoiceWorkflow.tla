--------------------------- MODULE InvoiceWorkflow ---------------------------
(***************************************************************************)
(* The lifecycle graph of a supplier invoice: the states, the legal moves, *)
(* and the sets of states that other components test for.                  *)
(***************************************************************************)

WorkflowState == {
    "draft", "submitted", "partially_approved", "approved", "rejected",
    "scheduled_for_payment", "partially_paid", "paid", "disputed",
    "cancelled", "archived"}

TRANSITIONS == [s \in WorkflowState |->
    CASE s = "draft"                 -> {"submitted"}
      [] s = "submitted"             -> {"partially_approved", "approved", "rejected", "draft"}
      [] s = "partially_approved"    -> {"approved", "rejected", "draft"}
      [] s = "approved"              -> {"scheduled_for_payment", "disputed", "draft"}
      [] s = "rejected"              -> {"draft", "archived"}
      [] s = "scheduled_for_payment" -> {"partially_paid", "paid", "disputed"}
      [] s = "partially_paid"        -> {"paid", "disputed"}
      [] s = "paid"                  -> {"disputed", "archived"}
      [] s = "disputed"              -> {"draft", "approved", "scheduled_for_payment"}
      [] s = "cancelled"             -> {"archived"}
      [] s = "archived"              -> {}]

Cancellable == WorkflowState \ {"cancelled", "archived", "paid", "rejected"}

AllowedTargets(s) == TRANSITIONS[s] \cup IF s \in Cancellable THEN {"cancelled"} ELSE {}

CanTransition(s, t) == t \in AllowedTargets(s)

\* Header and lines may be edited in these states only.
Editable == {"draft"}

\* A supplier payment may be recorded in these states only.
Payable == {"scheduled_for_payment", "partially_paid"}

\* An approval decision is awaited in these states.
AwaitingApproval == {"submitted", "partially_approved"}
=============================================================================
