-------------------------- MODULE MCInvoiceReview --------------------------
(***************************************************************************)
(* Instances of InvoiceReview for TLC.                                     *)
(***************************************************************************)
EXTENDS InvoiceReview

CONSTANTS u1, u2, u3, root, s1, s2

Everybody == {u1, u2, root}
FourPeople == {u1, u2, u3, root}
Root == {root}
OneSlot == {s1}
TwoSlots == {s1, s2}

\* No policy, and two approvers in sequence.
UsualChains == {<<Anyone>>, <<u1, u2>>}
OpenChain == {<<Anyone>>}

\* Two approvers and a final step for finance.
FinanceFinal == {<<u1, u2, u3>>}

AnyTarget == WorkflowState
NoTarget == {}
=============================================================================
