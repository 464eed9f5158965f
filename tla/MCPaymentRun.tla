---------------------------- MODULE MCPaymentRun ----------------------------
(***************************************************************************)
(* Instances of PaymentRun for TLC.                                        *)
(***************************************************************************)
EXTENDS PaymentRun, TLC

CONSTANTS i1, i2, r1, r2, u1, u2, root, s1, s2

OneInvoice == {i1}
TwoInvoices == {i1, i2}
OneRun == {r1}
TwoRuns == {r1, r2}
Everybody == {u1, u2, root}
Root == {root}
OneSlot == {s1}
TwoSlots == {s1, s2}
OneAmount == {1}
SomeAmounts == {1, 2}
EveryOp == Op
RunsOnly == {"create", "approve", "pay", "cancel", "export", "move"}
SinglePayments == {"move", "record"}
Forward == {"scheduled_for_payment"}
Disputes == {"scheduled_for_payment", "disputed"}

\* The two colleagues, the runs and the slots are interchangeable.
Interchangeable == Permutations({u1, u2}) \cup Permutations(Run) \cup Permutations(Slot)
InterchangeableRows == Permutations(Run) \cup Permutations(Invoice)

Rework == {"scheduled_for_payment", "disputed", "draft", "submitted", "approved"}
=============================================================================
