---------------------------- MODULE MCReceivables ----------------------------
(***************************************************************************)
(* Instances of Receivables for TLC.                                       *)
(***************************************************************************)
EXTENDS Receivables, TLC

CONSTANTS d1, d2, d3, r1, r2, l1, l2, k1, k2, s1, s2

Documents == {d1, d2, d3}
Receipts == {r1, r2}
Lines == {l1, l2}
Keys == {k1, k2}
TwoSlots == {s1, s2}
Cents == {1, 2}

\* A workload for every choice of as many invoices, of which the first ones of
\* some order are issued before the behaviour begins.
Work(ops, count, issued, others, keys) ==
    {[ops |-> ops, rows |-> D \cup others, keys |-> keys, issued |-> q] :
        D \in kSubset(count, Documents), q \in {p \in [1 .. issued -> Documents] : IsInjective(p)}}

Drafting   == Work({"draft", "create", "edit", "approve", "issue", "cancel"}, 2, 0, {}, {k1})
Copying    == Work({"draft", "duplicate", "issue", "cancel"}, 3, 0, {}, {})
Sweeping   == Work({"sweep", "reschedule", "create"}, 3, 0, {}, {})
Settling   == Work({"append", "record", "reverse", "credit", "void"}, 0, 1, {}, Keys)
Resolving  == Work({"allocate", "credit", "void", "dispute", "undispute", "write_off"}, 0, 1, {r1}, {k1})
Allocating == Work({"allocate", "deallocate", "append"}, 0, 2, Receipts, {k1})
Voiding    == Work({"append", "allocate", "deallocate", "void"}, 0, 1, {r1}, {k1})
Matching   == Work({"append", "match", "unmatch"}, 0, 1, {r1} \cup Lines, {k1})
Ignoring   == Work({"match", "unmatch", "ignore"}, 0, 0, {r1} \cup Lines, {})

EveryWorkload ==
    Drafting \cup Copying \cup Sweeping \cup Settling \cup Resolving
    \cup Allocating \cup Voiding \cup Matching \cup Ignoring

\* Receipts and keys are told apart by the workloads.
Interchangeable ==
    Permutations(Slot) \cup Permutations(Doc) \cup Permutations(Line)
=============================================================================
