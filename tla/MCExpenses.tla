------------------------------ MODULE MCExpenses ------------------------------
(***************************************************************************)
(* Instances of Reimbursement for TLC.                                     *)
(***************************************************************************)
EXTENDS Reimbursement, TLC

CONSTANTS p1, p2, i1, i2, i3, t1, t2, b1, b2, a1, a2, k1, s1, s2

Reports == {p1, p2}
Items == {i1, i2, i3}
Transactions == {t1, t2}
Batches == {b1, b2}
Approvers == {a1, a2}
Keys == {k1}
TwoSlots == {s1, s2}
Amounts == {1, 2}
AnyOne == {<<Open>>}
OneThenOther == {<<a1, a2>>}
SomePolicies == AnyOne \cup OneThenOther

\* The workloads on `counts` reports, entries, transactions and batches, of
\* which `started` reports have an entry when they begin, and are in `state`.
Work(ops, counts, started, state, policies, versions) ==
    UNION {{[ops |-> ops, rows |-> R \cup I \cup T \cup B, policies |-> policies,
             versions |-> versions, state |-> state, entry |-> f] :
               f \in UNION {Injection(S, I) : S \in kSubset(started, R)}} :
           R \in kSubset(counts[1], Reports), I \in kSubset(counts[2], Items),
           T \in kSubset(counts[3], Transactions), B \in kSubset(counts[4], Batches)}

Claims    == Work({"create", "from_txn", "match", "unmatch", "remove"}, <<2, 3, 2, 0>>, 0, "draft", {}, 1)
Adding    == Work({"add", "from_txn"}, <<1, 3, 1, 0>>, 1, "draft", {}, 1)
Amending  == Work({"add", "edit", "from_txn"}, <<1, 2, 1, 0>>, 1, "draft", {}, 1)
Editing   == Work({"replace", "from_txn"}, <<1, 3, 1, 0>>, 1, "draft", {}, 1)
Matches   == Work({"replace", "from_txn", "match", "unmatch"}, <<1, 3, 2, 0>>, 1, "draft", {}, 1)
Filing    == Work({"create", "delete", "from_txn", "submit", "withdraw"}, <<1, 2, 1, 0>>, 0, "draft",
                  AnyOne, 1)
Approvals == Work({"submit", "withdraw", "decide"}, <<1, 1, 0, 0>>, 1, "draft", SomePolicies, 3)
Routing   == Work({"submit", "decide", "reassign"}, <<1, 1, 0, 0>>, 1, "draft", OneThenOther, 3)
Revising  == Work({"edit", "submit", "decide", "batch", "pay"}, <<1, 1, 0, 1>>, 1, "draft", AnyOne, 3)
Recalling == Work({"submit", "withdraw", "decide", "batch", "pay"}, <<1, 1, 0, 1>>, 1, "draft", AnyOne, 2)
Settling  == Work({"submit", "withdraw", "decide", "mark", "reimburse"}, <<1, 1, 0, 0>>, 1, "draft",
                  AnyOne, 4)
Batching  == Work({"mark", "reimburse", "batch", "pay", "cancel"}, <<2, 2, 0, 2>>, 2, "approved", {}, 4)
Discarding == Work({"delete", "submit", "decide", "batch", "cancel"}, <<1, 1, 0, 1>>, 1, "draft", AnyOne, 2)
Exporting == Work({"batch", "pay", "cancel", "export"}, <<1, 1, 0, 2>>, 1, "approved", {}, 2)

EveryWorkload ==
    Claims \cup Adding \cup Amending \cup Editing \cup Matches \cup Filing \cup Approvals \cup Routing
    \cup Revising \cup Recalling \cup Settling \cup Batching \cup Discarding \cup Exporting

\* Every set of workloads is closed under these permutations.
Interchangeable ==
    Permutations(Slot) \cup Permutations(Report) \cup Permutations(Item)
    \cup Permutations(Txn) \cup Permutations(Batch)
=============================================================================
