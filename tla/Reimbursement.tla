---------------------------- MODULE Reimbursement ----------------------------
(***************************************************************************)
(* The payout batches that reimburse approved expense reports.             *)
(***************************************************************************)
EXTENDS ExpenseReports

CONSTANTS
    MaxExports,  \* bound: the bank files made of a batch
    NoOne

ASSUME ReimbursementAssumption == MaxExports \in Nat /\ NoOne \notin Approver

\* The members who handle batches are taken from Approver.
BatchRow == [state : {"absent", "open", "paid", "cancelled"},
             creator : Approver \cup {NoOne}, exports : 0 .. MaxExports]

NoneBatch == [state |-> "absent", creator |-> NoOne, exports |-> 0]

\* batch_reports.
ReportsIn(b) == {r \in Report : ~row[r].binned /\ row[r].batch = b}

\* create_batch reads the reports without a lock.
LoadBatch(s, b, R, who) ==
    /\ Fresh(b)
    /\ R # {}
    /\ \A r \in R : /\ ~row[r].binned
                    /\ row[r].state \in {"approved", "marked_for_reimbursement"}
                    /\ row[r].batch = NoBatch
    /\ Begin(s, Request("batch", {},
         Over(Only(b, [NoneBatch EXCEPT !.state = "open", !.creator = who]),
              [r \in R |-> [row[r] EXCEPT !.batch = b]])))

\* Mutant: the batch is loaded without a lock.
BatchUnlocked(b) == {}

BatchLocks(b) == {b}

\* pay_batch: another member than its creator, or a platform administrator who
\* overrides that.  The status of the reports is not looked at again.
LoadPay(s, b, who) ==
    /\ row[b].state = "open"
    /\ who # row[b].creator \/ who = Admin
    /\ ReportsIn(b) # {}
    /\ Begin(s, Request("pay", BatchLocks(b),
         Over(Only(b, [row[b] EXCEPT !.state = "paid"]),
              [r \in ReportsIn(b) |-> [row[r] EXCEPT !.state = "reimbursed"]])))

\* The reports of a cancelled batch return to the payable pool.
Unlinked(b) == [r \in ReportsIn(b) |-> [row[r] EXCEPT !.batch = NoBatch]]

\* cancel_batch.
LoadCancel(s, b) ==
    /\ row[b].state = "open"
    /\ Begin(s, Request("cancel", BatchLocks(b),
         Over(Only(b, [row[b] EXCEPT !.state = "cancelled"]), Unlinked(b))))

\* export_batch and export_batch_sepa: a second file needs a confirmation.
LoadExport(s, b, confirmed) ==
    /\ row[b].state \in {"open", "paid"}
    /\ row[b].exports > 0 => confirmed
    /\ row[b].exports < MaxExports
    /\ Begin(s, Request("export", BatchLocks(b), Only(b, [row[b] EXCEPT !.exports = @ + 1])))

Paying(s) ==
    \E b \in Batch \cap work.rows :
        \/ \E R \in SUBSET (Report \cap work.rows), who \in Approver : LoadBatch(s, b, R, who)
        \/ \E who \in Approver : LoadPay(s, b, who)
        \/ LoadCancel(s, b)
        \/ \E confirmed \in BOOLEAN : LoadExport(s, b, confirmed)

----------------------------------------------------------------------------
\* The reports of a workload that exist when it begins have an entry of their
\* own; the approved ones an approved step.
Init ==
    /\ work \in Workloads
    /\ LET started == DOMAIN work.entry
           holder(i) == CHOOSE r \in started : work.entry[r] = i
           approved == work.state = "approved"
       IN row = [x \in Report \cup Item \cup Txn \cup Batch \cup Step |->
            CASE x \in Txn   -> [state |-> "available", item |-> NoItem]
              [] x \in Batch -> NoneBatch
              [] x \in Item  -> IF \E r \in started : work.entry[r] = x
                                THEN Entry(holder(x), 1, NoTxn) ELSE NoneItem
              [] x \in Step  -> IF approved /\ x[1] \in started /\ x[2] = 1
                                THEN [state |-> "approved", who |-> Open, gen |-> 1] ELSE NoneStep
              [] OTHER -> IF x \notin started THEN NoneReport
                          ELSE IF approved
                          THEN [NewReport EXCEPT !.state = "approved", !.version = 2,
                                                 !.total = 1, !.eur = 1]
                          ELSE [NewReport EXCEPT !.total = 1]]
    /\ payouts = [r \in Report |-> <<>>]
    /\ decided = [r \in Report |-> row[r].version - 1]
    /\ req = [s \in Slot |-> NoRequest]
    /\ raced = {}

Next ==
    \E s \in Slot :
        \/ Claiming(s) \/ Deciding(s) \/ Paying(s)
        \/ \E t \in Txn \cap work.rows : LoadRemove(s, t)
        \/ Commit(s) \/ Rollback(s)

Spec == Init /\ [][Next]_vars

----------------------------------------------------------------------------
(* Properties. *)

\* The type invariant: the rows, requests and payments are well formed.
TypeOK ==
    /\ \A r \in Report : row[r] \in ReportRow
    /\ \A i \in Item : row[i] \in ItemRow
    /\ \A t \in Txn : row[t] \in TxnRow
    /\ \A x \in Step : row[x] \in StepRow
    /\ \A b \in Batch : row[b] \in BatchRow
    /\ \A r \in Report : payouts[r] \in Seq([batch : Batch, eur : Nat \ {0}])
    /\ \A s \in Slot : Busy(s) =>
         /\ req[s].locks \subseteq DOMAIN row \cup {Membership}
         /\ DOMAIN req[s].new \subseteq DOMAIN row

\* No report is paid out twice (the lock of pay_batch and cancel_batch): neither
\* by two payments of its batch, nor by the payment of a batch another request
\* cancels while its reports go into a new one - unless two creations, which do
\* not lock the reports, overlapped.
PaidOnce == \A r \in Report : Unraced({"batch"}, r) => Len(payouts[r]) <= 1

\* A batch that was paid keeps the reports it paid, and no report is left in a
\* cancelled batch, where nobody could pay it (cancel_batch) - with the same
\* exception, and another: a deletion, a submission and a withdrawal do not lock the
\* report, so one that overlapped another change of it may bin a report that a
\* batch holds.
NoneStranded ==
    \A r \in Report :
        /\ row[r].batch # NoBatch /\ Unraced({"delete", "submit", "withdraw"}, r) =>
              row[row[r].batch].state \in {"open", "paid"}
        /\ Unraced({"batch"}, r) => \A k \in DOMAIN payouts[r] :
              row[r].batch = payouts[r][k].batch /\ row[row[r].batch].state = "paid"

\* What is paid for a report is what its approvers saw (submit_report stamps
\* total_eur; edits need a draft or returned report): from its submission on, the
\* amount that will be paid is its total - unless an operation that loads the
\* report without a lock overlapped another change of it.
PaidAsApproved ==
    \A r \in Report : Unraced({"add", "edit", "replace", "submit", "withdraw"}, r) =>
        /\ row[r].state \notin Editable \cup {"absent"} => row[r].eur = row[r].total
        /\ \A k \in DOMAIN payouts[r] : payouts[r][k].eur = row[r].total

\* Every row is well formed, and batches pay each of their reports once, pay what
\* was approved, and leave none behind (create_batch, pay_batch, cancel_batch),
\* however the requests on them overlap.
BatchesSound == TypeOK /\ PaidOnce /\ NoneStranded /\ PaidAsApproved
=============================================================================
