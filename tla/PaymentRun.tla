----------------------------- MODULE PaymentRun -----------------------------
(***************************************************************************)
(* Paying suppliers: payment runs (create, approve, pay, cancel, export a  *)
(* bank file), single payments, and the ledger of supplier payments.       *)
(*                                                                         *)
(* An API request is one transaction: it loads rows and checks them (Load  *)
(* actions), then flushes the columns it changed and commits (Commit).  A  *)
(* run is loaded FOR UPDATE, so requests on one run exclude each other; an *)
(* invoice is loaded without a lock.  A request refused by a check has no  *)
(* effect and is no step.  The `version` a client must echo to approve or  *)
(* pay moves with the run's status, so a stale one is a wrong status here. *)
(***************************************************************************)
EXTENDS Integers, FiniteSets, InvoiceWorkflow

CONSTANTS
    Invoice, Run,
    User, Admin,   \* the people; Admin: the platform administrators among them
    Slot,          \* requests in flight, at most one per slot
    Total,         \* the amounts an invoice may be for
    Ops,           \* bound: the kinds of request that are issued
    Target,        \* bound: the states the generic transition is sent to
    MaxRecords,    \* bound: single payments recorded per invoice
    MaxExports,    \* bound: bank files per run
    Overlap,       \* whether requests overlap
    NoRun, NoUser, NoRequest

Op == {"create", "approve", "pay", "cancel", "export", "record", "move", "edit"}

ASSUME PaymentAssumption ==
    /\ Admin \subseteq User
    /\ Total \subseteq Nat \ {0}
    /\ Ops \subseteq Op
    /\ Target \subseteq WorkflowState
    /\ MaxRecords \in Nat /\ MaxExports \in Nat
    /\ Overlap \in BOOLEAN
    /\ NoRun \notin Run /\ NoUser \notin User

VARIABLES
    inv,      \* the invoices table
    run,      \* the payment_runs table
    ledger,   \* per invoice: the sum of its entries, and how many of each origin
    held,     \* vendors (one per invoice) with a pending bank-detail change
    req       \* req[s]: the request in slot s, between its load and its commit

vars == <<inv, run, ledger, held, req>>

InvoiceRow == [state : WorkflowState, total : Total, paid : Nat, run : Run \cup {NoRun}]

RunRow == [status   : {"absent", "open", "approved", "paid", "cancelled"},
           creator  : User \cup {NoUser},
           approver : User \cup {NoUser},
           payer    : User \cup {NoUser},       \* of the audit trail
           override : SUBSET {"approve", "pay"},  \* audited SoD overrides
           exports  : Nat]

NoRunRow == [status |-> "absent", creator |-> NoUser, approver |-> NoUser,
             payer |-> NoUser, override |-> {}, exports |-> 0]

----------------------------------------------------------------------------
(* Requests. *)

Busy(s) == req[s] # NoRequest

\* Mutant: the run is loaded without a lock; its id is still its own.
FreeForAll(r) == run[r].status = "absent" => \A s \in Slot : Busy(s) => req[s].run # r

\* SELECT ... FOR UPDATE: a request waits for the one that holds the run.
Free(r) == \A s \in Slot : Busy(s) => req[s].run # r

MayBegin(s) == ~Busy(s) /\ (Overlap \/ \A t \in Slot : ~Busy(t))

\* A request that has loaded the invoices `seen`, has r locked, and will leave
\* `new` and the run row `changes` in their place.
Begin(s, op, r, seen, new, changes) ==
    /\ op \in Ops
    /\ MayBegin(s)
    /\ req' = [req EXCEPT ![s] =
                 [run |-> r, changes |-> changes, seen |-> seen, new |-> new]]
    /\ UNCHANGED <<inv, run, ledger, held>>

Rows(S) == [i \in S |-> inv[i]]

LinkedTo(r) == {i \in Invoice : inv[i].run = r}

\* Mutant: the approver may pay.
CreatorOnly(r, u, includeApprover) == u = run[r].creator

\* _sod_conflict: the roles that u already has on the run.
SodConflict(r, u, includeApprover) ==
    u = run[r].creator \/ (includeApprover /\ u = run[r].approver)

\* _enforce_sod: a platform administrator may override explicitly, which is
\* written to the audit trail.
Overrides(r, u, stage, includeApprover) ==
    IF SodConflict(r, u, includeApprover) THEN run[r].override \cup {stage} ELSE run[r].override

SodPasses(r, u, includeApprover) ==
    SodConflict(r, u, includeApprover) => u \in Admin

----------------------------------------------------------------------------
(* Payment runs. *)

\* Mutant: a creation that trusts the payable pool it was offered.
Scheduled(i) == inv[i].state = "scheduled_for_payment"

\* An invoice a run may take.
Selectable(i) == inv[i].state = "scheduled_for_payment" /\ inv[i].run = NoRun

\* create_run: every invoice scheduled, in no run, its vendor payable.
LoadCreate(s, u, r, S) ==
    /\ run[r].status = "absent"
    /\ Free(r)
    /\ S # {}
    /\ S \cap held = {}
    /\ \A i \in S : Selectable(i)
    /\ Begin(s, "create", r, Rows(S), [i \in S |-> [inv[i] EXCEPT !.run = r]],
             [run[r] EXCEPT !.status = "open", !.creator = u])

LoadApprove(s, u, r) ==
    /\ Free(r)
    /\ run[r].status = "open"
    /\ SodPasses(r, u, FALSE)
    /\ Begin(s, "approve", r, Rows({}), Rows({}),
             [run[r] EXCEPT !.status = "approved", !.approver = u,
                            !.override = Overrides(r, u, "approve", FALSE)])

\* mark_paid: every invoice of the run must still be allowed to become paid;
\* one that is not refuses the whole payment.
LoadPay(s, u, r) ==
    LET S == LinkedTo(r) IN
    /\ Free(r)
    /\ run[r].status = "approved"
    /\ SodPasses(r, u, TRUE)
    /\ S # {}
    /\ S \cap held = {}
    /\ \A i \in S : CanTransition(inv[i].state, "paid")
    /\ Begin(s, "pay", r, Rows(S),
             [i \in S |-> [inv[i] EXCEPT !.state = "paid", !.paid = inv[i].total]],
             [run[r] EXCEPT !.status = "paid", !.payer = u,
                            !.override = Overrides(r, u, "pay", TRUE)])

\* Mutant: a cancellation that leaves the invoices already partly paid linked.
StillScheduled(r) == {i \in LinkedTo(r) : inv[i].state = "scheduled_for_payment"}

\* The invoices a cancelled run gives back.
Unlinked(r) == LinkedTo(r)

LoadCancel(s, r) ==
    LET S == Unlinked(r) IN
    /\ Free(r)
    /\ run[r].status \in {"open", "approved"}
    /\ Begin(s, "cancel", r, Rows(S), [i \in S |-> [inv[i] EXCEPT !.run = NoRun]],
             [run[r] EXCEPT !.status = "cancelled"])

\* assert_exportable, then record_export.  A second file needs confirm_reexport,
\* which is the client's to give.
LoadExport(s, r, confirm) ==
    /\ Free(r)
    /\ run[r].status \in {"approved", "paid"}
    /\ run[r].exports > 0 => confirm
    /\ run[r].exports < MaxExports
    /\ Begin(s, "export", r, Rows({}), Rows({}), [run[r] EXCEPT !.exports = @ + 1])

----------------------------------------------------------------------------
(* Single payments and the invoice's own lifecycle. *)

\* Where a payment recorded up to `amount` takes the invoice.
Settled(row, amount) ==
    IF amount = row.total THEN "paid"
    ELSE IF amount > 0 THEN "partially_paid"
    ELSE row.state

\* record_supplier_payment: the new cumulative amount, at most the total.
LoadRecord(s, i, amount) ==
    /\ inv[i].state \in Payable
    /\ amount \in 0 .. inv[i].total
    /\ ledger[i].from[NoRun] < MaxRecords
    /\ Begin(s, "record", NoRun, Rows({i}),
             [k \in {i} |-> [inv[k] EXCEPT !.paid = amount, !.state = Settled(inv[k], amount)]],
             NoRunRow)

\* The generic transition route; it leaves the amounts and the run link alone.
LoadMove(s, i, target) ==
    /\ CanTransition(inv[i].state, target)
    /\ Begin(s, "move", NoRun, Rows({i}), [k \in {i} |-> [inv[k] EXCEPT !.state = target]],
             NoRunRow)

\* edit_lines: new totals for an editable invoice.
LoadEdit(s, i, total) ==
    /\ inv[i].state \in Editable
    /\ Begin(s, "edit", NoRun, Rows({i}), [k \in {i} |-> [inv[k] EXCEPT !.total = total]],
             NoRunRow)

\* A vendor's protected bank details get, and lose, a pending change request.
Hold(i) == held' = held \cup {i} /\ i \notin held /\ UNCHANGED <<inv, run, ledger, req>>
Release(i) == held' = held \ {i} /\ i \in held /\ UNCHANGED <<inv, run, ledger, req>>

----------------------------------------------------------------------------
(* Commit. *)

\* The ORM writes the columns that differ from the loaded ones.
Flush(row, seen, new) ==
    [state |-> IF new.state = seen.state THEN row.state ELSE new.state,
     total |-> IF new.total = seen.total THEN row.total ELSE new.total,
     paid  |-> IF new.paid  = seen.paid  THEN row.paid  ELSE new.paid,
     run   |-> IF new.run   = seen.run   THEN row.run   ELSE new.run]

\* Mutant: the entry records the new cumulative amount.
Cumulative(seen, new) == IF new.paid = seen.paid THEN 0 ELSE new.paid

\* set_cumulative: the signed entry that takes the loaded amount to the new one.
Delta(seen, new) == new.paid - seen.paid

Enter(entries, origin, delta) ==
    IF delta = 0 THEN entries
    ELSE [sum |-> entries.sum + delta, from |-> [entries.from EXCEPT ![origin] = @ + 1]]

Commit(s) ==
    LET q == req[s]
        touched == DOMAIN q.seen
    IN
    /\ Busy(s)
    /\ inv' = [i \in Invoice |->
                 IF i \in touched THEN Flush(inv[i], q.seen[i], q.new[i]) ELSE inv[i]]
    /\ ledger' = [i \in Invoice |->
                 IF i \in touched THEN Enter(ledger[i], q.run, Delta(q.seen[i], q.new[i]))
                                  ELSE ledger[i]]
    /\ run' = IF q.run = NoRun THEN run ELSE [run EXCEPT ![q.run] = q.changes]
    /\ req' = [req EXCEPT ![s] = NoRequest]
    /\ UNCHANGED held

\* The request fails after its checks: its transaction is rolled back.
Rollback(s) ==
    /\ Busy(s)
    /\ req' = [req EXCEPT ![s] = NoRequest]
    /\ UNCHANGED <<inv, run, ledger, held>>

----------------------------------------------------------------------------
\* An invoice enters this component approved and unpaid.
Init ==
    /\ inv \in [Invoice -> [state : {"approved"}, total : Total, paid : {0}, run : {NoRun}]]
    /\ run = [r \in Run |-> NoRunRow]
    /\ ledger = [i \in Invoice |-> [sum |-> 0, from |-> [o \in Run \cup {NoRun} |-> 0]]]
    /\ held = {}
    /\ req = [s \in Slot |-> NoRequest]

RunRequest(s, r) ==
    \/ \E u \in User :
         \/ \E S \in SUBSET Invoice : LoadCreate(s, u, r, S)
         \/ LoadApprove(s, u, r)
         \/ LoadPay(s, u, r)
    \/ LoadCancel(s, r)
    \/ \E confirm \in BOOLEAN : LoadExport(s, r, confirm)

InvoiceRequest(s, i) ==
    \/ \E amount \in 0 .. inv[i].total : LoadRecord(s, i, amount)
    \/ \E target \in Target : LoadMove(s, i, target)
    \/ \E total \in Total : LoadEdit(s, i, total)

Next ==
    \/ \E s \in Slot :
         \/ \E r \in Run : RunRequest(s, r)
         \/ \E i \in Invoice : InvoiceRequest(s, i)
         \/ Commit(s) \/ Rollback(s)
    \/ \E i \in Invoice : Hold(i) \/ Release(i)

Spec == Init /\ [][Next]_vars

----------------------------------------------------------------------------
(* Properties. *)

\* The type invariant: rows and requests in flight are well formed.
TypeOK ==
    /\ inv \in [Invoice -> InvoiceRow]
    /\ run \in [Run -> RunRow]
    /\ ledger \in [Invoice -> [sum : Int, from : [Run \cup {NoRun} -> Nat]]]
    /\ held \subseteq Invoice
    /\ \A s \in Slot : Busy(s) =>
         \E S \in SUBSET Invoice :
            req[s] \in [run : Run \cup {NoRun}, changes : RunRow,
                       seen : [S -> InvoiceRow], new : [S -> InvoiceRow]]

\* Maker, checker and payer of a run are different people (_enforce_sod): a run
\* that was approved, exported or paid was approved by somebody other than its
\* creator, and paid by a third, unless a platform administrator overrode that
\* in the audit trail.
MakerChecker ==
    \A r \in Run :
        LET row == run[r] IN
        /\ row.status \in {"approved", "paid"} \/ row.exports > 0 =>
             /\ row.approver # NoUser
             /\ \/ row.approver # row.creator
                \/ "approve" \in row.override /\ row.approver \in Admin
        /\ row.status = "paid" =>
             \/ row.payer \notin {row.creator, row.approver}
             \/ "pay" \in row.override /\ row.payer \in Admin

\* A run settles each of its invoices at most once, and only a paid run has
\* settled any, however the requests on it overlap (the FOR UPDATE load).
SettledOnce ==
    \A r \in Run, i \in Invoice :
        /\ ledger[i].from[r] <= 1
        /\ ledger[i].from[r] = 1 => run[r].status = "paid"

\* A cancelled run gives every one of its invoices back to the payable pool:
\* no invoice is linked to a run that can never pay it.
NoneStranded ==
    \A i \in Invoice :
        inv[i].run # NoRun => run[inv[i].run].status \in {"open", "approved", "paid"}

\* A paid or cancelled run is over: nothing but its count of bank files moves,
\* also when a payment and a cancellation of it race.
RunIsFinal ==
    [][\A r \in Run : run[r].status \in {"paid", "cancelled"} =>
          run'[r] = [run[r] EXCEPT !.exports = run'[r].exports]]_vars

\* The cached amount_paid of an invoice is the sum of its ledger entries: what
\* ap_payments promises and verify_ledger checks.
LedgerMatches == \A i \in Invoice : ledger[i].sum = inv[i].paid

\* A settlement stays traceable: an invoice that a run has settled is linked to
\* that run for good, so no second run ever pays it, whatever dispute,
\* correction or re-scheduling it goes through afterwards.
SettlementTraceable ==
    \A i \in Invoice, r \in Run :
        ledger[i].from[r] > 0 => inv[i].run = r /\ run[r].status = "paid"
=============================================================================
