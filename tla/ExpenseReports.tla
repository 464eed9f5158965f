---------------------------- MODULE ExpenseReports ----------------------------
(***************************************************************************)
(* Expense reports: the entries and bank transactions they are made of,    *)
(* their submission, and the chain of approvers that decides them.         *)
(*                                                                         *)
(* A request loads rows, checks them, and later commits the columns it     *)
(* changed.  It locks some rows when it loads them (SELECT ... FOR UPDATE) *)
(* and reads others without a lock.  A refused request is no step.  One    *)
(* employee and one currency; every row has a `state`, "absent" if it does *)
(* not exist.                                                              *)
(***************************************************************************)
EXTENDS Integers, Sequences, FiniteSets, FiniteSetsExt

CONSTANTS
    Report, Item, Txn, Batch,  \* row ids of reports, entries, bank transactions and payout batches
    Approver,      \* the designated expense approvers; none of them is the employee
    Admin,         \* the one of them who is a platform administrator
    Membership,    \* the row of the employee's membership
    Slot,          \* requests in flight, at most one per slot
    Key,           \* the idempotency keys of create_report
    Amount,        \* bound: the amounts of entries
    TxnAmount,     \* the amount of a bank transaction
    Policies,      \* the chains of approvers a policy may ask for; Open: any of them
    MaxSteps,      \* bound: the approvers in a chain
    MaxGen,        \* bound: the chains of a report that rows or requests still know
    MaxVersion,    \* bound: the decisions on a report, plus one
    Workloads,     \* bound: what the clients of a behaviour use, and start from
    Open, NoKey, NoTxn, NoItem, NoReport, NoBatch, NoRequest

\* A step of an approval chain has a place in it.
Places == 1 .. MaxSteps
Step == Report \X Places

ASSUME ExpensesAssumption ==
    /\ Amount \subseteq Nat \ {0} /\ TxnAmount \in Amount
    /\ Admin \in Approver /\ Open \notin Approver
    /\ NoKey \notin Key /\ NoTxn \notin Txn /\ NoItem \notin Item
    /\ NoReport \notin Report /\ NoBatch \notin Batch
    /\ MaxSteps \in Nat \ {0} /\ MaxGen \in Nat \ {0} /\ MaxVersion \in Nat \ {0, 1}
    /\ IsFiniteSet(Item)

\* No row is in two tables.
ASSUME TablesAssumption ==
    /\ \A x \in Report : x \notin Item \cup Txn \cup Batch \cup Step
    /\ \A x \in Item   : x \notin Txn \cup Batch \cup Step
    /\ \A x \in Txn    : x \notin Batch \cup Step
    /\ \A x \in Batch  : x \notin Step
    /\ Membership \notin Report \cup Item \cup Txn \cup Batch \cup Step

\* A chain has a first step; the reports that exist at the start have an entry
\* each.
ASSUME WorkloadsAssumption ==
    /\ \A p \in Policies : /\ 1 \in DOMAIN p /\ DOMAIN p \subseteq Places
                           /\ \A n \in DOMAIN p : p[n] \in Approver \cup {Open}
    /\ \A w \in Workloads :
          /\ w.policies \subseteq Policies
          /\ w.versions \in 1 .. MaxVersion
          /\ w.state \in {"draft", "approved"}
          /\ DOMAIN w.entry \subseteq Report
          /\ \A r \in DOMAIN w.entry : w.entry[r] \in Item
          /\ \A r, e \in DOMAIN w.entry : w.entry[r] = w.entry[e] => r = e

VARIABLES
    row,      \* row[x]: the rows of all tables
    payouts,  \* payouts[r]: history: the payments of report r, with their batch and amount
    decided,  \* decided[r]: history: how many decisions on report r were committed
    req,      \* req[s]: the request in slot s, between its load and its commit
    raced,    \* history: which operation changed which report from a read no longer current
    work      \* the workload: the operations, row ids and policies used, the initial rows

vars == <<row, payouts, decided, req, raced, work>>

\* Mutant: a rejected report may be revised and submitted again.
EditableOnceRejected == {"draft", "returned", "rejected"}

Editable == {"draft", "returned"}
InApproval == {"submitted", "partially_approved"}
States == Editable \cup InApproval \cup
          {"approved", "rejected", "marked_for_reimbursement", "reimbursed"}

ReportRow == [state   : States \cup {"absent"},
              binned  : BOOLEAN,
              total   : Nat,
              eur     : Nat,                 \* total_eur, stamped by submit; 0: not yet
              version : 1 .. MaxVersion,
              batch   : Batch \cup {NoBatch},
              key     : Key \cup {NoKey}]    \* of the command that created it

ItemRow == [state : {"absent", "present"}, report : Report \cup {NoReport},
            amount : Nat, ref : Txn \cup {NoTxn}]    \* bank_reference

TxnRow == [state : {"available", "assigned", "binned"}, item : Item \cup {NoItem}]

\* `gen` tells the steps of successive chains apart.
StepRow == [state : {"absent", "pending", "approved", "rejected", "skipped"},
            who : Approver \cup {Open}, gen : 0 .. MaxGen]

NewReport == [state |-> "draft", binned |-> FALSE, total |-> 0, eur |-> 0, version |-> 1,
              batch |-> NoBatch, key |-> NoKey]
NoneReport == [NewReport EXCEPT !.state = "absent"]
NoneItem == [state |-> "absent", report |-> NoReport, amount |-> 0, ref |-> NoTxn]
NoneStep == [state |-> "absent", who |-> Open, gen |-> 0]

----------------------------------------------------------------------------
(* Requests. *)

Busy(s) == req[s] # NoRequest

\* SELECT ... FOR UPDATE waits while another request holds the row.
Free(x) == \A t \in Slot : Busy(t) => x \notin req[t].locks

\* A row id no request is about to insert.
Fresh(x) == row[x].state = "absent" /\ \A t \in Slot : Busy(t) => x \notin DOMAIN req[t].new

\* The rows of f, and those of g that f does not have.
Over(f, g) == [x \in DOMAIN f \cup DOMAIN g |-> IF x \in DOMAIN f THEN f[x] ELSE g[x]]

Only(x, r) == [y \in {x} |-> r]
Nothing == [x \in {} |-> NoneStep]

\* A request that holds `locks` and leaves `new` in place of the rows it loaded.
Request(op, locks, new) ==
    [op |-> op, locks |-> locks, seen |-> [x \in DOMAIN new |-> row[x]], new |-> new]

Begin(s, q) ==
    /\ q.op \in work.ops
    /\ ~Busy(s)
    /\ \A x \in q.locks : Free(x)
    /\ q.new # q.seen
    /\ req' = [req EXCEPT ![s] = q]
    /\ UNCHANGED <<row, payouts, decided, raced, work>>

\* Whether a request inserts, deletes or replaces row x.
Whole(q, x) ==
    \/ "absent" \in {q.seen[x].state, q.new[x].state}
    \/ x \in Step /\ q.new[x].gen # q.seen[x].gen

\* The ORM's DELETE of a step that is gone finds nothing, and only warns; a step
\* that has taken its place stays.
Missed(q, x) == x \in Step /\ q.new[x].state = "absent" /\ row[x].gen # q.seen[x].gen

\* The ORM writes a whole row, or the columns that differ from the loaded ones.
Flush(q, x) ==
    IF Missed(q, x) THEN row[x]
    ELSE IF Whole(q, x) THEN q.new[x]
    ELSE [c \in DOMAIN row[x] |-> IF q.new[x][c] = q.seen[x][c] THEN row[x][c] ELSE q.new[x][c]]

Written(q) == {x \in DOMAIN q.new : q.new[x] # q.seen[x]}

\* An UPDATE of a row that is gone (StaleDataError), or an INSERT of a step at a
\* place that is taken (uq_expense_approval_steps_seq): only the rollback is left.
Conflict(q) ==
    \E x \in Written(q) :
        \/ ~Whole(q, x) /\ row[x].state = "absent"
        \/ /\ x \in Step /\ q.new[x].state # "absent"
           /\ row[x].state # "absent" /\ row[x].gen # q.seen[x].gen

\* The unique key of an employee's commands (uq_expense_command_identity).
KeyClash(q) ==
    \E r \in Written(q) \cap Report, e \in Report :
        q.seen[r].state = "absent" /\ q.new[r].key # NoKey /\ row[e].key = q.new[r].key

\* The report a stale row belongs to.
Of(q, x) == IF x \in Item THEN q.seen[x].report ELSE IF x \in Step THEN x[1] ELSE x

Decisions == {"decide", "mark", "reimburse"}

\* A submission and a withdrawal read the approval chain after the report.
ChainRead(q) == q.op \in {"submit", "withdraw"} => DOMAIN q.new \cap Step # {}

\* Commit: an UPDATE waits for the requests that hold the row.  A deleted entry
\* is cleared from the transaction that named it (ON DELETE SET NULL).
Commit(s) ==
    LET q == req[s]
        deleted == {x \in Written(q) \cap Item : q.new[x].state = "absent"}
        cleared == {t \in Txn : row[t].item \in deleted}
    IN
    /\ Busy(s) /\ ChainRead(q)
    /\ \A t \in Slot \ {s} : Busy(t) => (Written(q) \cup cleared) \cap req[t].locks = {}
    /\ ~Conflict(q) /\ ~KeyClash(q)
    /\ row' = [x \in DOMAIN row |->
                 IF x \in DOMAIN q.new THEN Flush(q, x)
                 ELSE IF x \in cleared THEN [row[x] EXCEPT !.item = NoItem] ELSE row[x]]
    /\ payouts' = [r \in Report |->
                     IF q.op = "pay" /\ r \in DOMAIN q.new
                     THEN Append(payouts[r], [batch |-> q.seen[r].batch, eur |-> q.seen[r].eur])
                     ELSE payouts[r]]
    /\ decided' = [r \in Report |-> decided[r] + IF q.op \in Decisions /\ r \in DOMAIN q.new
                                                 THEN 1 ELSE 0]
    /\ raced' = raced \cup {<<q.op, Of(q, x)>> :
                              x \in {y \in DOMAIN q.new \ q.locks : row[y] # q.seen[y]}}
    /\ req' = [req EXCEPT ![s] = NoRequest]
    /\ UNCHANGED work

\* The request fails, or its client goes away: its transaction is rolled back.
Rollback(s) ==
    /\ Busy(s)
    /\ req' = [req EXCEPT ![s] = NoRequest]
    /\ UNCHANGED <<row, payouts, decided, raced, work>>

----------------------------------------------------------------------------
(* Reports and their entries. *)

ItemsOf(r) == {i \in Item : row[i].state = "present" /\ row[i].report = r}

Entry(r, amount, t) == [state |-> "present", report |-> r, amount |-> amount, ref |-> t]

Assigned(i) == [state |-> "assigned", item |-> i]

\* _require_owner_editable, of a report that is not in the bin.
OwnerEditable(r) == ~row[r].binned /\ row[r].state \in Editable

\* Report `base` with the entries `changed` (and, for a reader, all it has), its
\* total computed again (compute_totals).
WithItems(r, base, changed) ==
    LET items == Over(changed, [i \in ItemsOf(r) |-> row[i]])
        total == MapThenSumSet(LAMBDA i : items[i].amount, DOMAIN items)
    IN Over(Only(r, [base EXCEPT !.total = total]), items)

\* add_item, update_item and the items of update_report load the report without
\* a lock.
LoadAdd(s, r, i, amount) ==
    /\ OwnerEditable(r)
    /\ Fresh(i)
    /\ Begin(s, Request("add", {}, WithItems(r, row[r], Only(i, Entry(r, amount, NoTxn)))))

LoadEdit(s, r, i, amount) ==
    /\ OwnerEditable(r)
    /\ i \in ItemsOf(r)
    /\ Begin(s, Request("edit", {},
                    WithItems(r, row[r], Only(i, [row[i] EXCEPT !.amount = amount]))))

LoadReplace(s, r, i, amount) ==
    /\ OwnerEditable(r)
    /\ Fresh(i)
    /\ Begin(s, Request("replace", {}, WithItems(r, row[r],
                    Over(Only(i, Entry(r, amount, NoTxn)), [j \in ItemsOf(r) |-> NoneItem]))))

\* Mutant: the transaction is loaded without a lock.
InboxLocksReport(r, t) == {r}

InboxLocks(r, t) == {r, t}

\* add_item_from_transaction.
LoadFromTxn(s, r, i, t) ==
    /\ OwnerEditable(r)
    /\ Fresh(i)
    /\ row[t].state = "available"
    /\ Begin(s, Request("from_txn", InboxLocks(r, t),
                    Over(WithItems(r, row[r], Only(i, Entry(r, TxnAmount, t))), Only(t, Assigned(i)))))

\* match_item: of the same amount; an entry matched before is matched again.
LoadMatch(s, r, i, t) ==
    /\ OwnerEditable(r)
    /\ i \in ItemsOf(r)
    /\ row[t].state = "available"
    /\ row[i].amount = TxnAmount
    /\ Begin(s, Request("match", InboxLocks(r, t),
                    Over(Only(i, [row[i] EXCEPT !.ref = t]), Only(t, Assigned(i)))))

\* unmatch_item frees one transaction that names the entry.
LoadUnmatch(s, r, i) ==
    LET named == {t \in Txn : row[t].item = i}
        freed == [state |-> "available", item |-> NoItem]
        unmatched == Only(i, [row[i] EXCEPT !.ref = NoTxn])
    IN
    /\ OwnerEditable(r)
    /\ i \in ItemsOf(r)
    /\ \/ named = {} /\ Begin(s, Request("unmatch", {r}, unmatched))
       \/ \E t \in named :
             Begin(s, Request("unmatch", InboxLocks(r, t), Over(unmatched, Only(t, freed))))

\* Mutant: the membership is read without a lock.
ActorUnlocked == {}

\* lock_actor.
ActorLocks == {Membership}

\* create_report, with one entry of its own or of a transaction.  It locks the
\* membership, and looks the key up; a key already used returns its report.
LoadCreate(s, r, key, i, amount, t) ==
    /\ Fresh(r) /\ Fresh(i)
    /\ key # NoKey => \A e \in Report : row[e].key # key
    /\ \/ t = NoTxn
       \/ key # NoKey /\ t \in Txn /\ amount = TxnAmount /\ row[t].state = "available"
    /\ Begin(s, Request("create", ActorLocks \cup (IF t = NoTxn THEN {} ELSE {t}),
                    Over(WithItems(r, [NewReport EXCEPT !.key = key], Only(i, Entry(r, amount, t))),
                         [u \in {t} \ {NoTxn} |-> Assigned(i)])))

\* remove_transaction, to the bin.
LoadRemove(s, t) ==
    /\ row[t].state = "available" /\ row[t].item = NoItem
    /\ Begin(s, Request("remove", ActorLocks \cup {t}, Only(t, [row[t] EXCEPT !.state = "binned"])))

\* delete_report, to the bin.
LoadDelete(s, r) ==
    /\ ~row[r].binned /\ row[r].state = "draft"
    /\ Begin(s, Request("delete", {}, Only(r, [row[r] EXCEPT !.binned = TRUE])))

----------------------------------------------------------------------------
(* Submission and approval. *)

StepsOf(r) == {x \in Step : x[1] = r /\ row[x].state # "absent"}
Pending(r) == {x \in StepsOf(r) : row[x].state = "pending"}

\* total_eur of a submission.
Stamp(r) == row[r].total

\* submit_report loads the report without a lock, and does not move its version.
LoadSubmit(s, r) ==
    /\ OwnerEditable(r)
    /\ ItemsOf(r) # {}
    /\ Begin(s, Request("submit", {}, Only(r, [row[r] EXCEPT !.state = "submitted", !.eur = Stamp(r)])))

\* withdraw_report, without a lock.
LoadWithdraw(s, r) ==
    /\ ~row[r].binned /\ row[r].state = "submitted"
    /\ Begin(s, Request("withdraw", {}, Only(r, [row[r] EXCEPT !.state = "draft"])))

\* build_chain, in place of every step of an older chain (delete_chain).
Chain(r, policy, gen) ==
    [x \in {r} \X Places |->
       IF x[2] \in DOMAIN policy THEN [state |-> "pending", who |-> policy[x[2]], gen |-> gen]
       ELSE NoneStep]

\* delete_chain, of a withdrawal.
NoChain(r) == [x \in {r} \X Places |-> NoneStep]

\* The request with `steps` in place of those it now reads.
WithSteps(q, steps) ==
    [op |-> q.op, locks |-> q.locks,
     seen |-> Over(q.seen, [x \in DOMAIN steps |-> row[x]]), new |-> Over(q.new, steps)]

\* Later, the request `op` on report r reads the chain (steps_for).
ReadChain(s, op, r, steps) ==
    /\ Busy(s) /\ req[s].op = op /\ DOMAIN req[s].new = {r}
    /\ req' = [req EXCEPT ![s] = WithSteps(@, steps)]
    /\ UNCHANGED <<row, payouts, decided, raced, work>>

\* No step of report r, nor any a request knows, is of chain `gen`.
FreshGen(r, gen) ==
    /\ \A x \in StepsOf(r) : row[x].gen # gen
    /\ \A t \in Slot : Busy(t) => \A x \in Step \cap DOMAIN req[t].new :
                                      gen \notin {req[t].seen[x].gen, req[t].new[x].gen}

ReadForSubmit(s, r, policy, gen) ==
    /\ FreshGen(r, gen)
    /\ \A h \in 1 .. gen - 1 : ~FreshGen(r, h)
    /\ ReadChain(s, "submit", r, Chain(r, policy, gen))

ReadForWithdraw(s, r) == ReadChain(s, "withdraw", r, NoChain(r))

\* pending_step, and is_assigned_approver.
Assignee(r, x, a) ==
    /\ x \in Pending(r)
    /\ \A y \in Pending(r) : x[2] <= y[2]
    /\ row[x].who \in {Open, a} \/ a = Admin

\* chain_state.
ChainState(states) ==
    IF "rejected" \in states THEN "rejected"
    ELSE IF "pending" \notin states THEN "approved"
    ELSE IF "approved" \in states THEN "partially_approved" ELSE "submitted"

\* Mutant: the report is loaded without a lock.
DecideUnlocked(r) == {}

DecideLocks(r) == {r}

\* A decision holds the report's lock and moves its version: `state` and the
\* steps are what it leaves behind.
Decision(s, op, r, state, steps) ==
    /\ ~row[r].binned
    /\ row[r].version < work.versions
    /\ Begin(s, Request(op, DecideLocks(r),
                        Over(Only(r, [row[r] EXCEPT !.state = state, !.version = @ + 1]), steps)))

StepStates(r, x, state) == {state} \cup {row[y].state : y \in StepsOf(r) \ {x}}

\* decide: approve, reject or return_for_correction, at the current step.
LoadDecide(s, r, a, verdict) ==
    \E x \in Pending(r) :
        LET to(state) == Only(x, [row[x] EXCEPT !.state = state])
            skipped   == [y \in Pending(r) |-> [row[y] EXCEPT !.state = "skipped"]]
        IN
        /\ row[r].state \in InApproval
        /\ Assignee(r, x, a)
        /\ CASE verdict = "approve" ->
                  Decision(s, "decide", r, ChainState(StepStates(r, x, "approved")), to("approved"))
             [] verdict = "reject" ->
                  Decision(s, "decide", r, "rejected", Over(to("rejected"), skipped))
             [] verdict = "return" ->
                  Decision(s, "decide", r, "returned", skipped)

\* decide: mark_for_reimbursement, and mark_reimbursed.
LoadProgress(s, r) ==
    \/ row[r].state = "approved" /\ Decision(s, "mark", r, "marked_for_reimbursement", Nothing)
    \/ row[r].state \in {"approved", "marked_for_reimbursement"}
       /\ Decision(s, "reimburse", r, "reimbursed", Nothing)

\* reassign_step, without a lock.
LoadReassign(s, r, x, a) ==
    /\ ~row[r].binned /\ row[r].state \in InApproval
    /\ x \in Pending(r)
    /\ Begin(s, Request("reassign", {}, Only(x, [row[x] EXCEPT !.who = a])))

----------------------------------------------------------------------------
Claiming(s) ==
    \E r \in Report \cap work.rows :
        \/ \E i \in Item \cap work.rows :
             \/ \E amount \in Amount :
                  \/ LoadAdd(s, r, i, amount) \/ LoadEdit(s, r, i, amount) \/ LoadReplace(s, r, i, amount)
                  \/ \E key \in Key \cup {NoKey}, t \in (Txn \cap work.rows) \cup {NoTxn} :
                       LoadCreate(s, r, key, i, amount, t)
             \/ \E t \in Txn \cap work.rows : LoadFromTxn(s, r, i, t) \/ LoadMatch(s, r, i, t)
             \/ LoadUnmatch(s, r, i)
        \/ LoadDelete(s, r)

Deciding(s) ==
    \E r \in Report \cap work.rows :
        \/ LoadSubmit(s, r) \/ LoadWithdraw(s, r)
        \/ \E policy \in work.policies, gen \in 1 .. MaxGen : ReadForSubmit(s, r, policy, gen)
        \/ ReadForWithdraw(s, r)
        \/ \E a \in Approver, verdict \in {"approve", "reject", "return"} : LoadDecide(s, r, a, verdict)
        \/ LoadProgress(s, r)
        \/ \E x \in Step, a \in Approver : LoadReassign(s, r, x, a)

----------------------------------------------------------------------------
(* Properties. *)

Unraced(ops, r) == \A op \in ops : <<op, r>> \notin raced

\* A retried create_report finds the outcome of the first (lock_actor, then
\* expense_commands.lookup): no request in flight is about to insert a key that
\* another report has, so a retry that overlaps the first attempt, or follows it,
\* is answered with its report and never fails on the unique key.
RetryFindsOutcome == \A s \in Slot : Busy(s) => ~KeyClash(req[s])

\* A bank transaction backs at most one entry (`available` under FOR UPDATE): the
\* entry that refers to it is the one it is assigned to, however reports are
\* created, matched, unmatched and rebuilt at the same time - the same card
\* payment is never claimed twice.
OneEntryPerTransaction ==
    \A i \in Item, t \in Txn :
        row[i].state = "present" /\ row[i].ref = t => row[t] = Assigned(i)

\* The total of a report is the sum of its entries (compute_totals), whatever
\* overlaps an entry taken from the inbox - unless an operation that loads the
\* report without a lock overlapped another change of its entries.
TotalMatchesItems ==
    \A r \in Report : Unraced({"add", "edit", "replace"}, r) =>
        row[r].total = MapThenSumSet(LAMBDA i : row[i].amount, ItemsOf(r))

\* The entries of reports that change at the same time stay consistent with the
\* bank's transactions and with the totals (`available`, compute_totals): no
\* transaction is claimed twice, and no entry is missing from a total.
EntriesSound == OneEntryPerTransaction /\ TotalMatchesItems

\* A submission or a withdrawal of the report, neither of which locks it,
\* overlapped another change of it or of its chain.
Recalled(r) == ~Unraced({"submit", "withdraw"}, r)

\* The status of a report is what its approval chain says (chain_state), and its
\* steps are those of one submission: a report in approval, rejected or returned
\* is so by its own chain, whatever overlapped; nothing is approved or paid with a
\* step open or rejected, and no chain is left on a draft - unless the report was
\* submitted or withdrawn from a read no longer current.
StatusFollowsChain ==
    \A r \in Report :
        LET state == row[r].state
            steps == {row[x].state : x \in StepsOf(r)}
        IN
        /\ state \in InApproval \cup {"rejected"} =>
             steps # {} /\ ChainState(steps) = state
        /\ state \in {"approved", "marked_for_reimbursement", "reimbursed"} /\ ~Recalled(r)
             => steps = {"approved"}
        /\ state = "draft" /\ ~Recalled(r) => steps = {}
        /\ state = "returned" => "pending" \notin steps
        /\ \A x, y \in StepsOf(r) : row[x].gen = row[y].gen

\* One decision per version of a report (the lock and the version check of
\* decide): of two decisions on the same step at the same time one fails, so the
\* version counts the decisions.
OneDecisionPerVersion == \A r \in Report : row[r].version = 1 + decided[r]

\* A decision is made once, by the rules of the chain, and the report is where
\* its chain is (decide, chain_state), whatever the decision overlaps.
DecisionsSound == StatusFollowsChain /\ OneDecisionPerVersion

\* A report that was rejected or reimbursed stays so (expense_state.TERMINAL) -
\* unless a submission or a withdrawal, which do not lock the report, overlapped
\* another change of it.
DecidedStaysDecided ==
    [][\A r \in Report :
          row[r].state \in {"rejected", "reimbursed"} /\ ~Recalled(r)'
          => row'[r].state = row[r].state]_vars

\* What the code's words say without the exception: no transition leaves a
\* terminal state (TERMINAL), and a withdrawn report has no chain (withdraw_report).
\* Both fail where submissions and withdrawals overlap decisions (README, findings).
TerminalIsFinal ==
    [][\A r \in Report : row[r].state \in {"rejected", "reimbursed"} => row'[r].state = row[r].state]_vars
DraftHasNoChain == \A r \in Report : row[r].state = "draft" => StepsOf(r) = {}
=============================================================================
