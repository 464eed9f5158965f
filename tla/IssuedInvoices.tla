--------------------------- MODULE IssuedInvoices ---------------------------
(***************************************************************************)
(* The invoices a workspace issues: drafts, their lifecycle, the gap-free  *)
(* numbers, and the schedule that issues an invoice per period.            *)
(*                                                                         *)
(* A request loads rows, checks them, and later commits the columns it     *)
(* changed.  It locks some rows when it loads them (SELECT ... FOR UPDATE) *)
(* and reads others without a lock.  A refused request is no step.         *)
(***************************************************************************)
EXTENDS Integers, Sequences, FiniteSets

CONSTANTS
    Doc,           \* identifiers of invoices; most are not in use at first
    Issuer,        \* the row of the legal entity, which counts the numbers
    Schedule,      \* the row of the recurring schedule
    Slot,          \* requests in flight, at most one per slot
    Key,           \* the idempotency keys clients send
    Amount,        \* bound: the totals of invoices, in cents
    MaxPeriod,     \* bound: the periods that fall due
    CatchUpCap,    \* _CATCHUP_CAP: the periods a sweep emits at most
    Workloads,     \* bound: what the clients of a behaviour use, and start from
    NoKey, NoRequest

ASSUME IssuedAssumption ==
    /\ Issuer # Schedule /\ {Issuer, Schedule} \cap Doc = {}
    /\ NoKey \notin Key
    /\ Amount \subseteq Nat \ {0} /\ Amount # {}
    /\ MaxPeriod \in Nat /\ CatchUpCap \in Nat \ {0}

\* Clients use keys of their own; every invoice issued at first is another row.
ASSUME WorkloadAssumption ==
    \A w \in Workloads :
        /\ w.keys \subseteq Key
        /\ w.issued \in Seq(Doc)
        /\ \A i, j \in DOMAIN w.issued : w.issued[i] = w.issued[j] => i = j

VARIABLES
    row,      \* row[x]: the row of every table that is updated in place
    ledger,   \* payments: the append-only entries behind amount_paid
    notes,    \* the credit notes, in the order of their numbers
    today,    \* the period that fell due last
    req,      \* req[s]: the request in slot s, between its load and its commit
    raced,    \* history: which operation wrote which row from a read that was no longer current
    work      \* the workload: the operations, row ids and keys used, the invoices issued before

vars == <<row, ledger, notes, today, req, raced, work>>

Lifecycle == {"draft", "approved", "issued", "disputed", "written_off", "cancelled"}

DocRow == [life     : Lifecycle \cup {"absent"},
           number   : Nat,            \* 0: none yet
           total    : Nat,
           paid     : Int,            \* amount_paid
           credited : Nat,            \* credited_total
           voided   : BOOLEAN,
           period   : Nat,            \* recurring_period; 0: not from the schedule
           key      : Key \cup {NoKey}]

NoDoc == [life |-> "absent", number |-> 0, total |-> 0, paid |-> 0, credited |-> 0,
          voided |-> FALSE, period |-> 0, key |-> NoKey]

IssuerRow == [next : Nat \ {0}, nextCredit : Nat \ {0}]
ScheduleRow == [next : Nat \ {0}, active : BOOLEAN]

Docs == {d \in Doc : row[d].life # "absent"}

----------------------------------------------------------------------------
(* Requests. *)

Busy(s) == req[s] # NoRequest

\* SELECT ... FOR UPDATE waits while another request holds the row.
Free(x) == \A t \in Slot : Busy(t) => x \notin req[t].locks

Rows(S) == [x \in S |-> row[x]]

\* A request that holds `locks` and has loaded the rows `seen`; it will leave
\* `new` in their place and append the entries and credit notes given.
Request(op, locks, new, entries, credits) ==
    [op |-> op, locks |-> locks, seen |-> Rows(DOMAIN new), new |-> new,
     entries |-> entries, credits |-> credits]

Begin(s, q) ==
    /\ q.op \in work.ops
    /\ ~Busy(s)
    /\ \A x \in q.locks : Free(x)
    /\ req' = [req EXCEPT ![s] = q]
    /\ UNCHANGED <<row, ledger, notes, today, raced, work>>

\* A row id no request is about to insert.
Fresh(d) == row[d].life = "absent" /\ \A t \in Slot : Busy(t) => d \notin DOMAIN req[t].new

\* The ORM writes the columns that differ from the loaded ones.
Flush(current, seen, new) ==
    [c \in DOMAIN current |-> IF new[c] = seen[c] THEN current[c] ELSE new[c]]

CreateKeys == {row[d].key : d \in Docs} \cup {notes[k].key : k \in DOMAIN notes}
PaymentKeys == {ledger[k].key : k \in DOMAIN ledger}

\* The rows a request adds or renumbers.
Renumbered(q) == {d \in DOMAIN q.new \cap Doc : q.new[d].number # q.seen[d].number}
Inserted(q) == {d \in DOMAIN q.new \cap Doc : q.seen[d].life = "absent"}

NumberClash(q) ==
    \E d \in Renumbered(q), e \in Docs : e # d /\ row[e].number = q.new[d].number
PeriodClash(q) ==
    \E d \in Inserted(q), e \in Docs : q.new[d].period # 0 /\ row[e].period = q.new[d].period

KeyClash(q) ==
    \/ \E d \in Inserted(q) : q.new[d].key # NoKey /\ q.new[d].key \in CreateKeys
    \/ \E k \in DOMAIN q.credits : q.credits[k].key \in CreateKeys
    \/ \E k \in DOMAIN q.entries : q.entries[k].key # NoKey /\ q.entries[k].key \in PaymentKeys

\* A sweep that has read the schedule and waits for the issuer's lock.
Waiting(s) == req[s].op = "sweep" /\ req[s].locks = {}

\* Commit: an UPDATE waits for the requests that hold the row; a violated
\* unique constraint leaves only the rollback.
Commit(s) ==
    LET q == req[s]
        written == {x \in DOMAIN q.new : q.new[x] # q.seen[x]}
    IN
    /\ Busy(s) /\ ~Waiting(s)
    /\ \A t \in Slot \ {s} : Busy(t) => written \cap req[t].locks = {}
    /\ ~NumberClash(q) /\ ~PeriodClash(q) /\ ~KeyClash(q)
    /\ row' = [x \in DOMAIN row |->
                 IF x \in DOMAIN q.new THEN Flush(row[x], q.seen[x], q.new[x]) ELSE row[x]]
    /\ ledger' = ledger \o q.entries
    /\ notes' = notes \o q.credits
    /\ raced' = raced \cup {<<q.op, x>> : x \in {y \in written \ q.locks : row[y] # q.seen[y]}}
    /\ req' = [req EXCEPT ![s] = NoRequest]
    /\ UNCHANGED <<today, work>>

\* The request fails, or its client goes away: its transaction is rolled back.
Rollback(s) ==
    /\ Busy(s)
    /\ req' = [req EXCEPT ![s] = NoRequest]
    /\ UNCHANGED <<row, ledger, notes, today, raced, work>>

----------------------------------------------------------------------------
(* The lifecycle. *)

\* issued_lifecycle._TRANSITIONS: where an action is legal, and where it leads.
Transition ==
    [approve   |-> [from |-> {"draft"},              to |-> "approved"],
     issue     |-> [from |-> {"draft", "approved"},  to |-> "issued"],
     dispute   |-> [from |-> {"issued"},             to |-> "disputed"],
     undispute |-> [from |-> {"disputed"},           to |-> "issued"],
     write_off |-> [from |-> {"issued", "disputed"}, to |-> "written_off"],
     cancel    |-> [from |-> {"draft", "approved"},  to |-> "cancelled"]]

\* target_for, of the row as the request read it.
Legal(action, d) == row[d].life \in Transition[action].from
Moved(action, d) == [row[d] EXCEPT !.life = Transition[action].to]

\* A lifecycle action whose route loads the invoice without a lock.
LoadMove(s, action, d) ==
    /\ Legal(action, d)
    /\ Begin(s, Request(action, {}, [x \in {d} |-> Moved(action, x)], <<>>, <<>>))

\* The issuer's row after one number has been drawn.
Drawn(count) == [row[Issuer] EXCEPT !.next = @ + count]

Draft(total, key) == [NoDoc EXCEPT !.life = "draft", !.total = total, !.key = key]

\* create_issued of a draft, which has no number; a key already used returns the
\* invoice it made.
LoadDraft(s, d, total, key) ==
    /\ Fresh(d)
    /\ key # NoKey => key \notin CreateKeys
    /\ Begin(s, Request("draft", {}, [x \in {d} |-> Draft(total, key)], <<>>, <<>>))

\* create_issued of an invoice born final, numbered under the issuer's lock.
LoadCreate(s, d, total, key) ==
    /\ Fresh(d)
    /\ key # NoKey => key \notin CreateKeys
    /\ Begin(s, Request("create", {Issuer},
         [x \in {d, Issuer} |->
            IF x = d THEN [Draft(total, key) EXCEPT !.life = "issued", !.number = row[Issuer].next]
            ELSE Drawn(1)], <<>>, <<>>))

\* Mutant: an approved or issued invoice may still be edited.
EditableOnceIssued == {"draft", "approved", "issued"}

\* EDITABLE.
Editable == {"draft"}

\* edit_draft: new contents and totals; the lifecycle is not among them.
LoadEdit(s, d, total) ==
    /\ row[d].life \in Editable
    /\ Begin(s, Request("edit", {}, [x \in {d} |-> [row[x] EXCEPT !.total = total]], <<>>, <<>>))

\* Mutant: the counter is read without its lock.
IssueLocksInvoiceOnly(d) == {d}

\* _issue_draft locks the invoice, then its issuer.
IssueLocks(d) == {d, Issuer}

LoadIssue(s, d) ==
    /\ Legal("issue", d)
    /\ Begin(s, Request("issue", IssueLocks(d),
         [x \in {d, Issuer} |->
            IF x = d THEN [Moved("issue", d) EXCEPT !.number = row[Issuer].next]
            ELSE Drawn(1)], <<>>, <<>>))

\* duplicate_invoice: a fresh draft with the contents of any invoice.
LoadDuplicate(s, d, copy) ==
    /\ d \in Docs
    /\ Fresh(copy)
    /\ Begin(s, Request("duplicate", {}, [x \in {copy} |-> Draft(row[d].total, NoKey)], <<>>, <<>>))

----------------------------------------------------------------------------
(* The recurring schedule. *)

\* A period falls due.
Tick ==
    /\ "sweep" \in work.ops
    /\ today < MaxPeriod
    /\ today' = today + 1
    /\ UNCHANGED <<row, ledger, notes, req, raced, work>>

\* generate_due reads the schedule first, without a lock ...
LoadSweep(s) ==
    /\ row[Schedule].active
    /\ row[Schedule].next <= today
    /\ Begin(s, Request("sweep", {}, [x \in {Schedule} |->
                    [row[x] EXCEPT !.next = IF today < @ + CatchUpCap THEN today + 1
                                            ELSE @ + CatchUpCap]], <<>>, <<>>))

\* The periods with no invoice yet.
Missing(periods) == {p \in periods : \A d \in Docs : row[d].period # p}

\* ... then waits for the issuer, and issues one invoice per missing period.
\* `place` gives each of them its row id.
Generate(s, place) ==
    LET due == Missing(req[s].seen[Schedule].next .. req[s].new[Schedule].next - 1)
        Before(p) == Cardinality({q \in due : q < p})
        at(d) == CHOOSE p \in due : place[p] = d
        total == CHOOSE a \in Amount : TRUE
    IN
    /\ Busy(s) /\ Waiting(s)
    /\ Free(Issuer)
    /\ DOMAIN place = due
    /\ \A p, q \in due : p # q => place[p] # place[q]
    /\ \A p \in due : Fresh(place[p])
    /\ LET made == {place[p] : p \in due}
           new  == [x \in made \cup {Issuer, Schedule} |->
                      CASE x = Issuer   -> Drawn(Cardinality(due))
                        [] x = Schedule -> req[s].new[x]
                        [] OTHER        -> [NoDoc EXCEPT !.life = "issued", !.total = total,
                                              !.number = row[Issuer].next + Before(at(x)),
                                              !.period = at(x)]]
           seen == [x \in DOMAIN new |-> IF x = Schedule THEN req[s].seen[x] ELSE row[x]]
       IN req' = [req EXCEPT ![s] =
                    [req[s] EXCEPT !.locks = {Issuer}, !.seen = seen, !.new = new]]
    /\ UNCHANGED <<row, ledger, notes, today, raced, work>>

\* update_schedule: the next date may be set, and the schedule paused.
LoadReschedule(s, next, active) ==
    /\ Begin(s, Request("reschedule", {},
                        [x \in {Schedule} |-> [next |-> next, active |-> active]], <<>>, <<>>))

----------------------------------------------------------------------------
Issuing(s) ==
    \/ \E d \in Doc \cap work.rows :
         \/ \E total \in Amount :
              \/ \E key \in work.keys \cup {NoKey} : LoadDraft(s, d, total, key) \/ LoadCreate(s, d, total, key)
              \/ LoadEdit(s, d, total)
         \/ LoadMove(s, "approve", d)
         \/ LoadMove(s, "cancel", d)
         \/ LoadIssue(s, d)
         \/ \E copy \in Doc \cap work.rows : LoadDuplicate(s, d, copy)
    \/ LoadSweep(s)
    \/ \E P \in SUBSET (1 .. MaxPeriod) : \E place \in [P -> Doc \cap work.rows] : Generate(s, place)
    \/ \E next \in 1 .. MaxPeriod, active \in BOOLEAN : LoadReschedule(s, next, active)

----------------------------------------------------------------------------
(* Properties. *)

\* No request in flight is about to insert an invoice number or a recurring
\* period that another row already has (issuer.lock, the `already` check of
\* generate_due): the unique constraints behind them never fail a legal
\* document at the moment it is issued, however requests and sweeps overlap and
\* wherever the schedule is set back to.
NeverCollides == \A s \in Slot : Busy(s) => ~NumberClash(req[s]) /\ ~PeriodClash(req[s])

\* The series is gap-free (issuer.lock, issue_draft): every number drawn is held
\* by exactly one invoice, across failed requests, duplicates, sweeps and
\* cancellations - unless an approval or a cancellation, which load the invoice
\* without a lock, overlapped its issue and took it back to a state from which
\* it draws a second number.
GapFree ==
    (\A d \in Doc : <<"approve", d>> \notin raced /\ <<"cancel", d>> \notin raced) =>
        \A n \in 1 .. row[Issuer].next - 1 : Cardinality({d \in Docs : row[d].number = n}) = 1

\* A retried command has one effect (issued_commands, payment_commands): no two
\* invoices or credit notes, and no two payments, carry the same key.
OneEffectPerKey ==
    /\ \A d, e \in Docs : d # e /\ row[d].key # NoKey => row[d].key # row[e].key
    /\ \A j, k \in DOMAIN notes : j # k => notes[j].key # notes[k].key
    /\ \A d \in Docs, k \in DOMAIN notes : row[d].key # notes[k].key
    /\ \A j, k \in DOMAIN ledger : j # k /\ ledger[j].key # NoKey => ledger[j].key # ledger[k].key
\* The legal series is sound: each number and period is drawn once, no number is
\* missing, and a command draws once (issuer.lock, issue_draft, generate_due).
Numbering == NeverCollides /\ GapFree /\ OneEffectPerKey

\* An issued invoice is immutable (edit_draft): once numbered, its number and its
\* total never change, nor does it go back to a draft - with the same exception,
\* and that of an edit that overlapped the issue.
IssuedIsImmutable ==
    [][\A d \in Doc :
          /\ row[d].number # 0
          /\ \A op \in {"approve", "cancel", "edit"} : <<op, d>> \notin raced'
          => /\ row'[d].number = row[d].number
             /\ row'[d].total = row[d].total
             /\ row'[d].life \notin {"draft", "approved", "cancelled"}]_vars
=============================================================================
