-------------------------- MODULE PaymentRunProofs --------------------------
(***************************************************************************)
(* What TLAPS proves of PaymentRun for any invoices, runs, people, amounts *)
(* and requests in flight.                                                 *)
(*                                                                         *)
(* The run's own guarantees hold however requests overlap, because its row *)
(* is locked from the load to the commit.  The ledger's hold when requests *)
(* do not overlap (Serial): two overlapping recordings of a payment on one *)
(* invoice leave its cached amount and its entries apart.                  *)
(***************************************************************************)
EXTENDS PaymentRun, TLAPS

Serial == ~Overlap

Request(S) == [run : Run \cup {NoRun}, changes : RunRow,
               seen : [S -> InvoiceRow], new : [S -> InvoiceRow]]

\* The moves of a run's row, as its five requests make them.
Opened(a, b) ==
    \E u \in User : a.status = "absent" /\ b = [a EXCEPT !.status = "open", !.creator = u]

Approved(a, b) ==
    \E u \in User :
        /\ a.status = "open"
        /\ u = a.creator => u \in Admin
        /\ b = [a EXCEPT !.status = "approved", !.approver = u,
                  !.override = IF u = a.creator THEN a.override \cup {"approve"} ELSE a.override]

PaidBy(a, b) ==
    \E u \in User :
        /\ a.status = "approved"
        /\ u = a.creator \/ u = a.approver => u \in Admin
        /\ b = [a EXCEPT !.status = "paid", !.payer = u,
                  !.override = IF u = a.creator \/ u = a.approver
                                 THEN a.override \cup {"pay"} ELSE a.override]

Cancelled(a, b) == a.status \in {"open", "approved"} /\ b = [a EXCEPT !.status = "cancelled"]

Exported(a, b) == a.status \in {"approved", "paid"} /\ b = [a EXCEPT !.exports = @ + 1]

RunStep(a, b) == Opened(a, b) \/ Approved(a, b) \/ PaidBy(a, b) \/ Cancelled(a, b) \/ Exported(a, b)

\* What MakerChecker says of one row, and that no file precedes the approval.
RowOK(row) ==
    /\ row.status \in {"approved", "paid"} \/ row.exports > 0 =>
         /\ row.approver # NoUser
         /\ \/ row.approver # row.creator
            \/ "approve" \in row.override /\ row.approver \in Admin
    /\ row.status = "paid" =>
         \/ row.payer \notin {row.creator, row.approver}
         \/ "pay" \in row.override /\ row.payer \in Admin
    /\ row.status \in {"absent", "open"} => row.exports = 0

RowInv == \A r \in Run : RowOK(run[r])

\* req is a function on the slots.
ReqFunction == req = [s \in Slot |-> req[s]]

\* Requests in flight on one run: at most one, the holder of its lock.
LockInv ==
    \A s, t \in Slot :
        Busy(s) /\ Busy(t) /\ req[s].run = req[t].run /\ req[s].run # NoRun => s = t

\* What a request in flight will do is still sound: its run is as it loaded it,
\* only a payment moves amounts and only of invoices linked to its run, links
\* are set by a creation alone, and a cancellation has loaded every invoice
\* that is linked to its run now.
MovesRun(q) == q.run \in Run => RunStep(run[q.run], q.changes)

MovesPaid(q) ==
    \A i \in DOMAIN q.seen : q.new[i].paid # q.seen[i].paid /\ q.run \in Run =>
        /\ run[q.run].status = "approved"
        /\ q.changes.status = "paid"
        /\ q.seen[i].run = q.run
        /\ q.new[i].run = q.run

MovesLink(q) ==
    \A i \in DOMAIN q.seen : q.new[i].run # q.seen[i].run =>
        /\ q.run \in Run
        /\ \/ /\ q.seen[i].run = NoRun
              /\ q.new[i].run = q.run
              /\ q.changes.status = "open"
           \/ /\ q.seen[i].run = q.run
              /\ q.new[i].run = NoRun
              /\ q.changes.status = "cancelled"

FreesAll(q) ==
    q.run \in Run /\ q.changes.status = "cancelled" =>
        \A i \in Invoice : inv[i].run = q.run =>
            /\ i \in DOMAIN q.seen
            /\ q.seen[i].run = q.run
            /\ q.new[i].run = NoRun

Sound(q) == MovesRun(q) /\ MovesPaid(q) /\ MovesLink(q) /\ FreesAll(q)

ReqInv == \A s \in Slot : Busy(s) => Sound(req[s])

Shape == TypeOK /\ ReqFunction

Inv == Shape /\ LockInv /\ ReqInv /\ RowInv /\ SettledOnce /\ NoneStranded

\* When requests do not overlap, the one in flight has loaded what is there.
Fresh(q) == \A i \in DOMAIN q.seen : q.seen[i] = inv[i]

SerialInv ==
    /\ \A s, t \in Slot : Busy(s) /\ Busy(t) => s = t
    /\ \A s \in Slot : Busy(s) => Fresh(req[s])
    /\ LedgerMatches
    /\ SettlementTraceable

\* The common part of the Load actions.
Begun(s, q) ==
    /\ MayBegin(s)
    /\ q.run \in Run => Free(q.run)
    /\ req' = [req EXCEPT ![s] = q]
    /\ UNCHANGED <<inv, run, ledger, held>>

Loads(s) == \E S \in SUBSET Invoice : \E q \in Request(S) : Begun(s, q) /\ Sound(q) /\ Fresh(q)

----------------------------------------------------------------------------
(* Rows. *)

\* Every request keeps maker, checker and payer apart.
LEMMA RowStep ==
    ASSUME NEW a \in RunRow, NEW b \in RunRow, RowOK(a), RunStep(a, b)
    PROVE  RowOK(b)
<1>1. CASE Opened(a, b)
  BY <1>1 DEF Opened, RowOK, RunRow
<1>2. CASE Approved(a, b)
  BY <1>2, PaymentAssumption DEF Approved, RowOK, RunRow
<1>3. CASE PaidBy(a, b)
  BY <1>3, PaymentAssumption DEF PaidBy, RowOK, RunRow
<1>4. CASE Cancelled(a, b)
  BY <1>4 DEF Cancelled, RowOK, RunRow
<1>5. CASE Exported(a, b)
  BY <1>5 DEF Exported, RowOK, RunRow
<1> QED BY <1>1, <1>2, <1>3, <1>4, <1>5 DEF RunStep

\* Where the status of a run may go.
LEMMA StatusStep ==
    ASSUME NEW a \in RunRow, NEW b \in RunRow, RunStep(a, b)
    PROVE  /\ a.status \in {"paid", "cancelled"} => b = [a EXCEPT !.exports = b.exports]
           /\ a.status = "paid" => b.status = "paid"
           /\ a.status \in {"open", "approved", "paid"} =>
                b.status \in {"open", "approved", "paid", "cancelled"}
           /\ b.status = "cancelled" => a.status \in {"open", "approved"}
BY DEF RunStep, Opened, Approved, PaidBy, Cancelled, Exported, RunRow

\* The writes of a flush: the changed columns, and nothing else.
LEMMA FlushType ==
    ASSUME NEW row \in InvoiceRow, NEW seen \in InvoiceRow, NEW new \in InvoiceRow
    PROVE  /\ Flush(row, seen, new) \in InvoiceRow
           /\ Flush(row, seen, new).run =
                IF new.run = seen.run THEN row.run ELSE new.run
           /\ Flush(row, seen, new).paid =
                IF new.paid = seen.paid THEN row.paid ELSE new.paid
BY DEF Flush, InvoiceRow

----------------------------------------------------------------------------
(* Every request that begins is sound. *)

LEMMA RowTypes ==
    ASSUME Shape
    PROVE  /\ \A i \in Invoice : inv[i] \in InvoiceRow
           /\ \A r \in Run : run[r] \in RunRow
BY DEF Shape, TypeOK

\* What a Load action must show of the request it issues.
LEMMA Issue ==
    ASSUME Shape, NEW s \in Slot, NEW r \in Run \cup {NoRun}, NEW S \in SUBSET Invoice,
           NEW changes \in RunRow, NEW new \in [S -> InvoiceRow], NEW op,
           Begin(s, op, r, Rows(S), new, changes),
           r \in Run => Free(r) /\ RunStep(run[r], changes),
           \A i \in S : new[i].paid # inv[i].paid /\ r \in Run =>
              /\ run[r].status = "approved" /\ changes.status = "paid"
              /\ inv[i].run = r /\ new[i].run = r,
           \A i \in S : new[i].run # inv[i].run =>
              /\ r \in Run
              /\ \/ inv[i].run = NoRun /\ new[i].run = r /\ changes.status = "open"
                 \/ inv[i].run = r /\ new[i].run = NoRun /\ changes.status = "cancelled",
           r \in Run /\ changes.status = "cancelled" =>
              \A i \in Invoice : inv[i].run = r => i \in S /\ new[i].run = NoRun
    PROVE  Loads(s)
<1> DEFINE q == [run |-> r, changes |-> changes, seen |-> Rows(S), new |-> new]
<1>1. q \in Request(S)
  <2>1. Rows(S) \in [S -> InvoiceRow]
    BY RowTypes DEF Rows
  <2> QED BY <2>1 DEF Request
<1>2. Begun(s, q)
  BY DEF Begin, Begun
<1>3. Fresh(q)
  BY DEF Fresh, Rows
<1>4. MovesRun(q)
  BY DEF MovesRun
<1>5. MovesPaid(q)
  BY DEF MovesPaid, Rows
<1>6. MovesLink(q)
  BY DEF MovesLink, Rows
<1>7. FreesAll(q)
  BY DEF FreesAll, Rows
<1> QED BY <1>1, <1>2, <1>3, <1>4, <1>5, <1>6, <1>7 DEF Loads, Sound

LEMMA CreateLoads ==
    ASSUME Shape, NEW s \in Slot, NEW u \in User, NEW r \in Run, NEW S \in SUBSET Invoice,
           LoadCreate(s, u, r, S)
    PROVE  Loads(s)
<1> DEFINE changes == [run[r] EXCEPT !.status = "open", !.creator = u]
           new == [i \in S |-> [inv[i] EXCEPT !.run = r]]
<1>1. changes \in RunRow /\ changes.status = "open"
  BY RowTypes DEF RunRow
<1>2. \A i \in S : /\ new[i] \in InvoiceRow
                   /\ new[i].paid = inv[i].paid /\ new[i].run = r
                   /\ inv[i].run = NoRun
  BY RowTypes DEF InvoiceRow, LoadCreate, Selectable
<1>3. new \in [S -> InvoiceRow]
  BY <1>2
<1>4. Free(r) /\ RunStep(run[r], changes)
  BY DEF LoadCreate, RunStep, Opened
<1>5. Begin(s, "create", r, Rows(S), new, changes)
  BY DEF LoadCreate
<1> HIDE DEF changes, new
<1> QED BY <1>1, <1>2, <1>3, <1>4, <1>5, Issue

LEMMA ApproveLoads ==
    ASSUME Shape, NEW s \in Slot, NEW u \in User, NEW r \in Run, LoadApprove(s, u, r)
    PROVE  Loads(s)
<1> DEFINE over == Overrides(r, u, "approve", FALSE)
           changes == [run[r] EXCEPT !.status = "approved", !.approver = u, !.override = over]
<1>1. over = IF u = run[r].creator THEN run[r].override \cup {"approve"} ELSE run[r].override
  BY DEF Overrides, SodConflict
<1>2. over \in SUBSET {"approve", "pay"}
  BY <1>1, RowTypes DEF RunRow
<1>3. RunStep(run[r], changes)
  BY <1>1 DEF RunStep, Approved, LoadApprove, SodPasses, SodConflict
<1>4. Begin(s, "approve", r, Rows({}), Rows({}), changes) /\ Free(r)
  BY DEF LoadApprove
<1> HIDE DEF over
<1>5. changes \in RunRow /\ changes.status = "approved"
  BY <1>2, RowTypes DEF RunRow
<1>6. Rows({}) \in [{} -> InvoiceRow]
  BY DEF Rows
<1> HIDE DEF changes
<1> QED BY <1>3, <1>4, <1>5, <1>6, Issue

LEMMA PayLoads ==
    ASSUME Shape, NEW s \in Slot, NEW u \in User, NEW r \in Run, LoadPay(s, u, r)
    PROVE  Loads(s)
<1> DEFINE over == Overrides(r, u, "pay", TRUE)
           S == LinkedTo(r)
           changes == [run[r] EXCEPT !.status = "paid", !.payer = u, !.override = over]
           new == [i \in S |-> [inv[i] EXCEPT !.state = "paid", !.paid = inv[i].total]]
<1>1. over = IF u = run[r].creator \/ u = run[r].approver
               THEN run[r].override \cup {"pay"} ELSE run[r].override
  BY DEF Overrides, SodConflict
<1>2. over \in SUBSET {"approve", "pay"}
  BY <1>1, RowTypes DEF RunRow
<1>3. RunStep(run[r], changes) /\ run[r].status = "approved"
  BY <1>1 DEF RunStep, PaidBy, LoadPay, SodPasses, SodConflict
<1>4. Begin(s, "pay", r, Rows(S), new, changes) /\ Free(r)
  BY DEF LoadPay
<1>5. S \in SUBSET Invoice /\ \A i \in S : inv[i].run = r
  BY DEF LinkedTo
<1> HIDE DEF over, S
<1>6. changes \in RunRow /\ changes.status = "paid"
  BY <1>2, RowTypes DEF RunRow
<1>7. \A i \in S : new[i] \in InvoiceRow /\ new[i].run = r
  BY <1>5, RowTypes, PaymentAssumption DEF InvoiceRow, WorkflowState
<1>8. new \in [S -> InvoiceRow]
  BY <1>7
<1> HIDE DEF changes, new
<1> QED BY <1>3, <1>4, <1>5, <1>6, <1>7, <1>8, Issue

LEMMA CancelLoads ==
    ASSUME Shape, NEW s \in Slot, NEW r \in Run, LoadCancel(s, r)
    PROVE  Loads(s)
<1> DEFINE S == Unlinked(r)
           changes == [run[r] EXCEPT !.status = "cancelled"]
           new == [i \in S |-> [inv[i] EXCEPT !.run = NoRun]]
<1>1. S \in SUBSET Invoice /\ \A i \in Invoice : i \in S <=> inv[i].run = r
  BY DEF Unlinked, LinkedTo
<1>2. Begin(s, "cancel", r, Rows(S), new, changes) /\ Free(r)
  BY DEF LoadCancel
<1>3. RunStep(run[r], changes)
  BY DEF LoadCancel, RunStep, Cancelled
<1> HIDE DEF S
<1>4. changes \in RunRow /\ changes.status = "cancelled"
  BY RowTypes DEF RunRow
<1>5. \A i \in S : new[i] \in InvoiceRow /\ new[i].run = NoRun /\ new[i].paid = inv[i].paid
  BY <1>1, RowTypes DEF InvoiceRow
<1>6. new \in [S -> InvoiceRow]
  BY <1>5
<1> HIDE DEF changes, new
<1> QED BY <1>1, <1>2, <1>3, <1>4, <1>5, <1>6, Issue

LEMMA ExportLoads ==
    ASSUME Shape, NEW s \in Slot, NEW r \in Run, NEW confirm \in BOOLEAN,
           LoadExport(s, r, confirm)
    PROVE  Loads(s)
<1> DEFINE changes == [run[r] EXCEPT !.exports = @ + 1]
<1>1. Begin(s, "export", r, Rows({}), Rows({}), changes) /\ Free(r)
  BY DEF LoadExport
<1>2. RunStep(run[r], changes)
  BY DEF LoadExport, RunStep, Exported
<1>3. changes \in RunRow /\ changes.status # "cancelled"
  BY RowTypes DEF RunRow, LoadExport
<1>4. Rows({}) \in [{} -> InvoiceRow]
  BY DEF Rows
<1> HIDE DEF changes
<1> QED BY <1>1, <1>2, <1>3, <1>4, Issue

\* A request on one invoice that leaves its link alone touches no run.
LEMMA SingleLoads ==
    ASSUME Shape, NEW s \in Slot, NEW op, NEW i \in Invoice, NEW row \in InvoiceRow,
           row.run = inv[i].run,
           Begin(s, op, NoRun, Rows({i}), [k \in {i} |-> row], NoRunRow)
    PROVE  Loads(s)
<1> DEFINE new == [k \in {i} |-> row]
<1>1. new \in [{i} -> InvoiceRow] /\ NoRunRow \in RunRow
  BY DEF RunRow, NoRunRow
<1>2. \A k \in {i} : new[k].run = inv[k].run
  OBVIOUS
<1> HIDE DEF new
<1>3. Begin(s, op, NoRun, Rows({i}), new, NoRunRow)
  BY DEF new
<1> QED BY <1>1, <1>2, <1>3, Issue, PaymentAssumption

LEMMA InvoiceLoads ==
    ASSUME Shape, NEW s \in Slot, NEW i \in Invoice, InvoiceRequest(s, i)
    PROVE  Loads(s)
<1>0. inv[i] \in InvoiceRow
  BY DEF Shape, TypeOK
<1>1. ASSUME NEW amount \in 0 .. inv[i].total, LoadRecord(s, i, amount) PROVE Loads(s)
  <2> DEFINE row == [inv[i] EXCEPT !.paid = amount, !.state = Settled(inv[i], amount)]
  <2>1. Settled(inv[i], amount) \in WorkflowState
    BY <1>0 DEF InvoiceRow, Settled, WorkflowState
  <2>2. amount \in Nat
    BY <1>0, PaymentAssumption DEF InvoiceRow
  <2>3. row \in InvoiceRow /\ row.run = inv[i].run
    BY <1>0, <2>1, <2>2 DEF InvoiceRow
  <2>4. [k \in {i} |-> [inv[k] EXCEPT !.paid = amount, !.state = Settled(inv[k], amount)]]
          = [k \in {i} |-> row]
    OBVIOUS
  <2> QED BY <1>1, <2>3, <2>4, SingleLoads DEF LoadRecord
<1>2. ASSUME NEW target \in Target, LoadMove(s, i, target) PROVE Loads(s)
  <2> DEFINE row == [inv[i] EXCEPT !.state = target]
  <2>1. row \in InvoiceRow /\ row.run = inv[i].run
    BY <1>0, PaymentAssumption DEF InvoiceRow
  <2>2. [k \in {i} |-> [inv[k] EXCEPT !.state = target]] = [k \in {i} |-> row]
    OBVIOUS
  <2> QED BY <1>2, <2>1, <2>2, SingleLoads DEF LoadMove
<1>3. ASSUME NEW total \in Total, LoadEdit(s, i, total) PROVE Loads(s)
  <2> DEFINE row == [inv[i] EXCEPT !.total = total]
  <2>1. row \in InvoiceRow /\ row.run = inv[i].run
    BY <1>0 DEF InvoiceRow
  <2>2. [k \in {i} |-> [inv[k] EXCEPT !.total = total]] = [k \in {i} |-> row]
    OBVIOUS
  <2> QED BY <1>3, <2>1, <2>2, SingleLoads DEF LoadEdit
<1> QED BY <1>1, <1>2, <1>3 DEF InvoiceRequest

LEMMA RunLoads ==
    ASSUME Shape, NEW s \in Slot, NEW r \in Run, RunRequest(s, r)
    PROVE  Loads(s)
<1>1. ASSUME NEW u \in User, NEW S \in SUBSET Invoice, LoadCreate(s, u, r, S) PROVE Loads(s)
  BY <1>1, CreateLoads
<1>2. ASSUME NEW u \in User, LoadApprove(s, u, r) \/ LoadPay(s, u, r) PROVE Loads(s)
  BY <1>2, ApproveLoads, PayLoads
<1>3. ASSUME LoadCancel(s, r) PROVE Loads(s)
  BY <1>3, CancelLoads
<1>4. ASSUME NEW confirm \in BOOLEAN, LoadExport(s, r, confirm) PROVE Loads(s)
  BY <1>4, ExportLoads
<1> QED BY <1>1, <1>2, <1>3, <1>4, Zenon DEF RunRequest

----------------------------------------------------------------------------
(* A request begins. *)

LEMMA BeginShape ==
    ASSUME Shape, NEW s \in Slot, NEW S \in SUBSET Invoice, NEW q \in Request(S), Begun(s, q)
    PROVE  /\ Shape'
           /\ \A t \in Slot : req'[t] = IF t = s THEN q ELSE req[t]
<1>1. req' = [t \in Slot |-> IF t = s THEN q ELSE req[t]]
  BY DEF Shape, ReqFunction, Begun
<1>2. \A t \in Slot : req'[t] = IF t = s THEN q ELSE req[t]
  BY <1>1
<1>3. ReqFunction'
  BY <1>1 DEF ReqFunction
<1>4. ASSUME NEW t \in Slot, Busy(t)'
      PROVE  \E T \in SUBSET Invoice : req'[t] \in Request(T)
  BY <1>2, <1>4 DEF Shape, TypeOK, Busy, Request
<1>5. TypeOK'
  BY <1>4 DEF Begun, Shape, TypeOK, Request
<1> QED BY <1>2, <1>3, <1>5 DEF Shape

LEMMA BeginStep ==
    ASSUME Inv, NEW s \in Slot, Loads(s)
    PROVE  Inv'
<1>0. PICK S \in SUBSET Invoice :
        \E q \in Request(S) : Begun(s, q) /\ Sound(q) /\ Fresh(q)
  BY DEF Loads
<1>1. PICK q \in Request(S) : Begun(s, q) /\ Sound(q) /\ Fresh(q)
  BY <1>0
<1>2. Shape' /\ \A t \in Slot : req'[t] = IF t = s THEN q ELSE req[t]
  BY <1>1, BeginShape DEF Inv
<1>3. ~Busy(s) /\ inv' = inv /\ run' = run /\ ledger' = ledger
  BY <1>1 DEF Begun, MayBegin
<1>4. \A t \in Slot : Busy(t)' => t = s \/ Busy(t)
  BY <1>2 DEF Busy
<1>5. q.run \in Run \/ q.run = NoRun
  BY DEF Request
<1>6. LockInv'
  BY <1>1, <1>2, <1>4, <1>5 DEF Inv, LockInv, Begun, Free, Busy
<1>7. \A x : Sound(x) => Sound(x)'
  BY <1>3 DEF Sound, MovesRun, MovesPaid, MovesLink, FreesAll
<1>8. ReqInv'
  BY <1>1, <1>2, <1>4, <1>7 DEF Inv, ReqInv
<1>9. RowInv' /\ SettledOnce' /\ NoneStranded'
  BY <1>3 DEF Inv, RowInv, SettledOnce, NoneStranded
<1> QED BY <1>2, <1>6, <1>8, <1>9 DEF Inv

----------------------------------------------------------------------------
(* A request ends without effect, and changes at the vendors. *)

LEMMA RollbackStep ==
    ASSUME Inv, NEW s \in Slot, Rollback(s)
    PROVE  Inv'
<1>1. req' = [t \in Slot |-> IF t = s THEN NoRequest ELSE req[t]]
  BY DEF Inv, Shape, ReqFunction, Rollback
<1>2. \A t \in Slot : Busy(t)' => Busy(t) /\ req'[t] = req[t]
  BY <1>1 DEF Busy
<1>3. ReqFunction'
  BY <1>1 DEF ReqFunction
<1>4. TypeOK'
  BY <1>2 DEF Inv, Shape, TypeOK, Rollback
<1>5. LockInv'
  BY <1>2 DEF Inv, LockInv
<1>6. ReqInv'
  BY <1>2 DEF Inv, ReqInv, Rollback, Sound, MovesRun, MovesPaid, MovesLink, FreesAll
<1>7. RowInv' /\ SettledOnce' /\ NoneStranded'
  BY DEF Inv, RowInv, SettledOnce, NoneStranded, Rollback
<1> QED BY <1>3, <1>4, <1>5, <1>6, <1>7 DEF Inv, Shape

LEMMA VendorStep ==
    ASSUME Inv, held' \subseteq Invoice, UNCHANGED <<inv, run, ledger, req>>
    PROVE  Inv'
<1>1. Shape'
  BY DEF Inv, Shape, TypeOK, ReqFunction, Busy
<1>2. LockInv' /\ RowInv' /\ SettledOnce' /\ NoneStranded'
  BY DEF Inv, LockInv, RowInv, SettledOnce, NoneStranded, Busy
<1>3. ReqInv'
  BY DEF Inv, ReqInv, Busy, Sound, MovesRun, MovesPaid, MovesLink, FreesAll
<1> QED BY <1>1, <1>2, <1>3 DEF Inv

----------------------------------------------------------------------------
(* A request commits. *)

\* What a commit does to each row, entry and slot.
LEMMA CommitEffect ==
    ASSUME Inv, NEW s \in Slot, Commit(s)
    PROVE  \E S \in SUBSET Invoice :
             /\ req[s] \in Request(S)
             /\ DOMAIN req[s].seen = S
             /\ Sound(req[s])
             /\ \A i \in Invoice :
                  /\ inv'[i] \in InvoiceRow
                  /\ i \in S => inv'[i] = Flush(inv[i], req[s].seen[i], req[s].new[i])
                  /\ i \notin S => inv'[i] = inv[i]
             /\ \A r \in Run : run'[r] = IF r = req[s].run THEN req[s].changes ELSE run[r]
             /\ \A t \in Slot : Busy(t)' => t # s /\ Busy(t) /\ req'[t] = req[t]
             /\ Shape'
<1> DEFINE q == req[s]
<1>1. Busy(s)
  BY DEF Commit
<1>2. PICK S \in SUBSET Invoice : q \in Request(S)
  BY <1>1 DEF Inv, Shape, TypeOK, Request
<1>3. /\ q.seen \in [S -> InvoiceRow] /\ q.new \in [S -> InvoiceRow]
      /\ q.run \in Run \cup {NoRun} /\ q.changes \in RunRow
      /\ DOMAIN q.seen = S
  BY <1>2 DEF Request
<1>4. \A i \in Invoice : /\ inv[i] \in InvoiceRow
                         /\ ledger[i] \in [sum : Int, from : [Run \cup {NoRun} -> Nat]]
  BY DEF Inv, Shape, TypeOK
<1>5. inv' = [i \in Invoice |->
                 IF i \in S THEN Flush(inv[i], q.seen[i], q.new[i]) ELSE inv[i]]
  BY <1>3 DEF Commit
<1>6. \A i \in Invoice : i \in S => Flush(inv[i], q.seen[i], q.new[i]) \in InvoiceRow
  BY <1>3, <1>4, FlushType
<1>7. inv' \in [Invoice -> InvoiceRow]
  BY <1>4, <1>5, <1>6
<1>8. /\ run' \in [Run -> RunRow]
      /\ \A r \in Run : run'[r] = IF r = q.run THEN q.changes ELSE run[r]
  BY <1>3, PaymentAssumption DEF Commit, Inv, Shape, TypeOK
<1>9. ledger' \in [Invoice -> [sum : Int, from : [Run \cup {NoRun} -> Nat]]]
  <2> DEFINE Entries == [sum : Int, from : [Run \cup {NoRun} -> Nat]]
  <2>1. ASSUME NEW i \in S PROVE Delta(q.seen[i], q.new[i]) \in Int
    BY <1>3 DEF Delta, InvoiceRow
  <2>2. ASSUME NEW e \in Entries, NEW d \in Int PROVE Enter(e, q.run, d) \in Entries
    BY <1>3 DEF Enter
  <2>3. ledger' = [i \in Invoice |->
                     IF i \in S THEN Enter(ledger[i], q.run, Delta(q.seen[i], q.new[i]))
                                ELSE ledger[i]]
    BY <1>3 DEF Commit
  <2>4. \A i \in Invoice : ledger[i] \in Entries
    BY <1>4
  <2> HIDE DEF Entries
  <2>5. ledger' \in [Invoice -> Entries]
    BY <2>1, <2>2, <2>3, <2>4
  <2> QED BY <2>5 DEF Entries
<1>10. req' = [t \in Slot |-> IF t = s THEN NoRequest ELSE req[t]]
  BY DEF Inv, Shape, ReqFunction, Commit
<1>11. \A t \in Slot : Busy(t)' => t # s /\ Busy(t) /\ req'[t] = req[t]
  BY <1>10 DEF Busy
<1>12. Shape'
  <2>1. ReqFunction'
    BY <1>10 DEF ReqFunction
  <2>2. held' \subseteq Invoice
    BY DEF Commit, Inv, Shape, TypeOK
  <2>3. ASSUME NEW t \in Slot, Busy(t)'
        PROVE  \E T \in SUBSET Invoice : req'[t] \in Request(T)
    BY <1>11, <2>3 DEF Inv, Shape, TypeOK, Request
  <2>4. TypeOK'
    BY <1>7, <1>8, <1>9, <2>2, <2>3 DEF TypeOK, Request
  <2> QED BY <2>1, <2>4 DEF Shape
<1>13. Sound(q)
  BY <1>1 DEF Inv, ReqInv
<1> QED BY <1>2, <1>3, <1>5, <1>7, <1>8, <1>11, <1>12, <1>13

\* The columns and the ledger entries that a commit leaves.
LEMMA CommitColumns ==
    ASSUME Inv, NEW s \in Slot, Commit(s), NEW i \in Invoice,
           NEW q, q = req[s], NEW S, S = DOMAIN q.seen
    PROVE  /\ i \in S =>
                /\ q.seen[i].run = q.new[i].run => inv'[i].run = inv[i].run
                /\ q.seen[i].run # q.new[i].run => inv'[i].run = q.new[i].run
                /\ q.seen[i].paid = q.new[i].paid => inv'[i].paid = inv[i].paid
                /\ q.seen[i].paid # q.new[i].paid => inv'[i].paid = q.new[i].paid
                /\ ledger'[i].sum = ledger[i].sum + (q.new[i].paid - q.seen[i].paid)
           /\ i \notin S => inv'[i] = inv[i] /\ ledger'[i] = ledger[i]
           /\ \A r \in Run :
                \/ ledger'[i].from[r] = ledger[i].from[r]
                \/ /\ ledger'[i].from[r] = ledger[i].from[r] + 1
                   /\ r = q.run /\ i \in S
                   /\ q.new[i].paid # q.seen[i].paid
<1>1. /\ S \in SUBSET Invoice
      /\ q \in Request(S)
      /\ i \in S => inv'[i] = Flush(inv[i], q.seen[i], q.new[i])
      /\ i \notin S => inv'[i] = inv[i]
  BY CommitEffect
<1>2. /\ inv[i] \in InvoiceRow
      /\ ledger[i] \in [sum : Int, from : [Run \cup {NoRun} -> Nat]]
      /\ i \in S => q.seen[i] \in InvoiceRow /\ q.new[i] \in InvoiceRow
  BY <1>1 DEF Request, Inv, Shape, TypeOK
<1>3. ledger'[i] = IF i \in S THEN Enter(ledger[i], q.run, Delta(q.seen[i], q.new[i]))
                              ELSE ledger[i]
  BY DEF Commit
<1>4. CASE i \notin S
  BY <1>1, <1>3, <1>4
<1>5. CASE i \in S
  <2>1. /\ inv'[i].run = IF q.new[i].run = q.seen[i].run THEN inv[i].run ELSE q.new[i].run
        /\ inv'[i].paid = IF q.new[i].paid = q.seen[i].paid THEN inv[i].paid ELSE q.new[i].paid
    BY <1>1, <1>2, <1>5, FlushType
  <2>2. CASE q.new[i].paid = q.seen[i].paid
    <3>1. Delta(q.seen[i], q.new[i]) = 0
      BY <1>2, <1>5, <2>2 DEF Delta, InvoiceRow
    <3>2. ledger'[i] = ledger[i]
      BY <1>3, <1>5, <3>1 DEF Enter
    <3>3. ledger'[i].sum = ledger[i].sum + (q.new[i].paid - q.seen[i].paid)
      BY <1>2, <1>5, <2>2, <3>2 DEF InvoiceRow
    <3> QED BY <1>5, <2>1, <3>2, <3>3
  <2>3. CASE q.new[i].paid # q.seen[i].paid
    <3>1. Delta(q.seen[i], q.new[i]) # 0
      BY <1>2, <1>5, <2>3 DEF Delta, InvoiceRow
    <3>2. /\ ledger'[i].from = [ledger[i].from EXCEPT ![q.run] = @ + 1]
          /\ ledger'[i].sum = ledger[i].sum + (q.new[i].paid - q.seen[i].paid)
      BY <1>3, <1>5, <3>1 DEF Enter, Delta
    <3>3. \A r \in Run : ledger'[i].from[r] =
            IF r = q.run THEN ledger[i].from[r] + 1 ELSE ledger[i].from[r]
      BY <1>2, <3>2
    <3> QED BY <1>5, <2>1, <2>3, <3>2, <3>3
  <2> QED BY <2>2, <2>3
<1> QED BY <1>4, <1>5

LEMMA CommitStep ==
    ASSUME Inv, NEW s \in Slot, Commit(s)
    PROVE  Inv'
<1> DEFINE q == req[s]
<1>1. PICK S \in SUBSET Invoice :
        /\ q \in Request(S)
        /\ DOMAIN q.seen = S
        /\ Sound(q)
        /\ \A i \in Invoice :
             /\ inv'[i] \in InvoiceRow
             /\ i \in S => inv'[i] = Flush(inv[i], q.seen[i], q.new[i])
             /\ i \notin S => inv'[i] = inv[i]
        /\ \A r \in Run : run'[r] = IF r = q.run THEN q.changes ELSE run[r]
        /\ \A t \in Slot : Busy(t)' => t # s /\ Busy(t) /\ req'[t] = req[t]
        /\ Shape'
  BY CommitEffect
<1>2. /\ q.run \in Run \cup {NoRun} /\ q.changes \in RunRow
      /\ \A i \in S : q.seen[i] \in InvoiceRow /\ q.new[i] \in InvoiceRow
  BY <1>1 DEF Request
<1>3. /\ \A r \in Run : run[r] \in RunRow
      /\ \A i \in Invoice : inv[i] \in InvoiceRow
      /\ \A i \in Invoice : ledger[i] \in [sum : Int, from : [Run \cup {NoRun} -> Nat]]
  BY DEF Inv, Shape, TypeOK
<1>4. Busy(s)
  BY DEF Commit
<1>5. q.run \in Run => RunStep(run[q.run], q.changes)
  BY <1>1 DEF Sound, MovesRun
<1>6. \A i \in Invoice :
        /\ i \in S => /\ inv'[i].run = IF q.new[i].run = q.seen[i].run THEN inv[i].run
                                                                       ELSE q.new[i].run
                      /\ inv'[i].paid = IF q.new[i].paid = q.seen[i].paid THEN inv[i].paid
                                                                          ELSE q.new[i].paid
        /\ i \notin S => inv'[i] = inv[i]
  BY <1>1, CommitColumns
<1>7. LockInv'
  BY <1>1 DEF Inv, LockInv
<1>8. RowInv'
  BY <1>1, <1>2, <1>3, <1>5, RowStep DEF Inv, RowInv
\* The other requests stay sound: none of them is on this run.
<1>9. ReqInv'
  <2> SUFFICES ASSUME NEW t \in Slot, Busy(t)' PROVE Sound(req[t])'
    BY DEF ReqInv
  <2> DEFINE p == req[t]
  <2>1. req'[t] = p /\ t # s /\ Busy(t) /\ Sound(p)
    BY <1>1 DEF Inv, ReqInv
  <2>2. p.run \in Run => p.run # q.run
    BY <2>1, <1>4, PaymentAssumption DEF Inv, LockInv
  <2>3. p.run \in Run => run'[p.run] = run[p.run]
    BY <2>2, <1>1
  <2>4. MovesRun(req[t])' /\ MovesPaid(req[t])'
    BY <2>1, <2>3 DEF Sound, MovesRun, MovesPaid
  <2>5. MovesLink(req[t])'
    BY <2>1 DEF Sound, MovesLink
  <2>6. \A i \in Invoice : inv'[i].run = p.run /\ p.run \in Run => inv[i].run = p.run
    BY <1>1, <1>6, <2>2, PaymentAssumption DEF Sound, MovesLink
  <2>7. FreesAll(req[t])'
    BY <2>1, <2>6 DEF Sound, FreesAll
  <2> QED BY <2>4, <2>5, <2>7 DEF Sound
<1>10. \A i \in Invoice, r \in Run :
         \/ ledger'[i].from[r] = ledger[i].from[r]
         \/ /\ ledger'[i].from[r] = ledger[i].from[r] + 1
            /\ r = q.run /\ i \in S
            /\ q.new[i].paid # q.seen[i].paid
  BY <1>1, CommitColumns
<1>11. \A r \in Run : run[r].status = "paid" => run'[r].status = "paid"
  BY <1>1, <1>2, <1>3, <1>5, StatusStep
<1>12. SettledOnce'
  <2> SUFFICES ASSUME NEW r \in Run, NEW i \in Invoice
               PROVE  /\ ledger'[i].from[r] <= 1
                      /\ ledger'[i].from[r] = 1 => run'[r].status = "paid"
    BY DEF SettledOnce
  <2>1. CASE ledger'[i].from[r] = ledger[i].from[r]
    BY <2>1, <1>11 DEF Inv, SettledOnce
  <2>2. CASE /\ ledger'[i].from[r] = ledger[i].from[r] + 1
             /\ r = q.run /\ i \in S
             /\ q.new[i].paid # q.seen[i].paid
    <3>1. run[r].status = "approved" /\ run'[r].status = "paid"
      BY <2>2, <1>1 DEF Sound, MovesPaid
    <3>2. ledger[i].from[r] \in Nat /\ ledger[i].from[r] <= 1 /\ ledger[i].from[r] # 1
      BY <3>1, <1>3 DEF Inv, SettledOnce
    <3> QED BY <2>2, <3>1, <3>2
  <2> QED BY <2>1, <2>2, <1>10
<1>13. NoneStranded'
  <2> SUFFICES ASSUME NEW i \in Invoice, inv'[i].run # NoRun
               PROVE  run'[inv'[i].run].status \in {"open", "approved", "paid"}
    BY DEF NoneStranded
  <2> DEFINE r == inv'[i].run
  <2>1. r \in Run
    BY <1>1 DEF InvoiceRow
  <2>2. CASE r # inv[i].run
    <3>1. i \in S /\ q.new[i].run # q.seen[i].run /\ r = q.new[i].run
      BY <1>6, <2>2
    <3>2. r = q.run /\ q.changes.status = "open"
      BY <3>1, <1>1 DEF Sound, MovesLink
    <3> QED BY <1>1, <2>1, <3>2
  <2>3. CASE r = inv[i].run
    <3>1. run[r].status \in {"open", "approved", "paid"}
      BY <2>3 DEF Inv, NoneStranded
    <3>2. CASE r # q.run
      BY <1>1, <2>1, <3>1, <3>2
    <3>3. CASE r = q.run /\ q.changes.status = "cancelled"
      <4>1. i \in S /\ q.seen[i].run = r /\ q.new[i].run = NoRun
        BY <1>1, <2>1, <2>3, <3>3 DEF Sound, FreesAll
      <4> QED BY <4>1, <1>6
    <3>4. CASE r = q.run /\ q.changes.status # "cancelled"
      BY <1>1, <1>2, <1>3, <1>5, <2>1, <3>1, <3>4, StatusStep
    <3> QED BY <3>2, <3>3, <3>4
  <2> QED BY <2>2, <2>3
<1> QED BY <1>1, <1>7, <1>8, <1>9, <1>12, <1>13 DEF Inv

----------------------------------------------------------------------------
(* The invariant, and what follows from it. *)

LEMMA InvInit == Init => Inv
<1> SUFFICES ASSUME Init PROVE Inv
  OBVIOUS
<1>1. \A s \in Slot : ~Busy(s)
  BY DEF Init, Busy
<1>2. NoRunRow \in RunRow
  BY DEF NoRunRow, RunRow
<1>3. inv \in [Invoice -> InvoiceRow] /\ \A i \in Invoice : inv[i].run = NoRun
  BY DEF Init, InvoiceRow, WorkflowState
<1>4. Shape
  <2>1. run \in [Run -> RunRow] /\ held \subseteq Invoice /\ ReqFunction
    BY <1>2 DEF Init, ReqFunction
  <2>2. ledger \in [Invoice -> [sum : Int, from : [Run \cup {NoRun} -> Nat]]]
    BY DEF Init
  <2> QED BY <1>1, <1>3, <2>1, <2>2 DEF Shape, TypeOK
<1>5. RowInv
  BY DEF Init, RowInv, RowOK, NoRunRow
<1>6. SettledOnce /\ NoneStranded
  BY <1>3 DEF Init, SettledOnce, NoneStranded
<1> QED BY <1>1, <1>4, <1>5, <1>6 DEF Inv, LockInv, ReqInv

LEMMA NextCases ==
    ASSUME Shape, Next
    PROVE  \/ \E s \in Slot : Loads(s) \/ Commit(s) \/ Rollback(s)
           \/ held' \subseteq Invoice /\ UNCHANGED <<inv, run, ledger, req>>
<1>1. ASSUME NEW s \in Slot, NEW r \in Run, RunRequest(s, r) PROVE Loads(s)
  BY <1>1, RunLoads
<1>2. ASSUME NEW s \in Slot, NEW i \in Invoice, InvoiceRequest(s, i) PROVE Loads(s)
  BY <1>2, InvoiceLoads
<1>3. ASSUME NEW i \in Invoice, Hold(i) \/ Release(i)
      PROVE  held' \subseteq Invoice /\ UNCHANGED <<inv, run, ledger, req>>
  BY <1>3 DEF Hold, Release, Shape, TypeOK
<1> QED BY <1>1, <1>2, <1>3 DEF Next

LEMMA InvStep == Inv /\ [Next]_vars => Inv'
<1> SUFFICES ASSUME Inv, [Next]_vars PROVE Inv'
  OBVIOUS
<1>1. CASE Next
  <2>1. Shape
    BY DEF Inv
  <2> QED BY <1>1, <2>1, NextCases, BeginStep, CommitStep, RollbackStep, VendorStep
<1>2. CASE UNCHANGED vars
  <2>1. held' \subseteq Invoice /\ UNCHANGED <<inv, run, ledger, req>>
    BY <1>2 DEF vars, Inv, Shape, TypeOK
  <2> QED BY <2>1, VendorStep
<1> QED BY <1>1, <1>2

LEMMA InvHolds == Spec => []Inv
BY InvInit, InvStep, PTL DEF Spec

\* Rows and requests stay well formed.
THEOREM PaymentTypeCorrect == Spec => []TypeOK
<1>1. Inv => TypeOK
  BY DEF Inv, Shape
<1> QED BY <1>1, InvHolds, PTL

\* _enforce_sod keeps maker, checker and payer of every run apart, for any
\* number of people and however requests overlap.
THEOREM MakerCheckerCorrect == Spec => []MakerChecker
<1>1. Inv => MakerChecker
  BY DEF Inv, RowInv, RowOK, MakerChecker
<1> QED BY <1>1, InvHolds, PTL

\* The row lock of _load lets a run settle each of its invoices once.
THEOREM SettledOnceCorrect == Spec => []SettledOnce
<1>1. Inv => SettledOnce
  BY DEF Inv
<1> QED BY <1>1, InvHolds, PTL

\* cancel_run leaves no invoice linked to a run that cannot pay it.
THEOREM NoneStrandedCorrect == Spec => []NoneStranded
<1>1. Inv => NoneStranded
  BY DEF Inv
<1> QED BY <1>1, InvHolds, PTL
\* A paid run is never cancelled, and a cancelled one never paid, by requests
\* that race: a request's row change starts from the row it holds locked.
THEOREM RunIsFinalCorrect == Spec => RunIsFinal
<1> DEFINE Final == \A r \in Run : run[r].status \in {"paid", "cancelled"} =>
                       run'[r] = [run[r] EXCEPT !.exports = run'[r].exports]
<1>1. ASSUME Inv, [Next]_vars PROVE [Final]_vars
  <2>0. Shape /\ \A r \in Run : run[r] \in RunRow
    BY <1>1 DEF Inv, Shape, TypeOK
  <2>1. ASSUME UNCHANGED run PROVE Final
    BY <2>0, <2>1 DEF RunRow
  <2>2. ASSUME NEW s \in Slot, Loads(s) \/ Rollback(s) PROVE Final
    <3>1. UNCHANGED run
      BY <2>2 DEF Loads, Begun, Rollback
    <3> QED BY <3>1, <2>1
  <2>3. ASSUME NEW s \in Slot, Commit(s) PROVE Final
    <3>1. /\ req[s].run \in Run => RunStep(run[req[s].run], req[s].changes)
          /\ req[s].changes \in RunRow
          /\ \A r \in Run : run'[r] = IF r = req[s].run THEN req[s].changes ELSE run[r]
      BY <1>1, <2>3, CommitEffect DEF Sound, MovesRun, Request
    <3>2. ASSUME NEW r \in Run, run[r].status \in {"paid", "cancelled"}
          PROVE  run'[r] = [run[r] EXCEPT !.exports = run'[r].exports]
      <4>1. CASE r = req[s].run
        BY <2>0, <3>1, <3>2, <4>1, StatusStep
      <4>2. CASE r # req[s].run
        BY <2>0, <3>1, <4>2 DEF RunRow
      <4> QED BY <4>1, <4>2
    <3> QED BY <3>2
  <2> HIDE DEF Final
  <2>4. CASE Next
    BY <2>0, <2>1, <2>2, <2>3, <2>4, NextCases
  <2>5. CASE UNCHANGED vars
    BY <2>5
  <2> QED BY <1>1, <2>4, <2>5
<1>2. (\A r \in Run : run[r].status \in {"paid", "cancelled"} =>
          run'[r] = [run[r] EXCEPT !.exports = run'[r].exports]) <=> Final
  OBVIOUS
<1> HIDE DEF Final
<1> QED BY <1>1, <1>2, InvHolds, PTL DEF Spec, RunIsFinal

----------------------------------------------------------------------------
(* The ledger, when requests do not overlap. *)

LEMMA SerialInit == Init => SerialInv
BY DEF Init, SerialInv, Busy, LedgerMatches, SettlementTraceable

LEMMA SerialBegin ==
    ASSUME Inv, Serial, SerialInv, NEW s \in Slot, Loads(s)
    PROVE  SerialInv'
<1>1. PICK S \in SUBSET Invoice :
        \E q \in Request(S) : Begun(s, q) /\ Sound(q) /\ Fresh(q)
  BY DEF Loads
<1>2. PICK q \in Request(S) : Begun(s, q) /\ Fresh(q)
  BY <1>1
<1>3. \A t \in Slot : ~Busy(t)
  BY <1>2 DEF Begun, MayBegin, Serial
<1>4. \A t \in Slot : req'[t] = IF t = s THEN q ELSE req[t]
  BY <1>2, BeginShape DEF Inv
<1>5. \A t \in Slot : Busy(t)' => t = s
  BY <1>3, <1>4 DEF Busy
<1>6. inv' = inv /\ run' = run /\ ledger' = ledger
  BY <1>2 DEF Begun
<1>7. \A t \in Slot : Busy(t)' => Fresh(req[t])'
  BY <1>2, <1>4, <1>5, <1>6 DEF Fresh
<1> QED BY <1>5, <1>6, <1>7 DEF SerialInv, LedgerMatches, SettlementTraceable

LEMMA SerialRollback ==
    ASSUME Inv, SerialInv, NEW s \in Slot, Rollback(s)
    PROVE  SerialInv'
<1>1. req' = [t \in Slot |-> IF t = s THEN NoRequest ELSE req[t]]
  BY DEF Inv, Shape, ReqFunction, Rollback
<1>2. \A t \in Slot : ~Busy(t)'
  BY <1>1 DEF SerialInv, Rollback, Busy
<1> QED BY <1>2 DEF SerialInv, Rollback, LedgerMatches, SettlementTraceable

LEMMA SerialVendor ==
    ASSUME SerialInv, UNCHANGED <<inv, run, ledger, req>>
    PROVE  SerialInv'
BY DEF SerialInv, Busy, Fresh, LedgerMatches, SettlementTraceable

LEMMA SerialCommit ==
    ASSUME Inv, SerialInv, NEW s \in Slot, Commit(s)
    PROVE  SerialInv'
<1> DEFINE q == req[s]
           S == DOMAIN q.seen
<1>1. /\ S \subseteq Invoice
      /\ q \in Request(S)
      /\ Sound(q)
      /\ \A r \in Run : run'[r] = IF r = q.run THEN q.changes ELSE run[r]
      /\ \A t \in Slot : Busy(t)' => t # s /\ Busy(t)
  BY CommitEffect
<1>2. Busy(s) /\ \A i \in S : q.seen[i] = inv[i]
  BY DEF Commit, SerialInv, Fresh
<1>3. \A t \in Slot : ~Busy(t)'
  BY <1>1, <1>2 DEF SerialInv
<1>4. LedgerMatches'
  <2> SUFFICES ASSUME NEW i \in Invoice PROVE ledger'[i].sum = inv'[i].paid
    BY DEF LedgerMatches
  <2>1. ledger[i].sum = inv[i].paid /\ inv[i].paid \in Nat
    BY DEF SerialInv, LedgerMatches, Inv, Shape, TypeOK, InvoiceRow
  <2>2. i \in S => q.new[i].paid \in Nat
    BY <1>1 DEF Request, InvoiceRow
  <2>3. CASE i \in S
    <3>1. ledger'[i].sum = ledger[i].sum + (q.new[i].paid - q.seen[i].paid)
      BY <2>3, CommitColumns
    <3>2. inv'[i].paid = q.new[i].paid
      BY <1>2, <2>3, CommitColumns
    <3> QED BY <1>2, <2>1, <2>2, <2>3, <3>1, <3>2
  <2>4. CASE i \notin S
    BY <2>1, <2>4, CommitColumns
  <2> QED BY <2>3, <2>4
<1>5. SettlementTraceable'
  <2> SUFFICES ASSUME NEW i \in Invoice, NEW r \in Run, ledger'[i].from[r] > 0
               PROVE  inv'[i].run = r /\ run'[r].status = "paid"
    BY DEF SettlementTraceable
  <2>0. r # NoRun
    BY PaymentAssumption
  <2>1. CASE ledger'[i].from[r] = ledger[i].from[r]
    <3>1. inv[i].run = r /\ run[r].status = "paid"
      BY <2>1 DEF SerialInv, SettlementTraceable
    <3>2. run'[r].status = "paid"
      <4>1. run[r] \in RunRow /\ q.changes \in RunRow
        BY <1>1 DEF Inv, Shape, TypeOK, Request
      <4>2. CASE r = q.run
        BY <1>1, <3>1, <4>1, <4>2, StatusStep DEF Sound, MovesRun
      <4> QED BY <1>1, <3>1, <4>2
    <3>3. CASE i \in S /\ q.new[i].run # q.seen[i].run
      <4>1. q.run = r /\ q.changes.status = "cancelled"
        BY <1>1, <1>2, <2>0, <3>1, <3>3 DEF Sound, MovesLink
      <4> QED BY <1>1, <3>2, <4>1
    <3>4. CASE ~(i \in S /\ q.new[i].run # q.seen[i].run)
      <4>1. inv'[i].run = inv[i].run
        BY <3>4, CommitColumns
      <4> QED BY <3>1, <3>2, <4>1
    <3> QED BY <3>3, <3>4
  <2>2. CASE r = q.run /\ i \in S /\ q.new[i].paid # q.seen[i].paid
    <3>1. /\ q.changes.status = "paid"
          /\ q.seen[i].run = r /\ q.new[i].run = r
      BY <1>1, <2>2 DEF Sound, MovesPaid
    <3>2. inv'[i].run = inv[i].run
      BY <2>2, <3>1, CommitColumns
    <3> QED BY <1>1, <1>2, <2>2, <3>1, <3>2
  <2> QED BY <2>1, <2>2, CommitColumns
<1> QED BY <1>3, <1>4, <1>5 DEF SerialInv

LEMMA SerialStep == Inv /\ Serial /\ SerialInv /\ [Next]_vars => SerialInv'
<1> SUFFICES ASSUME Inv, Serial, SerialInv, [Next]_vars PROVE SerialInv'
  OBVIOUS
<1>1. CASE Next
  <2>1. Shape
    BY DEF Inv
  <2> QED BY <1>1, <2>1, NextCases, SerialBegin, SerialCommit, SerialRollback, SerialVendor
<1>2. CASE UNCHANGED vars
  BY <1>2, SerialVendor DEF vars
<1> QED BY <1>1, <1>2

LEMMA SerialHolds == Serial => (Spec => []SerialInv)
<1> SUFFICES ASSUME Serial PROVE Spec => []SerialInv
  OBVIOUS
<1>1. Inv /\ SerialInv /\ [Next]_vars => SerialInv'
  BY SerialStep
<1> QED BY <1>1, SerialInit, InvHolds, PTL DEF Spec

\* Without overlapping requests the cached amount of an invoice is always what
\* its entries add up to: set_cumulative's signed entries lose nothing.
THEOREM LedgerMatchesCorrect == Serial => (Spec => []LedgerMatches)
<1> SUFFICES ASSUME Serial PROVE Spec => []LedgerMatches
  OBVIOUS
<1>1. Spec => []SerialInv
  BY SerialHolds
<1>2. SerialInv => LedgerMatches
  BY DEF SerialInv
<1> QED BY <1>1, <1>2, PTL

\* Without overlapping requests an invoice stays with the run that settled it.
THEOREM SettlementTraceableCorrect == Serial => (Spec => []SettlementTraceable)
<1> SUFFICES ASSUME Serial PROVE Spec => []SettlementTraceable
  OBVIOUS
<1>1. Spec => []SerialInv
  BY SerialHolds
<1>2. SerialInv => SettlementTraceable
  BY DEF SerialInv
<1> QED BY <1>1, <1>2, PTL
=============================================================================
