----------------------------- MODULE Receivables -----------------------------
(***************************************************************************)
(* The cash side of issued invoices: credit notes, direct payments and     *)
(* their reversal, receipts allocated to invoices, and the reconciliation  *)
(* of bank lines with receipts and payments.                               *)
(*                                                                         *)
(* The ledger is append-only; amount_paid and credited_total are caches on *)
(* the invoice.  Amounts are whole cents.                                  *)
(***************************************************************************)
EXTENDS IssuedInvoices, FiniteSetsExt

CONSTANTS
    Receipt,       \* receipts, each a bank transfer received
    ReceiptAmount, \* the amount of a receipt
    Line,          \* lines of imported bank statements, all credits
    LineAmount,    \* the amount of a bank line
    MaxEntries,    \* bound: the entries of the ledger
    MaxNotes,      \* bound: the credit notes
    NoReceipt, NoTarget

ASSUME ReceivablesAssumption ==
    /\ NoReceipt \notin Receipt
    /\ Receipt \cap (Doc \cup Line \cup {Issuer, Schedule}) = {}
    /\ Line \cap (Doc \cup {Issuer, Schedule}) = {}
    /\ \A l \in Line : l \notin Nat
    /\ ReceiptAmount \in Nat \ {0} /\ LineAmount \in Nat \ {0}
    /\ MaxEntries \in Nat /\ MaxNotes \in Nat

\* A payment is named by its position in the ledger.
LineRow == [status : {"unmatched", "matched", "ignored"},
            kind   : {"receipt", "issued_payment", "none"},
            target : Receipt \cup Nat \cup {NoTarget}]

Unmatched == [status |-> "unmatched", kind |-> "none", target |-> NoTarget]

Entry == [doc     : Doc,
          amount  : Int,
          receipt : Receipt \cup {NoReceipt},
          of      : Nat,       \* the entry it reverses; 0: none
          key     : Key \cup {NoKey} \cup [doc : Doc, paid : Nat]]

Note == [of : Doc, amount : Nat \ {0}, number : Nat \ {0}, key : Key]

----------------------------------------------------------------------------
(* What is owed. *)

Effective(d) == row[d].total - row[d].credited

\* Mutant: the credit notes are forgotten.
GrossOutstanding(d) == IF row[d].paid < row[d].total THEN row[d].total - row[d].paid ELSE 0

\* outstanding_of: nothing is owed on what is written off, cancelled or not yet
\* issued; whether the invoice is void is not looked at.
Outstanding(d) ==
    IF row[d].life \in {"issued", "disputed"} /\ Effective(d) > row[d].paid
    THEN Effective(d) - row[d].paid ELSE 0

\* _require_receivable.
Receivable(d) == ~row[d].voided /\ row[d].life \in {"issued", "disputed"}

CashOf(S) == MapThenSumSet(LAMBDA k : ledger[k].amount, S)

EntriesOf(d) == {k \in DOMAIN ledger : ledger[k].doc = d}
AllocationsOf(r) == {k \in DOMAIN ledger : ledger[k].receipt = r}

Reversed(k) == \E j \in DOMAIN ledger : ledger[j].of = k

NewEntry(d, amount, receipt, of, key) ==
    <<[doc |-> d, amount |-> amount, receipt |-> receipt, of |-> of, key |-> key]>>

\* One entry, and the cache of its invoice moved by its amount.
Pay(op, locks, d, amount, receipt, of, key) ==
    Request(op, locks, [x \in {d} |-> [row[x] EXCEPT !.paid = @ + amount]],
            NewEntry(d, amount, receipt, of, key), <<>>)

Recording == Len(ledger) < MaxEntries

----------------------------------------------------------------------------
(* Direct payments: their routes lock the invoice, then look the key up. *)

CashLocks(d) == {d}

LoadAppend(s, d, amount, key) ==
    /\ Recording
    /\ key \notin PaymentKeys
    /\ Receivable(d)
    /\ amount \in 1 .. Outstanding(d)
    /\ Begin(s, Pay("append", CashLocks(d), d, amount, NoReceipt, 0, key))

\* The legacy route sets the cumulative amount; its key is made of its inputs.
LoadRecord(s, d, paid) ==
    LET key == [doc |-> d, paid |-> paid] IN
    /\ Recording
    /\ key \notin PaymentKeys
    /\ Receivable(d)
    /\ paid <= Effective(d)
    /\ paid > row[d].paid
    /\ Begin(s, Pay("record", CashLocks(d), d, paid - row[d].paid, NoReceipt, 0, key))

\* reverse: a positive direct payment, not reversed, still within amount_paid.
Reversible(k) ==
    /\ ledger[k].receipt = NoReceipt
    /\ ledger[k].amount > 0 /\ ledger[k].of = 0
    /\ ~Reversed(k)

LoadReverse(s, k, key) ==
    LET d == ledger[k].doc IN
    /\ Recording
    /\ key \notin PaymentKeys
    /\ Receivable(d)
    /\ Reversible(k)
    /\ row[d].paid >= ledger[k].amount
    /\ Begin(s, Pay("reverse", CashLocks(d), d, -ledger[k].amount, NoReceipt, k, key))

----------------------------------------------------------------------------
(* Receipts. *)

\* Mutant: the receipt is not locked.
AllocateLocksInvoiceOnly(r, d) == {d}

AllocateLocks(r, d) == {r, d}

\* allocate: capped by what is left of the receipt and by what is owed.
LoadAllocate(s, r, d, amount) ==
    /\ Recording
    /\ d \in Docs
    /\ amount >= 1
    /\ amount <= ReceiptAmount - CashOf(AllocationsOf(r))
    /\ amount <= Outstanding(d)
    /\ Begin(s, Pay("allocate", AllocateLocks(r, d), d, amount, r, 0, NoKey))

\* deallocate: only the receipt is locked, not the invoice.
LoadDeallocate(s, k) ==
    /\ Recording
    /\ ledger[k].receipt # NoReceipt
    /\ ledger[k].amount > 0
    /\ ~Reversed(k)
    /\ Begin(s, Pay("deallocate", {ledger[k].receipt}, ledger[k].doc,
                    -ledger[k].amount, ledger[k].receipt, k, NoKey))

----------------------------------------------------------------------------
(* Credit notes, voiding, disputes and bad debt. *)

\* The credited total after one more note, never past the invoice's total.
Credited(d, amount) ==
    IF row[d].credited + amount < row[d].total THEN row[d].credited + amount ELSE row[d].total

\* create_credit_note, with one cent of tolerance.
LoadCredit(s, d, amount, key) ==
    /\ Len(notes) < MaxNotes
    /\ key \notin CreateKeys
    /\ Receivable(d)
    /\ row[d].credited + amount <= row[d].total + 1
    /\ Begin(s, Request("credit", {d, Issuer},
         [x \in {d, Issuer} |->
            IF x = d THEN [row[d] EXCEPT !.credited = Credited(d, amount)]
            ELSE [row[Issuer] EXCEPT !.nextCredit = @ + 1]],
         <<>>, <<[of |-> d, amount |-> amount, number |-> row[Issuer].nextCredit, key |-> key]>>))

\* Mutant: an invoice with payments may be voided.
VoidableUncredited(d) == ~row[d].voided /\ row[d].life = "issued" /\ row[d].credited = 0

\* void_invoice: issued, with no payment and no credit note.
Voidable(d) == ~row[d].voided /\ row[d].life = "issued" /\ row[d].paid <= 0 /\ row[d].credited = 0

LoadVoid(s, d) ==
    /\ Voidable(d)
    /\ Begin(s, Request("void", {}, [x \in {d} |-> [row[x] EXCEPT !.voided = TRUE]], <<>>, <<>>))

----------------------------------------------------------------------------
(* Bank reconciliation. *)

\* Mutant: the target is not locked.
MatchLocksNothing(target) == {}

MatchLocks(target) == {target}

\* What a line can be matched with: a receipt, or a direct payment, of its amount.
Agrees(kind, target) ==
    IF kind = "receipt" THEN target \in Receipt /\ ReceiptAmount = LineAmount
    ELSE /\ target \in DOMAIN ledger
         /\ ledger[target].receipt = NoReceipt
         /\ ledger[target].amount \in {LineAmount, -LineAmount}

\* confirm_match: the target is locked, the line is not; the line's own status
\* is not looked at.
LoadMatch(s, l, kind, target) ==
    /\ Agrees(kind, target)
    /\ \A m \in Line \ {l} : ~(row[m].status = "matched" /\ row[m].kind = kind /\ row[m].target = target)
    /\ Begin(s, Request("match", MatchLocks(target),
         [x \in {l} |-> [status |-> "matched", kind |-> kind, target |-> target]], <<>>, <<>>))

LoadUnmatch(s, l) == Begin(s, Request("unmatch", {}, [x \in {l} |-> Unmatched], <<>>, <<>>))

LoadIgnore(s, l) ==
    /\ row[l].status # "matched"
    /\ Begin(s, Request("ignore", {}, [x \in {l} |-> [Unmatched EXCEPT !.status = "ignored"]],
                        <<>>, <<>>))

----------------------------------------------------------------------------
Cash(s) ==
    \/ \E d \in Docs :
         \/ \E amount \in Amount, key \in work.keys : LoadAppend(s, d, amount, key)
         \/ \E paid \in Amount : LoadRecord(s, d, paid)
         \/ \E amount \in Amount, key \in work.keys : LoadCredit(s, d, amount, key)
         \/ \E r \in Receipt \cap work.rows, amount \in 1 .. ReceiptAmount : LoadAllocate(s, r, d, amount)
         \/ LoadVoid(s, d)
         \/ ~row[d].voided /\ LoadMove(s, "dispute", d)
         \/ ~row[d].voided /\ LoadMove(s, "write_off", d)
         \/ LoadMove(s, "undispute", d)
    \/ \E k \in DOMAIN ledger :
         \/ LoadDeallocate(s, k)
         \/ \E key \in work.keys : LoadReverse(s, k, key)

Banking(s) ==
    \E l \in Line \cap work.rows :
        \/ \E r \in Receipt \cap work.rows : LoadMatch(s, l, "receipt", r)
        \/ \E k \in DOMAIN ledger : LoadMatch(s, l, "issued_payment", k)
        \/ LoadUnmatch(s, l)
        \/ LoadIgnore(s, l)

\* The invoices issued before the behaviour begins have the first numbers.
Init ==
    /\ work \in Workloads
    /\ LET issued == work.issued
           position(d) == CHOOSE k \in DOMAIN issued : issued[k] = d
       IN \E total \in Amount :
          row = [x \in Doc \cup Line \cup {Issuer, Schedule} |->
                CASE x = Issuer   -> [next |-> Len(issued) + 1, nextCredit |-> 1]
                  [] x = Schedule -> [next |-> 1, active |-> TRUE]
                  [] x \in Line   -> Unmatched
                  [] OTHER -> IF \E k \in DOMAIN issued : issued[k] = x
                              THEN [NoDoc EXCEPT !.life = "issued", !.total = total,
                                                 !.number = position(x)]
                              ELSE NoDoc]
    /\ ledger = <<>> /\ notes = <<>>
    /\ today = 0
    /\ req = [s \in Slot |-> NoRequest]
    /\ raced = {}

Next ==
    \/ \E s \in Slot : Issuing(s) \/ Cash(s) \/ Banking(s) \/ Commit(s) \/ Rollback(s)
    \/ Tick

Spec == Init /\ [][Next]_vars

----------------------------------------------------------------------------
(* Properties. *)

\* The type invariant: the rows, the ledger and the requests are well formed.
TypeOK ==
    /\ \A d \in Doc : row[d] \in DocRow
    /\ \A l \in Line : row[l] \in LineRow
    /\ row[Issuer] \in IssuerRow /\ row[Schedule] \in ScheduleRow
    /\ \A k \in DOMAIN ledger : ledger[k] \in Entry
    /\ \A k \in DOMAIN notes : notes[k] \in Note
    /\ today \in 0 .. MaxPeriod
    /\ \A s \in Slot : Busy(s) =>
         /\ req[s].locks \subseteq DOMAIN row \cup Receipt \cup DOMAIN ledger
         /\ DOMAIN req[s].new \subseteq DOMAIN row
         /\ Len(req[s].entries) + Len(req[s].credits) <= 1

\* The cached amount_paid of an invoice is the sum of its ledger entries
\* (payments.py: "SUM(payments.amount) == amount_paid always holds"), however
\* payments, allocations, reversals and credit notes overlap - unless the
\* reversal of an allocation, which does not lock the invoice, overlapped
\* another write of it.
CashMatchesLedger ==
    \A d \in Docs : <<"deallocate", d>> \notin raced => row[d].paid = CashOf(EntriesOf(d))

\* The allocations of a receipt, less their reversals, are between nothing and
\* the receipt, however allocations and reversals of it overlap (receipts.get
\* with lock): the same money never settles two invoices.
ReceiptNotOverdrawn == \A r \in Receipt : CashOf(AllocationsOf(r)) \in 0 .. ReceiptAmount

\* An entry is reversed at most once, by one entry for its whole amount on the
\* same invoice and receipt (reverse, deallocate): the corrections of one
\* payment never add up to more than the payment.
ReversedOnce ==
    \A j \in DOMAIN ledger : ledger[j].of # 0 =>
        LET k == ledger[j].of IN
        /\ ledger[k].amount = -ledger[j].amount
        /\ ledger[k].doc = ledger[j].doc /\ ledger[k].receipt = ledger[j].receipt
        /\ \A i \in DOMAIN ledger : ledger[i].of = k => i = j

\* Cash is never recorded past what is owed (the caps of append, record_payment
\* and allocate): an entry that was committed leaves at most the effective total
\* paid.  A later credit note may still turn it into an overpayment, and so may
\* a lost update of the cache.
NeverOverpaid ==
    [][\A d \in Docs :
          /\ row'[d].paid > row[d].paid
          /\ <<"deallocate", d>> \notin raced'
          => row'[d].paid <= row'[d].total - row'[d].credited]_vars

\* The credited total is what the credit notes add up to, capped at the
\* invoice's total (create_credit_note's lock and key): no note is lost from the
\* figure that caps every payment, and the notes have gap-free numbers.
CreditsMatchNotes ==
    /\ \A d \in Docs : <<"edit", d>> \notin raced =>
         LET sum == MapThenSumSet(LAMBDA k : notes[k].amount, {k \in DOMAIN notes : notes[k].of = d})
         IN row[d].credited = IF sum < row[d].total THEN sum ELSE row[d].total
    /\ \A k \in DOMAIN notes : notes[k].number = k
    /\ row[Issuer].nextCredit = Len(notes) + 1

\* The ledger is well formed, reverses nothing twice and spends no receipt twice
\* (append, allocate, reverse, deallocate), and the two figures cached on an
\* invoice are what its entries and its credit notes add up to (payments.py,
\* create_credit_note), however the writers overlap.
LedgerSound ==
    TypeOK /\ ReceiptNotOverdrawn /\ ReversedOnce /\ CashMatchesLedger /\ CreditsMatchNotes

\* A void invoice has no credit note and no direct payment left on it
\* (void_invoice, _require_receivable) - unless the void, which does not lock
\* the invoice, overlapped one, or a deallocation, which does not either, had
\* left the paid figure that the void checks out of date.  Receipts are not
\* covered: allocate lets a void invoice be paid.
VoidStaysUnpaid ==
    \A d \in Docs :
        row[d].voided /\ (\A op \in {"void", "deallocate"} : <<op, d>> \notin raced) =>
        /\ row[d].credited = 0
        /\ CashOf({k \in EntriesOf(d) : ledger[k].receipt = NoReceipt}) = 0

\* A receipt or payment is reconciled with at most one bank line, however the
\* confirmations overlap (confirm_match locks the target) - unless a line was
\* changed under a confirmation of it, which does not lock the line.
OneLinePerTarget ==
    \A l, m \in Line :
        /\ l # m
        /\ row[l].status = "matched" /\ row[m].status = "matched"
        /\ \A op \in {"match", "unmatch", "ignore"} :
              <<op, l>> \notin raced /\ <<op, m>> \notin raced
        => <<row[l].kind, row[l].target>> # <<row[m].kind, row[m].target>>
=============================================================================
