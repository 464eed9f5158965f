---------------------------- MODULE RefundClaims ----------------------------
(***************************************************************************)
(* VAT refund claims: the lines built from fuel transactions, the          *)
(* submission that freezes them, takes the locks and fixes base and fee,   *)
(* and what the member state answers.                                      *)
(*                                                                         *)
(* A claim is loaded without a lock, and the transaction commits later     *)
(* what differs from the loaded row; the close, a job, does the same for   *)
(* every draft of a month.  A rebuild finds the lines it deletes in one    *)
(* statement and commits in another; a submission reads the lines for its  *)
(* gates, reads them again to freeze them, and commits.  Operations that   *)
(* write no loaded claim and no line are one step.  A refused request is   *)
(* no step.  One claimant and one refund country.                          *)
(***************************************************************************)
EXTENDS Integers, FiniteSets, FiniteSetsExt

CONSTANTS
    Claim, NoClaim,
    Annual,          \* the claims for a year; the others are for a quarter
    MonthsOf,        \* MonthsOf[c]: period_months
    Txn,             \* the fuel transactions, with their month and VAT in cents
    MonthOf, VatOf,
    Bill, NoBill,    \* the supplier invoices
    SupplierOf,      \* of transactions and bills
    NumberOf,        \* the number of a bill; the number a transaction's note names
    Unmatched,       \* UNMATCHED, the ref of a line without an invoice; also: no note
    FeeRate, NoRate, \* rates, as records of a percentage and a minimum
    ManualCode,      \* MANUAL_CODES
    Slot,            \* transactions in flight, at most one per slot
    NoRequest,
    Workloads        \* bound: operations, slots, and how a behaviour begins

ASSUME ClaimsAssumption ==
    /\ NoClaim \notin Claim /\ NoBill \notin Bill /\ NoRate \notin FeeRate
    /\ Annual \subseteq Claim
    /\ VatOf \in [Txn -> Nat]
    /\ \A r \in FeeRate : {r.pct, r.min} \subseteq Nat
    /\ \A b \in Bill : NumberOf[b] # Unmatched

VARIABLES
    claim,   \* the rows of the claims, or the status "none"
    lines,   \* the materialised lines of all claims
    lock,    \* lock[k]: the claim that holds the invoice k, or NoClaim
    waived,  \* waived[c]: the suppliers waived on c
    note,    \* note[k]: the admin's override for the note k, or NoBill
    rate,    \* the fee rate of each rung
    party,   \* the lifecycle of the customer and of the country activation
    ended,   \* the claims whose period has ended
    shelf,   \* shelf[b]: where the bill is
    papers,  \* the bills with a vaulted document
    req,     \* req[s]: the transaction in slot s, between its load and its commit
    raced,   \* history: the claims written from a stale read
    shifted, \* history: the claims whose lines were rebuilt during their submission
    work     \* the workload

claimVars == <<claim, lines, lock, waived, note, rate, party, ended, shelf, papers, raced, shifted, work>>
vars == <<claimVars, req>>

Supplier == {SupplierOf[b] : b \in Bill}
Key == {<<SupplierOf[x], NumberOf[x]>> : x \in Bill \cup Txn}
Invoice == {<<SupplierOf[b], NumberOf[b]>> : b \in Bill}
Rung == {"customer_country", "customer", "org"}

Scope(c) == {t \in Txn : MonthOf[t] \in MonthsOf[c]}
NewRow == [status |-> "draft", code |-> "none", base |-> 0, rate |-> NoRate, fee |-> 0]
NoRow == [NewRow EXCEPT !.status = "none"]

\* _LOCK_HOLDING_STATUSES, and with the adverse decision what claims_backed_by_invoice looks for.
Holding == {"submitted", "approved", "paid"}
Standing == Holding \cup {"rejected"}
Filed == Standing \cup {"withdrawn"}

Busy(s) == req[s] # NoRequest
Does(op) == op \in work.ops
Of(c) == {l \in lines : l.claim = c}
Frozen(c) == {l \in Of(c) : l.frozen}
Unfrozen(c) == Of(c) \ Frozen(c)

\* What identifies a row of vat_claim_lines; no constraint forbids two of a ref.
Row(l) == <<l.claim, l.ref, l.build>>
Rows(L) == {Row(l) : l \in L}

\* A number for the rows of one more build of c.
NextBuild(c) ==
    LET known == Rows(lines) \cup UNION {req[s].old \cup Rows(req[s].new) : s \in {t \in Slot : Busy(t)}}
        used == {r[3] : r \in {k \in known : k[1] = c}}
    IN Min((1..(Cardinality(used) + 1)) \ used)

\* The claims whose row is no longer the one the transaction loaded.
Stale(s) == {c \in req[s].of : claim[c] # req[s].seen[c]}

\* _sum_lines
Total(L) == MapThenSumSet(LAMBDA l : MapThenSumSet(LAMBDA t : VatOf[t], l.txns), L)

\* compute_fee, with q2's rounding
Fee(base, r) == Max({(base * r.pct + 50) \div 100, r.min})

\* resolve_fee_rate: the first rung that has a rate
Resolved ==
    IF rate["customer_country"] # NoRate THEN rate["customer_country"]
    ELSE IF rate["customer"] # NoRate THEN rate["customer"]
    ELSE rate["org"]

----------------------------------------------------------------------------
\* registered_invoices: a binned bill is invisible.
Registered(supplier) == {b \in Bill : shelf[b] = "live" /\ SupplierOf[b] = supplier}

\* resolve_invoice_ref; both number heuristics are one.
Match(t) ==
    LET candidates == Registered(SupplierOf[t])
        named == {b \in candidates : NumberOf[b] = NumberOf[t]}
        target == note[<<SupplierOf[t], NumberOf[t]>>]
    IN
    IF NumberOf[t] = Unmatched THEN NoBill
    ELSE IF Cardinality(named) = 1 THEN CHOOSE b \in named : TRUE
    ELSE IF target \in candidates THEN target
    ELSE IF Cardinality(candidates) = 1 THEN CHOOSE b \in candidates : TRUE
    ELSE NoBill

RefOf(t) == IF Match(t) = NoBill THEN Unmatched ELSE NumberOf[Match(t)]

\* The lines build_claim_lines inserts, one for each ref; the product group is
\* left out.  Suppliers with equal numbers share a line, and the line has the
\* bill of its first transaction.
NewLines(c, build) ==
    LET mine == {t \in Scope(c) : SupplierOf[t] \notin waived[c]}
        group(ref) == {t \in mine : RefOf(t) = ref}
    IN
    {[claim |-> c, ref |-> ref, bill |-> Match(CHOOSE t \in group(ref) : TRUE),
      txns |-> group(ref), build |-> build, frozen |-> FALSE, rejected |-> FALSE] :
        ref \in {RefOf(t) : t \in mine}}

----------------------------------------------------------------------------
(* Operations that write no loaded claim. *)

\* get_or_create_claim: the key is unique, and an existing claim is returned as it is.
Open(c) ==
    /\ Does("open") /\ claim[c].status = "none"
    /\ claim' = [claim EXCEPT ![c] = NewRow]
    /\ UNCHANGED <<lines, lock, waived, note, rate, party, ended, shelf, papers, req, raced, shifted, work>>

\* The day after period_end_date.
EndPeriod(c) ==
    /\ Does("end") /\ c \notin ended
    /\ ended' = ended \cup {c}
    /\ UNCHANGED <<claim, lines, lock, waived, note, rate, party, shelf, papers, req, raced, shifted, work>>

\* A supplier invoice is saved, with a document or without.
Register(b, documented) ==
    /\ Does("register") /\ shelf[b] = "none"
    /\ shelf' = [shelf EXCEPT ![b] = "live"]
    /\ papers' = IF documented THEN papers \cup {b} ELSE papers
    /\ UNCHANGED <<claim, lines, lock, waived, note, rate, party, ended, req, raced, shifted, work>>

SetWaiver(c, supplier) ==
    /\ Does("waive") /\ claim[c].status = "draft"
    /\ Registered(supplier) = {}
    /\ waived' = [waived EXCEPT ![c] = @ \cup {supplier}]
    /\ UNCHANGED <<claim, lines, lock, note, rate, party, ended, shelf, papers, req, raced, shifted, work>>

RemoveWaiver(c, supplier) ==
    /\ Does("waive") /\ claim[c].status = "draft"
    /\ waived' = [waived EXCEPT ![c] = @ \ {supplier}]
    /\ UNCHANGED <<claim, lines, lock, note, rate, party, ended, shelf, papers, req, raced, shifted, work>>

SetNoteOverride(k, b) ==
    /\ Does("note") /\ k[2] # Unmatched
    /\ b \in Registered(k[1])
    /\ note' = [note EXCEPT ![k] = b]
    /\ UNCHANGED <<claim, lines, lock, waived, rate, party, ended, shelf, papers, req, raced, shifted, work>>

\* set_rate, and (to NoRate) remove_rate
SetRate(g, r) ==
    /\ Does("rate") /\ rate[g] # r
    /\ rate' = [rate EXCEPT ![g] = r]
    /\ UNCHANGED <<claim, lines, lock, waived, note, party, ended, shelf, papers, req, raced, shifted, work>>

\* add_prospect, promote_prospect, set_activation, set_inactive
CustomerMoves == {<<"none", "prospect">>, <<"prospect", "pending">>, <<"pending", "active">>,
                  <<"active", "pending">>, <<"active", "inactive">>}
\* request_country, set_country_activation
CountryMoves == {<<"none", "requested">>, <<"requested", "active">>, <<"active", "requested">>}

MoveParty ==
    /\ Does("party")
    /\ \/ \E m \in CustomerMoves : party.customer = m[1] /\ party' = [party EXCEPT !.customer = m[2]]
       \/ \E m \in CountryMoves : party.country = m[1] /\ party' = [party EXCEPT !.country = m[2]]
    /\ UNCHANGED <<claim, lines, lock, waived, note, rate, ended, shelf, papers, req, raced, shifted, work>>

----------------------------------------------------------------------------
(* Operations on loaded claims. *)

\* The status an operation must find.
From(op) ==
    CASE op \in {"build", "submit"} -> {"draft"}
      [] op = "decide" -> {"submitted"}
      [] op = "pay" -> {"approved"}
      [] op \in {"withdraw", "code"} -> Holding

\* A request that has loaded the claims C: `left` are those it has still to
\* rebuild, `old` and `new` the rows it found and the lines it inserts, and the
\* rest is what a submission has read.
Request(op, C) ==
    [op |-> op, of |-> C, seen |-> [c \in C |-> claim[c]], left |-> C, old |-> {}, new |-> {},
     at |-> "loaded", screened |-> {}, keys |-> {}, base |-> 0, rate |-> NoRate]

LoadFor(s, op, C) ==
    /\ s \in work.slots /\ ~Busy(s) /\ Does(op)
    /\ req' = [req EXCEPT ![s] = Request(op, C)]
    /\ UNCHANGED claimVars

Load(s, op, c) ==
    /\ claim[c].status \in From(op)
    /\ LoadFor(s, op, {c})

\* run_close loads the drafts of its month.
LoadClose(s, month) ==
    LET C == {c \in Claim : claim[c].status = "draft" /\ month \in MonthsOf[c]} IN
    /\ C # {}
    /\ LoadFor(s, "close", C)

Answered(s) == req' = [req EXCEPT ![s] = NoRequest]

Rebuilds(s) == Busy(s) /\ req[s].op \in {"build", "close"}

\* build_claim_lines, for the claims of a close one by one: its DELETE finds the
\* unfrozen lines of this moment, and none that another build is inserting.
Rebuild(s, c) ==
    /\ Rebuilds(s) /\ c \in req[s].left
    /\ req' = [req EXCEPT ![s].left = @ \ {c}, ![s].old = @ \cup Rows(Unfrozen(c)),
                          ![s].new = @ \cup NewLines(c, NextBuild(c))]
    /\ UNCHANGED claimVars

\* Mutant: a found row is deleted as it was found.
DiscardAll(found) == {l \in lines : Row(l) \notin found}

\* The DELETE asks vat_claim_line_criteria of a row another transaction has
\* changed again: only what is not frozen is rebuilt.
Discard(found) == {l \in lines : Row(l) \notin found \/ l.frozen}

\* The commit of a rebuild; a line may not name a bill that is gone.
Build(s) ==
    /\ Rebuilds(s) /\ req[s].left = {}
    /\ \A l \in req[s].new : l.bill # NoBill => shelf[l.bill] # "destroyed"
    /\ lines' = Discard(req[s].old) \cup req[s].new
    /\ Answered(s)
    /\ UNCHANGED <<claim, lock, waived, note, rate, party, ended, shelf, papers, raced, shifted, work>>

\* _apply_annual_mop_up_or_duplicate_block: the keys to lock; none when the
\* submission is refused.
ToLock(c, list) ==
    LET locked == {k \in list : lock[k] # NoClaim}
        quarterly == {k \in locked : lock[k] \notin Annual}
    IN
    IF c \notin Annual THEN IF locked = {} THEN list ELSE {}
    ELSE IF locked = quarterly THEN list \ locked ELSE {}

Submitting(s, at) == Busy(s) /\ req[s].op = "submit" /\ req[s].at = at
Submitted(s) == CHOOSE c \in req[s].of : TRUE

\* The gates of submit_claim up to enforce_no_synthetic_lines.  The client may
\* override the minimum amount, so that gate refuses nothing.
Screen(s) ==
    LET c == Submitted(s) IN
    /\ Submitting(s, "loaded")
    /\ c \in ended
    /\ party = [customer |-> "active", country |-> "active"]
    /\ \A l \in Unfrozen(c) : l.ref # Unmatched
    /\ req' = [req EXCEPT ![s].at = "screened", ![s].screened = Rows(Unfrozen(c))]
    /\ UNCHANGED claimVars

\* The mop-up, on the client's list of invoices to lock (bound: invoices there
\* are), and enforce_document_presence.
PassGates(s, list) ==
    LET c == Submitted(s)
        keys == ToLock(c, list)
    IN
    /\ Submitting(s, "screened")
    /\ keys # {}
    /\ {l.bill : l \in Unfrozen(c)} \ {NoBill} \subseteq papers
    /\ req' = [req EXCEPT ![s].at = "passed", ![s].keys = keys]
    /\ UNCHANGED claimVars

\* resolve_fee_rate and freeze_claim_lines, which selects the lines again.
Freeze(s) ==
    LET L == Unfrozen(Submitted(s)) IN
    /\ Submitting(s, "passed")
    /\ Resolved # NoRate
    /\ req' = [req EXCEPT ![s].at = "frozen", ![s].old = Rows(L),
                          ![s].base = Total(L), ![s].rate = Resolved]
    /\ UNCHANGED claimVars

\* The flush and commit of submit_claim: the locks are unique, and an update of
\* one row must find it; one of several rows is sent as a batch, where nobody
\* counts what it found.
Submit(s) ==
    LET c == Submitted(s)
        q == req[s]
        frozen == {l \in lines : Row(l) \in q.old}
    IN
    /\ Submitting(s, "frozen")
    /\ \A k \in q.keys : lock[k] = NoClaim
    /\ Cardinality(q.old) = 1 => frozen # {}
    /\ lines' = (lines \ frozen) \cup {[l EXCEPT !.frozen = TRUE] : l \in frozen}
    /\ claim' = [claim EXCEPT ![c] = [status |-> "submitted", code |-> "2", base |-> q.base,
                                      rate |-> q.rate, fee |-> Fee(q.base, q.rate)]]
    /\ lock' = [k \in Key |-> IF k \in q.keys THEN c ELSE lock[k]]
    /\ raced' = raced \cup Stale(s)
    /\ shifted' = IF q.screened = q.old /\ q.old = Rows(Unfrozen(c)) THEN shifted ELSE shifted \cup {c}
    /\ Answered(s)
    /\ UNCHANGED <<waived, note, rate, party, ended, shelf, papers, work>>

Withdraw(s) ==
    LET c == CHOOSE x \in req[s].of : TRUE IN
    /\ claim' = [claim EXCEPT ![c].status = "withdrawn", ![c].code = "none"]
    /\ lock' = [k \in Key |-> IF lock[k] = c THEN NoClaim ELSE lock[k]]
    /\ raced' = raced \cup Stale(s)
    /\ Answered(s)
    /\ UNCHANGED <<lines, waived, note, rate, party, ended, shelf, papers, shifted, work>>

\* record_decision, approved or rejected
DecideWhole(s, outcome) ==
    LET c == CHOOSE x \in req[s].of : TRUE IN
    /\ claim' = [claim EXCEPT ![c].status = outcome]
    /\ raced' = raced \cup Stale(s)
    /\ Answered(s)
    /\ UNCHANGED <<lines, lock, waived, note, rate, party, ended, shelf, papers, shifted, work>>

\* record_decision, partial: _apply_partial, which takes the frozen rate.
DecidePartly(s, refs) ==
    LET c == CHOOSE x \in req[s].of : TRUE
        out == {l \in Frozen(c) : l.ref \in refs}
        base == Total(Frozen(c) \ out)
    IN
    /\ refs # {} /\ refs \subseteq {l.ref : l \in Frozen(c)}
    /\ out # Frozen(c)
    /\ lines' = (lines \ out) \cup {[l EXCEPT !.rejected = TRUE] : l \in out}
    /\ claim' = [claim EXCEPT ![c].status = "approved", ![c].base = base,
                              ![c].fee = Fee(base, req[s].seen[c].rate)]
    /\ raced' = raced \cup Stale(s)
    /\ Answered(s)
    /\ UNCHANGED <<lock, waived, note, rate, party, ended, shelf, papers, shifted, work>>

\* record_payment; the amount is the state's.
Pay(s) ==
    LET c == CHOOSE x \in req[s].of : TRUE IN
    /\ claim' = [claim EXCEPT ![c].status = "paid"]
    /\ raced' = raced \cup Stale(s)
    /\ Answered(s)
    /\ UNCHANGED <<lines, lock, waived, note, rate, party, ended, shelf, papers, shifted, work>>

SetStatusCode(s, code) ==
    LET c == CHOOSE x \in req[s].of : TRUE IN
    /\ claim' = [claim EXCEPT ![c].code = IF code = req[s].seen[c].code THEN @ ELSE code]
    /\ raced' = raced \cup Stale(s)
    /\ Answered(s)
    /\ UNCHANGED <<lines, lock, waived, note, rate, party, ended, shelf, papers, shifted, work>>

\* A refused request, a close that its tie-out halts, a lost race for a lock, a
\* claim's only line or a bill found gone.
Rollback(s) ==
    /\ Busy(s)
    /\ Answered(s)
    /\ UNCHANGED claimVars

----------------------------------------------------------------------------
ClaimsInit ==
    /\ work \in Workloads
    /\ claim = [c \in Claim |-> IF c \in work.open THEN NewRow ELSE NoRow]
    /\ lock = [k \in Key |-> NoClaim]
    /\ waived = [c \in Claim |-> {}]
    /\ note = [k \in Key |-> IF k \in DOMAIN work.note THEN work.note[k] ELSE NoBill]
    /\ rate = [g \in Rung |-> work.rate[g]]
    /\ party = work.party
    /\ ended = work.ended
    /\ shelf = [b \in Bill |-> IF b \in work.papers THEN "live" ELSE "none"]
    /\ papers = work.papers
    /\ lines = UNION {NewLines(c, 1) : c \in work.built}
    /\ req = [s \in Slot |-> NoRequest]
    /\ raced = {}
    /\ shifted = {}

Answer(s) ==
    \/ Screen(s)
    \/ \E list \in SUBSET Invoice \ {{}} : PassGates(s, list)
    \/ Freeze(s)
    \/ Submit(s)
    \/ req[s].op = "withdraw" /\ Withdraw(s)
    \/ req[s].op = "decide" /\ \E outcome \in {"approved", "rejected"} : DecideWhole(s, outcome)
    \/ req[s].op = "decide" /\ \E refs \in SUBSET {l.ref : l \in lines} : DecidePartly(s, refs)
    \/ req[s].op = "pay" /\ Pay(s)
    \/ req[s].op = "code" /\ \E code \in ManualCode : SetStatusCode(s, code)

ClaimsNext ==
    \/ \E c \in Claim :
         \/ Open(c)
         \/ EndPeriod(c)
         \/ \E supplier \in Supplier : SetWaiver(c, supplier) \/ RemoveWaiver(c, supplier)
    \/ \E b \in Bill :
         \/ \E documented \in BOOLEAN : Register(b, documented)
         \/ \E k \in Key : SetNoteOverride(k, b)
    \/ \E g \in Rung, r \in FeeRate \cup {NoRate} : SetRate(g, r)
    \/ MoveParty
    \/ \E s \in Slot :
         \/ \E c \in Claim, op \in {"build", "submit", "withdraw", "decide", "pay", "code"} : Load(s, op, c)
         \/ \E month \in UNION {MonthsOf[c] : c \in Claim} : LoadClose(s, month)
         \/ \E c \in Claim : Rebuild(s, c)
         \/ Build(s)
         \/ Busy(s) /\ Answer(s)
         \/ Rollback(s)

----------------------------------------------------------------------------
(* Properties. *)

\* What a claim holds and shows is what it filed (submit_claim, withdraw_claim,
\* _apply_partial): it has locks exactly while it stands, its base is the sum of
\* its surviving frozen lines, all of them matched, its fee follows from that
\* base at the frozen rate, and a draft has nothing frozen - unless the claim's
\* row was written from a stale read, or, for base and match, its lines were
\* rebuilt between the gates and the commit of its submission.
LockedWhileFiled ==
    \A c \in Claim \ raced :
        /\ claim[c].status \in Standing <=> \E k \in Key : lock[k] = c
        /\ claim[c].status \in Filed => claim[c].fee = Fee(claim[c].base, claim[c].rate)
        /\ claim[c].status \in Filed /\ c \notin shifted =>
             /\ claim[c].base = Total({l \in Frozen(c) : ~l.rejected})
             /\ \A l \in Frozen(c) : l.ref # Unmatched
        /\ claim[c].status \notin Filed => Frozen(c) = {} /\ claim[c].rate = NoRate

\* What was frozen: the lines, but for their link to a bill and the decision on them.
Evidence(c) == {<<l.ref, l.txns, l.build>> : l \in Frozen(c)}

\* A step never alters what a filed claim froze, whatever is rebuilt, re-rated,
\* waived or deleted meanwhile: base and fee move with a decision only, and its
\* locks go only all at once, when it is withdrawn - unless its row was written
\* from a stale read.
FiguresKept ==
    \A c \in Claim \ raced' : claim[c].status \in Filed =>
        /\ Evidence(c)' = Evidence(c)
        /\ claim[c].rate' = claim[c].rate
        /\ <<claim[c].base, claim[c].fee>>' # <<claim[c].base, claim[c].fee>> =>
             claim[c].status = "submitted" /\ claim[c].status' = "approved"
        /\ \/ claim[c].status' = "withdrawn"
           \/ {k \in Key : lock'[k] = c} = {k \in Key : lock[k] = c}

\* A filed claim stands, after every step and through it.
FilingStands == [][LockedWhileFiled' /\ FiguresKept]_vars

\* freeze.py, of the frozen base: "a claim's own lines ARE its claim_set by
\* construction" - so nothing in it is another claim's.
BaseIsLockedSet ==
    \A c \in Claim \ raced : claim[c].status \in Standing =>
        \A l \in Frozen(c) : ~l.rejected => \A t \in l.txns :
            \E k \in Key : lock[k] = c /\ k = <<SupplierOf[t], l.ref>>

\* A transaction is in the base of one standing claim (queries.py's locks, BA C6).
ClaimedOnce ==
    \A c, d \in Claim \ raced :
        c # d /\ {claim[c].status, claim[d].status} \subseteq Standing =>
            \A l \in Frozen(c), m \in Frozen(d) :
                ~l.rejected /\ ~m.rejected => l.txns \cap m.txns = {}

\* submit_claim screens the lines "exactly what the freeze below would stamp": no
\* line without an invoice is filed.
OnlyScreenedFiled ==
    \A c \in Claim \ raced : \A l \in Frozen(c) : l.ref # Unmatched

\* freeze.py: the base is "EXACTLY those lines' totals".
BaseOfFrozen ==
    \A c \in Claim \ raced : claim[c].status = "submitted" => claim[c].base = Total(Frozen(c))

\* claim_lines.py, of a rebuild: "R2 (one row per (invoice, product_group)" - no
\* transaction is in two frozen lines of a claim.
CountedOnce ==
    \A c \in Claim \ raced : \A l, m \in Frozen(c) : l # m => l.txns \cap m.txns = {}

\* claim_pack.py, of what was filed: "so its artifacts stay reproducible" - it
\* totals every frozen line, and refuses a claim whose base is another figure.
PackRenders ==
    \A c \in Claim \ raced : Frozen(c) # {} => claim[c].base = Total(Frozen(c))
=============================================================================
