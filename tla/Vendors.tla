------------------------------- MODULE Vendors -------------------------------
(***************************************************************************)
(* The protected fields of a vendor: the bank account and the tax number   *)
(* that payments rest on, and the change requests that replace them.       *)
(*                                                                         *)
(* The vendor is loaded without a lock, and a transaction commits later    *)
(* what differs from the loaded row.  A refused request is no step.  One   *)
(* vendor; every user may edit it and decide requests.                     *)
(***************************************************************************)
EXTENDS Naturals, Sequences, FiniteSets

CONSTANTS
    Field,       \* PROTECTED_FIELDS
    Value,       \* bound: the values of a field
    NoValue,     \* the field is empty
    User, NoUser,
    Slot,        \* transactions in flight, at most one per slot
    Workloads,   \* bound: the fields that patches set, the versions of the vendor, and the
                 \* change requests of a field
    NoRequest

ASSUME VendorsAssumption ==
    /\ NoValue \notin Value /\ NoUser \notin User
    /\ \A w \in Workloads :
         w.fields \subseteq Field /\ w.versions \in Nat \ {0} /\ w.changes \in Nat

VARIABLES
    vendor,  \* the row of the vendor
    change,  \* change[f]: the change requests for field f, in the order of their insertion
    trail,   \* trail[f]: history: every write of field f, and the request and approver it came from
    req,     \* req[s]: the transaction in slot s, between its load and its commit
    raced,   \* history: <<f, n>>: the n-th request for field f, or (n = 0) the field itself, was
             \* written from a stale read
    work     \* the workload

vars == <<vendor, change, trail, req, raced, work>>

Values == [Field -> Value \cup {NoValue}]
Empty == [f \in Field |-> NoValue]

VendorRow == [status : {"absent", "active", "provisional"}, version : 1 .. work.versions, value : Values]

ChangeRow == [state : {"pending", "approved", "rejected"}, old : Value,
              new : Value \cup {NoValue}, maker : User]

Direct(value) == [value |-> value, via |-> 0, by |-> NoUser]

Busy(s) == req[s] # NoRequest

Pending(f) == {n \in DOMAIN change[f] : change[f][n].state = "pending"}

----------------------------------------------------------------------------
\* create_vendor, and get_or_create_vendor with no values: the name is unique,
\* so the check and the insert are one step.
Create(values) ==
    /\ vendor.status = "absent"
    /\ \A f \in Field \ work.fields : values[f] = NoValue
    /\ vendor' = [status  |-> IF values = Empty THEN "active" ELSE "provisional",
                  version |-> 1, value |-> values]
    /\ trail' = [f \in Field |-> <<Direct(values[f])>>]
    /\ UNCHANGED <<change, req, raced, work>>

Begin(s, q) ==
    /\ ~Busy(s)
    /\ vendor.status # "absent"
    /\ vendor.version < work.versions
    /\ req' = [req EXCEPT ![s] = q]
    /\ UNCHANGED <<vendor, change, trail, raced, work>>

\* update_vendor loads the vendor: `body` holds the protected fields of the
\* patch, `others` tells whether it changes a field that is not protected.  A
\* version the client sends is compared with the loaded row only.
LoadUpdate(s, who, body, others) ==
    Begin(s, [op |-> "update", who |-> who, seen |-> vendor, body |-> body, others |-> others])

Asked(q) == {f \in DOMAIN q.body : q.body[f] # q.seen.value[f]}

\* Mutant: only the bank account needs a second approver once it is captured.
ProtectedWhenActive(q, f) == q.seen.value[f] # NoValue /\ q.seen.status = "active"

\* An established value is never overwritten in the request.
Protected(q, f) == q.seen.value[f] # NoValue

\* Mutant: only the same value is looked for among the open requests.
NoSameRequest(q, f) == \A n \in Pending(f) : change[f][n].new # q.body[f]

\* _open_request, and uq_vendor_change_requests_open_field behind it.
NoOpenRequest(q, f) == Pending(f) = {}

\* The transaction of update_vendor goes on to the end: first captures are
\* written, and changes of an established value become requests - all or none.
Update(s) ==
    LET q == req[s]
        guarded == {f \in Asked(q) : Protected(q, f)}
        direct == Asked(q) \ guarded
    IN
    /\ Busy(s) /\ q.op = "update"
    /\ \A f \in guarded : NoOpenRequest(q, f) /\ Len(change[f]) < work.changes
    /\ change' = [f \in Field |->
                    IF f \in guarded
                    THEN Append(change[f], [state |-> "pending", old |-> q.seen.value[f],
                                            new |-> q.body[f], maker |-> q.who])
                    ELSE change[f]]
    /\ vendor' = [vendor EXCEPT
                    !.value = [f \in Field |-> IF f \in direct THEN q.body[f] ELSE @[f]],
                    !.version = IF direct # {} \/ q.others THEN q.seen.version + 1 ELSE @]
    /\ trail' = [f \in Field |-> IF f \in direct THEN Append(trail[f], Direct(q.body[f]))
                                 ELSE trail[f]]
    /\ raced' = raced \cup {<<f, 0>> : f \in {g \in Asked(q) : vendor.value[g] # q.seen.value[g]}}
    /\ req' = [req EXCEPT ![s] = NoRequest]
    /\ UNCHANGED work

\* Mutant: a request may be approved by its maker.
MayApproveOwn(c, who) == c.state = "pending"

\* approve_change: maker is not checker.
MayApprove(c, who) == c.state = "pending" /\ c.maker # who

LoadApprove(s, who, f, n) ==
    /\ MayApprove(change[f][n], who)
    /\ Begin(s, [op |-> "approve", who |-> who, seen |-> vendor, field |-> f, nth |-> n])

\* reject_change is not maker-checked.
LoadReject(s, who, f, n) ==
    /\ change[f][n].state = "pending"
    /\ Begin(s, [op |-> "reject", who |-> who, seen |-> vendor, field |-> f, nth |-> n])

\* The transactions of approve_change and reject_change.  An approval writes the
\* field if the requested value differs from the one it loaded.
Decide(s) ==
    LET q == req[s]
        new == change[q.field][q.nth].new
        writes == q.op = "approve" /\ new # q.seen.value[q.field]
    IN
    /\ Busy(s) /\ q.op \in {"approve", "reject"}
    /\ change' = [change EXCEPT ![q.field][q.nth].state =
                    IF q.op = "approve" THEN "approved" ELSE "rejected"]
    /\ vendor' = IF q.op = "reject" THEN vendor
                 ELSE [vendor EXCEPT !.version = q.seen.version + 1,
                                     !.value[q.field] = IF writes THEN new ELSE @]
    /\ trail' = IF writes THEN [trail EXCEPT ![q.field] = Append(@, [value |-> new, via |-> q.nth, by |-> q.who])]
                ELSE trail
    /\ raced' = raced \cup
         {<<q.field, n>> : n \in
            {m \in {0, q.nth} :
               \/ change[q.field][q.nth].state # "pending" /\ (m = 0 => q.op = "approve")
               \/ m = 0 /\ q.op = "approve" /\ vendor.value[q.field] # q.seen.value[q.field]}}
    /\ req' = [req EXCEPT ![s] = NoRequest]
    /\ UNCHANGED work

\* The request fails: its transaction is rolled back.
Rollback(s) ==
    /\ Busy(s)
    /\ req' = [req EXCEPT ![s] = NoRequest]
    /\ UNCHANGED <<vendor, change, trail, raced, work>>

----------------------------------------------------------------------------
Init ==
    /\ work \in Workloads
    /\ vendor = [status |-> "absent", version |-> 1, value |-> Empty]
    /\ change = [f \in Field |-> <<>>]
    /\ trail = [f \in Field |-> <<>>]
    /\ req = [s \in Slot |-> NoRequest]
    /\ raced = {}

Next ==
    \/ \E values \in Values : Create(values)
    \/ \E s \in Slot, who \in User :
         \/ \E F \in SUBSET work.fields, others \in BOOLEAN :
              \E body \in [F -> Value \cup {NoValue}] : LoadUpdate(s, who, body, others)
         \/ \E f \in Field : \E n \in DOMAIN change[f] :
              LoadApprove(s, who, f, n) \/ LoadReject(s, who, f, n)
    \/ \E s \in Slot : Update(s) \/ Decide(s) \/ Rollback(s)

Spec == Init /\ [][Next]_vars

----------------------------------------------------------------------------
(* Properties. *)

\* The type invariant: the rows are well formed.
TypeOK ==
    /\ vendor \in VendorRow
    /\ \A f \in Field : change[f] \in Seq(ChangeRow)

\* Whether a write took the place of an established value, and nobody but its
\* author saw it: no request of another user asked for exactly this value.
Unseen(f, k) ==
    /\ k > 1 /\ trail[f][k - 1].value # NoValue
    /\ \A n \in DOMAIN change[f] :
         trail[f][k].via = n => \/ change[f][n].maker = trail[f][k].by
                                \/ change[f][n].new # trail[f][k].value

\* Two people (update_vendor, approve_change): an established value is replaced
\* only by a value that one user requested and another approved - unless the
\* field was written from a stale read.
TwoPeople ==
    TypeOK /\ \A f \in Field : <<f, 0>> \notin raced => \A k \in DOMAIN trail[f] : ~Unseen(f, k)

\* vendors.py: "an ESTABLISHED protected value is never overwritten in-request"
\* (update_vendor), whatever else is in flight.
NeverOverwritten == \A f \in Field : \A k \in DOMAIN trail[f] : ~Unseen(f, k)

\* What the n-th request for field f says, against the vendor and the trail.
Truth(f, n) ==
    LET c == change[f][n]
        writes == {k \in DOMAIN trail[f] : trail[f][k].via = n}
    IN
    /\ c.state # "approved" => writes = {}
    /\ <<f, 0>> \notin raced =>
         /\ c.state = "pending" => c.old = vendor.value[f]
         /\ c.state = "approved" => \E k \in writes :
              writes = {k} /\ trail[f][k - 1].value = c.old /\ trail[f][k].value = c.new

\* The request tells the truth (update_vendor, approve_change, reject_change): a
\* pending one names the value the vendor has, so its approver sees what they
\* replace; an approved one was written once, over the value it names; a pending
\* or rejected one was not written - unless the request or its field was written
\* from a stale read.
RequestTellsTruth ==
    \A f \in Field : \A n \in DOMAIN change[f] : <<f, n>> \notin raced => Truth(f, n)

\* vendors.py, of reject_change: "Refuse a pending change: the stored value stays
\* untouched", whatever else is in flight.
RejectedUntouched ==
    \A f \in Field : \A k \in DOMAIN trail[f] :
        trail[f][k].via # 0 => change[f][trail[f][k].via].state # "rejected"
=============================================================================
