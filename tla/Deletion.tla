------------------------------ MODULE Deletion ------------------------------
(***************************************************************************)
(* The deletion of supplier invoices: the bin, the archive, retention      *)
(* policies and legal holds, next to the refund claims that rest on the    *)
(* invoices.                                                               *)
(*                                                                         *)
(* The daily jobs load a batch and commit later, while people delete,      *)
(* restore and hold and plans change.  A user's request is one step.  One  *)
(* tenant; one job of a kind runs at a time, on batches of any size.       *)
(***************************************************************************)
EXTENDS RefundClaims

CONSTANTS
    BinDays,      \* BIN_RETENTION_DAYS
    Included,     \* INCLUDED_RETENTION_YEARS, in days
    Years,        \* the retention of plans and overrides, in days
    NoticeDays,   \* EXPIRY_NOTICE_DAYS
    RetainDays,   \* the windows a retention policy may set, 0 for none
    MaxDay,       \* bound: the last day
    NoJob

ASSUME DeletionAssumption ==
    /\ {BinDays, Included, NoticeDays, MaxDay} \subseteq Nat /\ Included \in Years
    /\ Years \subseteq Nat /\ RetainDays \subseteq Nat

VARIABLES
    day,
    born,      \* born[b]: when the bill was created
    binned,    \* binned[b]: deleted_at, of a bill in the bin
    whole,     \* the bills that have their line items
    archive,   \* the rows of the archive
    tier,      \* the years of the plan and of the staff override
    policy,    \* the retention policy for invoices
    hold,      \* whether a legal hold is active
    job,       \* job[k]: what the running job of the kind has read
    promised   \* history: the latest expiry a copy of the bill ever had

deletionVars == <<day, born, binned, whole, archive, tier, policy, hold, job, promised>>
allVars == <<vars, deletionVars>>

\* What deletion leaves alone of the claims.
Aside == UNCHANGED <<claim, lock, waived, rate, party, ended, req, raced, shifted, work>>
ClaimsAside == Aside /\ UNCHANGED <<lines, note, shelf, papers>>

Kind == {"retention", "bin", "archive", "notice"}
Running(k) == job[k] # NoJob

\* retention_years
Effective(t) == Max({Included, t.plan, t.override})

\* claims_backed_by_invoice
Backs(b) == \E l \in lines : l.bill = b /\ l.frozen /\ claim[l.claim].status \in Standing

----------------------------------------------------------------------------
(* What people do. *)

\* claim_backing_refusal
MayGo(b) == ~Backs(b)

\* delete_one, the warning acknowledged, and each invoice of bulk_delete_drafts.
DeleteOne(b) ==
    /\ Does("delete") /\ shelf[b] = "live" /\ MayGo(b)
    /\ shelf' = [shelf EXCEPT ![b] = "binned"]
    /\ binned' = [binned EXCEPT ![b] = day]
    /\ Aside /\ UNCHANGED <<lines, note, papers, day, born, whole, archive, tier, policy, hold, job, promised>>

RestoreOne(b) ==
    /\ Does("restore") /\ shelf[b] = "binned"
    /\ \A other \in Registered(SupplierOf[b]) : NumberOf[other] # NumberOf[b]
    /\ shelf' = [shelf EXCEPT ![b] = "live"]
    /\ Aside /\ UNCHANGED <<lines, note, papers, deletionVars>>

\* place_hold and release_hold
ToggleHold ==
    /\ Does("hold")
    /\ hold' = ~hold
    /\ ClaimsAside /\ UNCHANGED <<day, born, binned, whole, archive, tier, policy, job, promised>>

SetPolicy(days) ==
    /\ Does("policy") /\ policy # days
    /\ policy' = days
    /\ ClaimsAside /\ UNCHANGED <<day, born, binned, whole, archive, tier, hold, job, promised>>

\* restamp_to_effective: extends only, and clears the notice of what it extends.
Restamped(t) ==
    LET longest(a) == a.at + Effective(t) IN
    IF Effective(t) <= Included THEN archive
    ELSE {IF a.expires < longest(a) THEN [a EXCEPT !.expires = longest(a), !.told = 0] ELSE a : a \in archive}

Latest(rows) == [b \in Bill |-> Max({promised[b]} \cup {a.expires : a \in {r \in rows : r.of = b}})]

\* A plan changes (apply_event, an EveryPay payment, change_plan), or an override
\* is granted or cleared (apply_retention_override).
ChangeTier(t) ==
    /\ Does("tier") /\ t # tier
    /\ tier' = t
    /\ archive' = Restamped(t)
    /\ promised' = Latest(archive')
    /\ ClaimsAside /\ UNCHANGED <<day, born, binned, whole, policy, hold, job>>

\* The operator's patch of a tenant sets the plan, and re-stamps nothing.
Replan(years) ==
    /\ Does("tier") /\ tier.plan # years
    /\ tier' = [tier EXCEPT !.plan = years]
    /\ ClaimsAside /\ UNCHANGED <<day, born, binned, whole, archive, policy, hold, job, promised>>

----------------------------------------------------------------------------
(* The daily jobs. *)

\* A job reads; destruction is refused under a hold.
LoadJob(k, seen) ==
    /\ Does(k) /\ ~Running(k)
    /\ k # "notice" => ~hold
    /\ job' = [job EXCEPT ![k] = seen]
    /\ ClaimsAside /\ UNCHANGED <<day, born, binned, whole, archive, tier, policy, hold, promised>>

\* _purgeable_ids; there is no look at the claims.
LoadRetention ==
    /\ policy # 0
    /\ LoadJob("retention", [at |-> day, batch |-> {b \in Bill : shelf[b] = "live" /\ born[b] < day - policy}])

PastWindow(b, at) == shelf[b] = "binned" /\ binned[b] < at - BinDays

LoadBin ==
    LoadJob("bin", [at |-> day, batch |-> {b \in Bill : PastWindow(b, day)},
                    keep |-> Effective(tier)])

LoadArchive ==
    LoadJob("archive", [at |-> day, batch |-> {<<a.of, a.at>> : a \in {r \in archive : r.expires <= day}}])

LoadNotice ==
    LoadJob("notice", [at |-> day,
        batch |-> {<<a.of, a.at, a.expires>> :
                     a \in {r \in archive : r.told = 0 /\ day < r.expires /\ r.expires <= day + NoticeDays}}])

Done(k) == job' = [job EXCEPT ![k] = NoJob]

\* A job fails, or finds nobody to tell.
GiveUp(k) ==
    /\ Running(k) /\ Done(k)
    /\ ClaimsAside /\ UNCHANGED <<day, born, binned, whole, archive, tier, policy, hold, promised>>

\* retention.purge moves to the bin what is still live.
CommitRetention ==
    LET gone == {b \in job["retention"].batch : shelf[b] = "live"} IN
    /\ Running("retention") /\ Done("retention")
    /\ shelf' = [b \in Bill |-> IF b \in gone THEN "binned" ELSE shelf[b]]
    /\ binned' = [b \in Bill |-> IF b \in gone THEN job["retention"].at ELSE binned[b]]
    /\ Aside /\ UNCHANGED <<lines, note, papers, day, born, whole, archive, tier, policy, hold, promised>>

\* Mutant: the delete trusts the batch.
WholeBatch == job["bin"].batch

\* The predicates are re-asserted on the delete.
StillBinned == {b \in job["bin"].batch : PastWindow(b, job["bin"].at)}

\* purge_expired_bin: archives, unlinks and strips the whole batch, then deletes;
\* the database drops the documents and the overrides that name a deleted bill.
CommitBin ==
    LET j == job["bin"]
        gone == StillBinned
        copies == {[of |-> b, at |-> j.at, expires |-> j.at + j.keep, told |-> 0] : b \in j.batch}
    IN
    /\ Running("bin") /\ Done("bin")
    /\ archive' = archive \cup copies
    /\ promised' = Latest(copies)
    /\ lines' = {IF l.bill \in j.batch THEN [l EXCEPT !.bill = NoBill] ELSE l : l \in lines}
    /\ whole' = whole \ j.batch
    /\ shelf' = [b \in Bill |-> IF b \in gone THEN "destroyed" ELSE shelf[b]]
    /\ papers' = papers \ gone
    /\ note' = [k \in Key |-> IF note[k] \in gone THEN NoBill ELSE note[k]]
    /\ Aside /\ UNCHANGED <<day, born, binned, tier, policy, hold>>

\* archive.purge_expired, with its predicate re-asserted on the delete.
Expired(j) == {a \in archive : <<a.of, a.at>> \in j.batch /\ a.expires <= j.at}

CommitArchive ==
    /\ Running("archive") /\ Done("archive")
    /\ archive' = archive \ Expired(job["archive"])
    /\ ClaimsAside /\ UNCHANGED <<day, born, binned, whole, tier, policy, hold, promised>>

\* send_expiry_notices: stamps what it wrote about, unless it is stamped already.
CommitNotice ==
    LET about(a) == {x \in job["notice"].batch : x[1] = a.of /\ x[2] = a.at} IN
    /\ Running("notice") /\ Done("notice")
    /\ archive' = {IF a.told = 0 /\ about(a) # {}
                   THEN [a EXCEPT !.told = (CHOOSE x \in about(a) : TRUE)[3]] ELSE a : a \in archive}
    /\ ClaimsAside /\ UNCHANGED <<day, born, binned, whole, tier, policy, hold, promised>>

NextDay ==
    /\ Does("delete") /\ day < MaxDay
    /\ day' = day + 1
    /\ ClaimsAside /\ UNCHANGED <<born, binned, whole, archive, tier, policy, hold, job, promised>>

----------------------------------------------------------------------------
Init ==
    /\ ClaimsInit
    /\ day = 1
    /\ born = [b \in Bill |-> 1]
    /\ binned = [b \in Bill |-> 0]
    /\ whole = Bill
    /\ archive = {}
    /\ tier = [plan |-> Included, override |-> 0]
    /\ policy = 0
    /\ hold = FALSE
    /\ job = [k \in Kind |-> NoJob]
    /\ promised = [b \in Bill |-> 0]

\* A claim step; a bill registered now is created today.
ClaimStep ==
    /\ ClaimsNext
    /\ born' = [b \in Bill |-> IF shelf[b] = "none" THEN day ELSE born[b]]
    /\ UNCHANGED <<day, binned, whole, archive, tier, policy, hold, job, promised>>

Next ==
    \/ ClaimStep
    \/ \E b \in Bill : DeleteOne(b) \/ RestoreOne(b)
    \/ ToggleHold
    \/ \E days \in RetainDays : SetPolicy(days)
    \/ \E t \in [plan : Years, override : Years \cup {0}] : ChangeTier(t)
    \/ \E years \in Years : Replan(years)
    \/ LoadRetention \/ LoadBin \/ LoadArchive \/ LoadNotice
    \/ CommitRetention \/ CommitBin \/ CommitArchive \/ CommitNotice
    \/ \E k \in Kind : GiveUp(k)
    \/ NextDay

Spec == Init /\ [][Next]_allVars

----------------------------------------------------------------------------
(* Properties. *)

\* The archive is a backstop (purge_expired_bin, purge_expired, restamp): until
\* the latest expiry any copy of it ever had, a destroyed bill has a copy.
ArchivedWhileOwed ==
    \A b \in Bill : shelf[b] = "destroyed" /\ day < promised[b] => \E a \in archive : a.of = b

\* No live bill is destroyed, nor one that has not been in the bin for its whole
\* window, and its copy is made in the same step - whoever restores or deletes it
\* again while the purge runs.
BinnedBeforeGone ==
    \A b \in Bill : shelf[b] # "destroyed" /\ shelf'[b] = "destroyed" =>
        /\ shelf[b] = "binned" /\ day - binned[b] > BinDays
        /\ \E a \in archive' : a.of = b

\* Nothing is lost by deletion, after every step and through it.
NothingLost == [][ArchivedWhileOwed' /\ BinnedBeforeGone]_allVars

\* invoices.py, of filed evidence: "Deletion is refused while the claim stands".
EvidenceStays ==
    \A b \in Bill : Backs(b) => shelf[b] = "live"

\* What is restored is the bill with its line items.
RestoredWhole ==
    \A b \in Bill : shelf[b] = "live" => b \in whole

\* archive.py, of an extension: "a fresh notice precedes the NEW expiry too".
ToldOfExpiry ==
    \A a \in archive : a.told \in {0, a.expires}

\* archive.py: "nothing may leave the archive without the owner having been told first".
ToldFirst ==
    [][\A b \in Bill : \A a \in archive :
        a.of = b /\ a.told = 0 => \E c \in archive' : c.of = b /\ c.at = a.at]_allVars
=============================================================================
