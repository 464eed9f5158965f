------------------------------ MODULE Renewals ------------------------------
(***************************************************************************)
(* Subscriptions at a provider that only takes payments: the first is a    *)
(* hosted payment, confirmed by the browser's return and by the provider's *)
(* callback; the monthly ones are charged by a daily job, which claims the *)
(* period before it asks the provider.  Nothing is locked while the        *)
(* provider is asked, and rows are written back from what was read before. *)
(***************************************************************************)
EXTENDS Scheduler, Sequences

CONSTANTS
    Length,     \* bound: the days of a billing period
    Payment     \* hosted payments

ASSUME RenewalsAssumption == Length \in Nat \ {0}

VARIABLES
    org,      \* the tenant: status, plan, everypay_token, everypay_next_charge (0: None)
    ledger,   \* processed_stripe_events: the claimed periods and the applied payments
    payment,  \* payment[r]: the state of the BillingPayment row
    bank,     \* bank[r]: what the provider knows of payment r
    charged,  \* the due dates the provider charged the card for, one after the other
    applied   \* applied[r]: history: how often payment r changed the tenant

renewalVars == <<org, ledger, payment, bank, charged, applied>>

OrgRow == [status : {"active", "suspended"}, plan : {"free", "paid"},
           token : BOOLEAN, next : Nat]

\* A tenant that subscribed before, or one that is about to.
RenewalsInit ==
    /\ org \in {[status |-> "active", plan |-> "paid", token |-> TRUE, next |-> 1],
                [status |-> "active", plan |-> "free", token |-> FALSE, next |-> 0]}
    /\ ledger = {}
    /\ payment = [r \in Payment |-> "absent"]
    /\ bank = [r \in Payment |-> "none"]
    /\ charged = <<>>
    /\ applied = [r \in Payment |-> 0]

OnRenewal(w) == exec[w] # NoExec /\ exec[w].job[1] = "renewal"

Idle == UNCHANGED <<queueVars, faults, schedulerVars>>

----------------------------------------------------------------------------
(* The renewal job. *)

Chargeable == org.token /\ org.plan = "paid"

\* orgs_due_for_charge, for the sweep.
RenewalKinds == IF Chargeable /\ org.next \in 1 .. today THEN {"renewal"} ELSE {}

\* Mutant: the claim is for the day the job runs on.
PeriodOfDay(o) == today

\* The claim is for the due date that is paid.
Period(o) == IF o.next = 0 THEN today ELSE o.next

\* charge_renewal up to the commit of its claim.
Claim(w) ==
    LET claim == <<"mit", Period(org)>> IN
    /\ At(w, "begin") /\ OnRenewal(w)
    /\ IF Chargeable /\ claim \notin ledger
       THEN /\ ledger' = ledger \cup {claim}
            /\ Open(w, [locks |-> {}, seen |-> org])
            /\ Goto(w, "calling")
       ELSE Goto(w, "done") /\ UNCHANGED <<ledger, tx>>
    /\ Idle
    /\ UNCHANGED <<org, payment, bank, charged, applied>>

Charged(o) == charged' = Append(charged, o.next)

\* The provider answers; a payment that is pending may go through later.
Charge(w) ==
    /\ At(w, "calling") /\ OnRenewal(w)
    /\ \E result \in {"settled", "failed", "pending"} :
         /\ CASE result = "settled" -> Charged(tx[w].seen)
              [] result = "failed"  -> UNCHANGED charged
              [] result = "pending" -> Charged(tx[w].seen) \/ UNCHANGED charged
         /\ tx' = [tx EXCEPT ![w] = [locks |-> {}, seen |-> @.seen, result |-> result]]
    /\ Goto(w, "answered")
    /\ Idle
    /\ UNCHANGED <<org, ledger, payment, bank, applied>>

\* No answer: the charge was heard, or not; the attempt fails.
LoseAnswer(w) ==
    /\ Fault
    /\ At(w, "calling") /\ OnRenewal(w)
    /\ Charged(tx[w].seen) \/ UNCHANGED charged
    /\ Raise(w, FALSE)
    /\ UNCHANGED <<schedulerVars, org, ledger, payment, bank, applied>>

\* charge_renewal after the call: what differs from the row that was read is
\* written over what the row holds now.
Settle(w) ==
    LET q == tx[w]
        status == IF q.result = "settled" THEN "active" ELSE "suspended"
    IN
    /\ At(w, "answered") /\ OnRenewal(w)
    /\ org' = [org EXCEPT
                 !.status = IF status = q.seen.status THEN @ ELSE status,
                 !.next = IF q.result = "settled" THEN q.seen.next + Length ELSE @]
    /\ Goto(w, "done") /\ Close(w)
    /\ Idle
    /\ UNCHANGED <<ledger, payment, bank, charged, applied>>

----------------------------------------------------------------------------
(* Requests: hosted payments, and the way back to the free plan. *)

Request == UNCHANGED <<queueVars, exec, faults, schedulerVars>>

\* start_checkout: the provider opens a payment, the row to verify it is saved.
StartCheckout(r) ==
    /\ payment[r] = "absent"
    /\ payment' = [payment EXCEPT ![r] = "initial"]
    /\ bank' = [bank EXCEPT ![r] = "open"]
    /\ Request
    /\ UNCHANGED <<tx, org, ledger, charged, applied>>

\* The customer pays, or gives up.
Pay(r) ==
    /\ bank[r] = "open"
    /\ \E state \in {"settled", "failed"} : bank' = [bank EXCEPT ![r] = state]
    /\ Request
    /\ UNCHANGED <<tx, org, ledger, payment, charged, applied>>

\* Mutant: nobody looks whether the payment was applied.
ApplyAgain(r) == TRUE

\* record_event_once: the plan is applied with the ledger row, once.
Unapplied(r) == <<"hosted", r>> \notin ledger

\* confirm_redirect_payment reads the row, asks the provider, loads the tenant...
Verify(c, r) ==
    /\ payment[r] \notin {"absent", "settled"}
    /\ bank[r] # "open"
    /\ Open(c, [locks |-> {}, pays |-> r, state |-> bank[r], seen |-> org])
    /\ Request
    /\ UNCHANGED renewalVars

\* ... and applies the answer, in one transaction: a column that already had its
\* new value in the row that was loaded is not written.
Confirm(c) ==
    LET r == tx[c].pays
        seen == tx[c].seen
        applies == tx[c].state = "settled" /\ Unapplied(r)
    IN
    /\ tx[c] # NoTx
    /\ payment' = [payment EXCEPT ![r] = tx[c].state]
    /\ IF applies
       THEN \E token \in {org.token, TRUE} :
              /\ org' = [status |-> IF seen.status = "active" THEN org.status ELSE "active",
                         plan |-> IF seen.plan = "paid" THEN org.plan ELSE "paid",
                         token |-> token,
                         next |-> IF seen.next = today + Length THEN org.next ELSE today + Length]
              /\ ledger' = ledger \cup {<<"hosted", r>>}
              /\ applied' = [applied EXCEPT ![r] = @ + 1]
       ELSE UNCHANGED <<org, ledger, applied>>
    /\ Close(c)
    /\ Request
    /\ UNCHANGED <<bank, charged>>

\* The request dies: nothing was written.
Drop(c) == tx[c] # NoTx /\ Close(c) /\ Request /\ UNCHANGED renewalVars

\* change_plan, to the free plan.
Downgrade ==
    /\ org.plan = "paid"
    /\ org' = [org EXCEPT !.plan = "free"]
    /\ Request
    /\ UNCHANGED <<tx, ledger, payment, bank, charged, applied>>

----------------------------------------------------------------------------
RenewalsNext ==
    \/ \E w \in Worker : Claim(w) \/ Charge(w) \/ LoseAnswer(w) \/ Settle(w)
    \/ \E r \in Payment : StartCheckout(r) \/ Pay(r) \/ \E c \in Client : Verify(c, r)
    \/ \E c \in Client : Confirm(c) \/ Drop(c)
    \/ Downgrade
    \/ SchedulerNext(RenewalKinds) /\ UNCHANGED renewalVars

RenewalsSpec == LoopInit /\ RenewalsInit /\ [][RenewalsNext]_<<workerVars, schedulerVars, renewalVars>>

----------------------------------------------------------------------------
(* Properties. *)

\* Nobody pays twice (charge_renewal, confirm_redirect_payment): a due date is
\* charged once, whatever answers were lost, jobs retried and dates moved; a
\* hosted payment is applied once, however often it is confirmed, and the row
\* says settled exactly when it was applied.
ChargedOnce ==
    /\ org \in OrgRow
    /\ \A i, k \in DOMAIN charged : charged[i] = charged[k] => i = k
    /\ \A r \in Payment :
         /\ applied[r] <= 1
         /\ (payment[r] = "settled") <=> (applied[r] = 1)
         /\ applied[r] = 1 => bank[r] = "settled"

\* billing.py, of charge_renewal: "Charge one tenant's recurring EveryPay MIT for
\* the current period", "Idempotent per (org, due-day)": no card is charged
\* before the due date.  The code does not keep this.
ChargedWhenDue == \A i \in DOMAIN charged : charged[i] <= today

\* billing.py, of charge_renewal: "on a declined charge the tenant is suspended
\* (a following day's scheduler re-enqueues -> simple retry/dunning)": who is
\* suspended can still be charged.  The code does not keep this.
DeclinedIsRetried ==
    Chargeable /\ org.status = "suspended" /\ (\A w \in Worker : tx[w] = NoTx)
        => <<"mit", org.next>> \notin ledger
=============================================================================
