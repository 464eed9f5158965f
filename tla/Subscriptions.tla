---------------------------- MODULE Subscriptions ----------------------------
(***************************************************************************)
(* Subscriptions at a provider that keeps them itself and tells of them in *)
(* events.  A checkout is refused while another is open; an event becomes  *)
(* a job before it is acknowledged; the job is superseded when a newer one *)
(* for the same subscription has succeeded, and applies its event with the *)
(* tenant read before and what differs written back.                       *)
(***************************************************************************)
EXTENDS Worker, Sequences

CONSTANTS
    Session,    \* hosted checkouts; a completed one is the subscription it began
    Nothing,
    MaxEvents   \* bound: the events of the provider

ASSUME SubscriptionsAssumption ==
    /\ Nothing \notin Session \cup {"active", "suspended", "canceled", "free", "paid"}
    /\ MaxEvents \in Nat

VARIABLES
    tenant,     \* the tenant: status, plan, stripe_subscription_id
    marker,     \* marker[s]: the state of the BillingPayment row
    aged,       \* the markers older than CHECKOUT_TTL_SECONDS
    session,    \* session[s]: what the provider knows of checkout s
    events,     \* the events of the provider, in their order
    arrival,    \* the events that became jobs, in the order of the jobs
    processed,  \* processed_stripe_events
    raced       \* history: an event was applied over a newer one whose job was not through
                \* or which was of another subscription, or over a row that had changed
                \* since it was read

subscriptionVars == <<tenant, marker, aged, session, events, arrival, processed, raced>>

TenantRow == [status : {"active", "suspended", "canceled"}, plan : {"free", "paid"},
           sub : Session \cup {Nothing}]

\* The reduced event: the fields it does not carry are Nothing.
Event(sub, status, plan, checkout) ==
    [sub |-> sub, status |-> status, plan |-> plan, checkout |-> checkout]

EventJob(n) == <<"subscription", n>>

ASSUME EventJobAssumption == \A n \in 1 .. MaxEvents : EventJob(n) \in Job

SubscriptionsInit ==
    /\ tenant = [status |-> "active", plan |-> "free", sub |-> Nothing]
    /\ marker = [s \in Session |-> "absent"]
    /\ aged = {}
    /\ session = [s \in Session |-> "none"]
    /\ events = <<>>
    /\ arrival = <<>>
    /\ processed = {}
    /\ raced = FALSE

----------------------------------------------------------------------------
(* Requests. *)

Hosted == UNCHANGED <<queueVars, exec, faults>>

\* _holds_live_subscription.
HoldsSubscription == tenant.sub # Nothing /\ tenant.status # "canceled"

OpenMarkers == {s \in Session : marker[s] = "initial" /\ s \notin aged}

\* start_checkout looks for a subscription and for an open checkout...
LoadCheckout(c, s) ==
    /\ session[s] = "none"
    /\ \A a \in Client : tx[a] # NoTx => tx[a].opens # s
    /\ ~HoldsSubscription /\ OpenMarkers = {}
    /\ Open(c, [locks |-> {}, opens |-> s])
    /\ Hosted
    /\ UNCHANGED subscriptionVars

\* ... has the provider open one, and saves its marker.
SaveCheckout(c) ==
    /\ tx[c] # NoTx
    /\ session' = [session EXCEPT ![tx[c].opens] = "open"]
    /\ marker' = [marker EXCEPT ![tx[c].opens] = "initial"]
    /\ Close(c)
    /\ Hosted
    /\ UNCHANGED <<tenant, aged, events, arrival, processed, raced>>

\* The provider could not open it, or the request died.
DropCheckout(c) == tx[c] # NoTx /\ Close(c) /\ Hosted /\ UNCHANGED subscriptionVars

\* stripe_webhook: a delivered event is a job before it is acknowledged.
Webhook(n) ==
    /\ phase[EventJob(n)] = "absent"
    /\ Enqueue({EventJob(n)})
    /\ arrival' = Append(arrival, n)
    /\ UNCHANGED <<exec, tx, faults, tenant, marker, aged, session, events, processed, raced>>

----------------------------------------------------------------------------
(* The provider. *)

Emit(new) ==
    /\ Len(events) + Len(new) <= MaxEvents
    /\ events' = events \o new
    /\ UNCHANGED <<workerVars, tenant, marker, arrival, processed, raced>>

\* The customer subscribes.  The plan is in the metadata of the subscription, and
\* not in those of the session.
Complete(s) ==
    /\ session[s] = "open"
    /\ session' = [session EXCEPT ![s] = "subscribed"]
    /\ Emit(<<Event(s, "active", "paid", Nothing), Event(s, "active", Nothing, s)>>)
    /\ UNCHANGED aged

\* CHECKOUT_TTL_SECONDS pass: the marker ages, and a session that is open expires.
Expire(s) ==
    /\ marker[s] # "absent" /\ s \notin aged
    /\ aged' = aged \cup {s}
    /\ IF session[s] = "open"
       THEN /\ session' = [session EXCEPT ![s] = "expired"]
            /\ Emit(<<Event(Nothing, Nothing, Nothing, s)>>)
       ELSE Emit(<<>>) /\ UNCHANGED session

\* The subscription changes: a payment is late or made up for, or it ends.
Change(s) ==
    /\ session[s] = "subscribed"
    /\ \E status \in {"active", "suspended", "canceled"} :
         /\ session' = [session EXCEPT ![s] = IF status = "canceled" THEN "ended" ELSE @]
         /\ Emit(<<Event(s, status, "paid", Nothing)>>)
    /\ UNCHANGED aged

----------------------------------------------------------------------------
(* The job of an event. *)

Newer(n) == {arrival[i] : i \in {k \in DOMAIN arrival : \E j \in 1 .. k - 1 : arrival[j] = n}}

\* Mutant: a job is run whatever newer ones have said.
NeverSuperseded(n) == FALSE

\* _newer_subscription_event_succeeded.
Superseded(n) ==
    /\ events[n].sub # Nothing
    /\ \E m \in Newer(n) : phase[EventJob(m)] = "succeeded" /\ events[m].sub = events[n].sub

\* Up to the flush of the ledger row, which waits for another of the same event;
\* the tenant is read after it.
LoadEvent(w) ==
    LET n == exec[w].job[2] IN
    /\ At(w, "begin")
    /\ IF Superseded(n) \/ n \in processed
       THEN Goto(w, "done") /\ UNCHANGED tx
       ELSE /\ Open(w, [locks |-> {n}, seen |-> tenant, event |-> n,
                        through |-> {m \in Newer(n) : phase[EventJob(m)] = "succeeded"}])
            /\ Goto(w, "applying")
    /\ UNCHANGED <<queueVars, faults, subscriptionVars>>

\* _apply_to_org, on the row as it was read.
Applied(row, e) ==
    [status |-> IF e.status = Nothing THEN row.status ELSE e.status,
     plan   |-> IF e.status = "canceled" THEN "free"
                ELSE IF e.plan = Nothing THEN row.plan ELSE e.plan,
     sub    |-> IF e.status = "canceled" THEN Nothing
                ELSE IF e.sub = Nothing THEN row.sub ELSE e.sub]

\* _close_checkout_marker.
Closed(s, e) ==
    IF marker[s] = "initial" /\ e.checkout = s
    THEN IF e.sub = Nothing THEN "abandoned" ELSE "settled"
    ELSE marker[s]

\* apply_subscription_event commits.
ApplyEvent(w) ==
    LET q == tx[w]
        e == events[q.event]
        new == Applied(q.seen, e)
    IN
    /\ At(w, "applying")
    /\ tenant' = [f \in DOMAIN tenant |-> IF new[f] = q.seen[f] THEN tenant[f] ELSE new[f]]
    /\ marker' = [s \in Session |-> Closed(s, e)]
    /\ processed' = processed \cup {q.event}
    /\ raced' = (\/ raced
                 \/ tenant # q.seen
                 \/ \E m \in (Newer(q.event) \cap processed) : m \notin q.through \/ events[m].sub # e.sub)
    /\ Goto(w, "done") /\ Close(w)
    /\ UNCHANGED <<queueVars, faults, aged, session, events, arrival>>

\* The application fails, and is rolled back.
FailEvent(w) ==
    /\ Fault
    /\ At(w, "applying")
    /\ Raise(w, FALSE)
    /\ UNCHANGED subscriptionVars

----------------------------------------------------------------------------
SubscriptionsNext ==
    \/ \E c \in Client : SaveCheckout(c) \/ DropCheckout(c) \/ \E s \in Session : LoadCheckout(c, s)
    \/ \E n \in DOMAIN events : Webhook(n)
    \/ \E s \in Session : Complete(s) \/ Expire(s) \/ Change(s)
    \/ \E w \in Worker : LoadEvent(w) \/ ApplyEvent(w) \/ FailEvent(w)
    \/ /\ (\E w \in Worker : Finish(w) \/ \E j \in Job : Take(w, j)) \/ Repair \/ Trouble
       /\ UNCHANGED subscriptionVars

----------------------------------------------------------------------------
(* Properties. *)

\* The type invariant.
SubscriptionsTypeOK ==
    /\ tenant \in TenantRow
    /\ \A s \in Session : marker[s] \in {"absent", "initial", "settled", "abandoned"}
    /\ \A n \in processed : phase[EventJob(n)] # "absent"

\* Every event has arrived, and its job is through.
Settled == \A n \in DOMAIN events : phase[EventJob(n)] = "succeeded"

\* The event that came last to the queue, of those that tell of a subscription.
Newest(n) == events[n].sub # Nothing /\ \A m \in Newer(n) : events[m].sub = Nothing

\* Whether the tenant is where event e leaves it.
Reflects(e) ==
    IF e.status = "canceled" THEN tenant = [status |-> "canceled", plan |-> "free", sub |-> Nothing]
    ELSE tenant.status = e.status /\ tenant.sub = e.sub

\* The newest event wins (apply_subscription_event and its job): when all jobs
\* are through, the tenant is where the newest event leaves it, whichever jobs
\* failed, were retried or came late - unless the row was written in a race, or
\* by an older event of another subscription, which no job compares.
NewestWins ==
    SubscriptionsTypeOK /\ (Settled /\ ~raced => \A n \in DOMAIN events : Newest(n) => Reflects(events[n]))

\* job_handlers.py: an event that "retries after a later `deleted{canceled}`
\* already applied would put a cancelled tenant back on a paid plan.  A job is
\* SUPERSEDED when a newer job for the same subscription has already succeeded".
\* The code does not keep this.
CanceledStays ==
    Settled => \A n \in DOMAIN events :
        Newest(n) /\ events[n].status = "canceled" => tenant.status = "canceled"

\* billing.py, of _apply_to_org: "honor the plan the (active) subscription maps
\* to": when all jobs are through, who subscribed is on the plan.
\* The code does not keep this.
PlanArrives == Settled /\ HoldsSubscription => tenant.plan = "paid"

\* billing.py (routes): "another one is refused while an unexpired one exists".
\* The code does not keep this.
OneCheckout == \A s, t \in OpenMarkers : s = t
=============================================================================
