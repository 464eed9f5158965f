------------------------------ MODULE Webhooks ------------------------------
(***************************************************************************)
(* Webhooks: a business transaction records an event for the endpoint and  *)
(* queues its delivery; a worker posts it, again after every failure, and  *)
(* keeps the outcome of an attempt on the row.  Nothing is locked while    *)
(* the event is posted: two executions of the job may post side by side.   *)
(***************************************************************************)
EXTENDS Outbox

CONSTANTS
    Event,       \* the keys of events, one per business command
    Delivery     \* bound: the rows a key might get

VARIABLES
    delivery,    \* delivery[e][d]: the status of row d of event e
    active,      \* the endpoint is active, and its URL a public one
    received,    \* received[e]: history: how often the endpoint took the event
    skipped      \* history: the events a worker dropped, the endpoint being inactive

webhookVars == <<delivery, active, received, skipped>>

HookJob(e, d) == <<"hook", e, d>>

ASSUME WebhooksAssumption == \A e \in Event, d \in Delivery : HookJob(e, d) \in Job

OnHook(w) == exec[w] # NoExec /\ exec[w].job[1] = "hook"
EventOf(w) == exec[w].job[2]
RowOf(w) == exec[w].job[3]

WebhooksInit ==
    /\ delivery = [e \in Event |-> [d \in Delivery |-> "absent"]]
    /\ active = TRUE
    /\ received = [e \in Event |-> 0]
    /\ skipped = {}

RowsOf(e) == {d \in Delivery : delivery[e][d] # "absent"}

\* Mutant: the key is looked up before the insert, and no index backs it.
KeyUnindexed(e) == {}

\* The unique index: the insert of a key waits for another one to commit.
KeyLocks(e) == {e}

\* A row id no transaction is about to insert.
NewRow(e, d) ==
    /\ d \notin RowsOf(e)
    /\ \A a \in Actor : tx[a] # NoTx => <<e, d>> # <<tx[a].event, tx[a].row>>

\* `emit` in a business transaction; a key in use is deduplicated.
Emit(c, e) ==
    /\ active
    /\ RowsOf(e) = {}
    /\ \E d \in Delivery :
         /\ NewRow(e, d)
         /\ Open(c, [op |-> "emit", locks |-> KeyLocks(e), event |-> e, row |-> d])
    /\ UNCHANGED <<queueVars, exec, faults, mailVars, webhookVars>>

\* The row and its job commit with the business; or all is rolled back.
CommitEmit(c) ==
    /\ tx[c] # NoTx
    /\ delivery' = [delivery EXCEPT ![tx[c].event][tx[c].row] = "pending"]
    /\ Enqueue({HookJob(tx[c].event, tx[c].row)})
    /\ Close(c)
    /\ UNCHANGED <<exec, faults, mailVars, active, received, skipped>>

RollbackEmit(c) ==
    /\ tx[c] # NoTx
    /\ Close(c)
    /\ UNCHANGED <<queueVars, exec, faults, mailVars, webhookVars>>

----------------------------------------------------------------------------
(* `deliver`. *)

Note(w, status) == delivery' = [delivery EXCEPT ![EventOf(w)][RowOf(w)] = status]

\* An inactive endpoint is the end of the delivery, and no error.
Drop(w) ==
    /\ At(w, "begin")
    /\ OnHook(w)
    /\ ~active
    /\ Note(w, "failed")
    /\ skipped' = skipped \cup {EventOf(w)}
    /\ Goto(w, "done")
    /\ UNCHANGED <<queueVars, tx, faults, mailVars, active, received>>

\* The endpoint takes the event and says so, takes it and is not heard, or
\* refuses it.
Post(w) ==
    /\ At(w, "begin")
    /\ OnHook(w)
    /\ active
    /\ \/ /\ Goto(w, "answered") \/ Goto(w, "failing")
          /\ received' = [received EXCEPT ![EventOf(w)] = @ + 1]
       \/ Goto(w, "failing") /\ UNCHANGED received
    /\ UNCHANGED <<queueVars, tx, faults, mailVars, delivery, active, skipped>>

Delivered(w) ==
    /\ At(w, "answered")
    /\ Note(w, "delivered")
    /\ Goto(w, "done")
    /\ UNCHANGED <<queueVars, tx, faults, mailVars, active, received, skipped>>

\* `deliver` raises, so that the queue retries.
EndLoudly(w) == Raise(w, FALSE)

Failed(w) ==
    /\ At(w, "failing")
    /\ Note(w, "failed")
    /\ EndLoudly(w)
    /\ UNCHANGED <<faults, mailVars, active, received, skipped>>

\* The endpoint is switched off or on.
Switch ==
    /\ Fault
    /\ active' = ~active
    /\ UNCHANGED <<queueVars, exec, tx, mailVars, delivery, received, skipped>>

WebhooksNext ==
    \/ \E c \in Client : CommitEmit(c) \/ RollbackEmit(c) \/ \E e \in Event : Emit(c, e)
    \/ \E w \in Worker : Drop(w) \/ Post(w) \/ Delivered(w) \/ Failed(w)
    \/ Switch

----------------------------------------------------------------------------
(* Properties. *)

\* A key has at most one delivery for an endpoint, however callers overlap and
\* retry: the dedup is the unique index, not a look-up.
OneDeliveryPerKey == \A e \in Event : Cardinality(RowsOf(e)) <= 1

\* A job that succeeded has delivered its event, or dropped it for an inactive
\* endpoint; no failure is taken for a delivery, whichever of two executions
\* of the job reports last.
NothingLost ==
    \A e \in Event, d \in Delivery :
        phase[HookJob(e, d)] = "succeeded" => received[e] > 0 \/ e \in skipped

\* An event is queued once for an endpoint, and is not lost after that (emit,
\* deliver).
EventsKept == OneDeliveryPerKey /\ NothingLost
=============================================================================
