----------------------------- MODULE MCBilling -----------------------------
(***************************************************************************)
(* Instances of Billing for TLC.                                           *)
(***************************************************************************)
EXTENDS Billing, TLC

CONSTANTS w1, w2, c1, c2, r1, s1, s2

TwoWorkers == {w1, w2}
TwoClients == {c1, c2}
OnePayment == {r1}
TwoSessions == {s1, s2}

\* One job of a kind per day, and one per event.
Jobs == ({"usage", "renewal"} \X (1 .. Days)) \cup {EventJob(n) : n \in 1 .. MaxEvents}

\* Two days of a month, then the next.
MonthEnd == <<1, 1, 2>>

EveryWorkload ==
    {[on |-> "usage", days |-> 2, requests |-> 0, faults |-> 2],
     [on |-> "usage", days |-> 3, requests |-> 0, faults |-> 0],
     [on |-> "renewals", days |-> 2, requests |-> 1, faults |-> 1],
     [on |-> "renewals", days |-> 2, requests |-> 2, faults |-> 0],
     [on |-> "renewals", days |-> 1, requests |-> 2, faults |-> 1],
     [on |-> "subscriptions", days |-> 1, requests |-> 1, faults |-> 1]}

Interchangeable == Permutations(Worker) \cup Permutations(Client) \cup Permutations(Session)
=============================================================================
