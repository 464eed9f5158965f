------------------------------ MODULE Billing ------------------------------
(***************************************************************************)
(* Billing on the queue: the reports of metered usage, the renewals and    *)
(* hosted payments of one provider, and the checkouts and events of the    *)
(* other are run by the same workers, on jobs of the same queue, under the *)
(* same faults.  A tenant is at one provider, and its usage has rows of    *)
(* its own; a behaviour exercises one of the three.                        *)
(***************************************************************************)
EXTENDS Metering, Renewals, Subscriptions

CONSTANT Workloads   \* bound: what a behaviour exercises, its days, its overlapping
                     \* requests and the faults it meets

ASSUME BillingAssumption ==
    \A w \in Workloads :
        /\ w.on \in {"usage", "renewals", "subscriptions"}
        /\ w.days \in 1 .. Days
        /\ w.requests \in Nat
        /\ w.faults \in 0 .. MaxFaults

VARIABLE work

vars == <<workerVars, schedulerVars, meteringVars, renewalVars, subscriptionVars, work>>

Init ==
    /\ LoopInit
    /\ MeteringInit
    /\ RenewalsInit
    /\ SubscriptionsInit
    /\ work \in Workloads
    /\ faults = work.faults
    /\ work.on # "usage" => counter[MonthOf[1]].count = 0
    /\ work.on # "renewals" => ~Chargeable

UsageOnly == UNCHANGED <<renewalVars, subscriptionVars>>
RenewalsOnly == UNCHANGED <<meteringVars, subscriptionVars>>
SubscriptionsOnly == UNCHANGED <<schedulerVars, meteringVars, renewalVars>>

Next ==
    /\ \/ work.on = "usage" /\ UsageNext /\ UsageOnly
       \/ work.on = "renewals" /\ RenewalsNext /\ RenewalsOnly
       \/ work.on = "subscriptions" /\ SubscriptionsNext /\ SubscriptionsOnly
    /\ today' <= work.days
    /\ Cardinality({c \in Client : tx'[c] # NoTx}) <= work.requests
    /\ UNCHANGED work

Spec == Init /\ [][Next]_vars

----------------------------------------------------------------------------
(* Properties. *)

\* No day is passed over (run_worker, enqueue_daily): once every worker takes
\* the day as done, and nobody is in the sweep, the day's jobs are on the queue
\* - whichever workers found the sweep taken, failed in it or died in it.
DayIsScheduled ==
    work.on = "usage" /\ sweep = NoSweep /\ (\A w \in Worker : marked[w] = today)
        => \A j \in DailyJobs(UsageKinds) : phase[j] # "absent"
=============================================================================
