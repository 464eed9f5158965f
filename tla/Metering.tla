------------------------------ MODULE Metering ------------------------------
(***************************************************************************)
(* Metered usage: a counter per month, reported to the provider in frozen  *)
(* segments.  A segment is committed before the call and acknowledged by a *)
(* compare-and-set after it; runs may overlap, and nothing is locked while *)
(* the provider is asked.                                                  *)
(***************************************************************************)
EXTENDS Scheduler

CONSTANTS
    MonthOf,    \* the month of each day
    MaxCount    \* bound: the units used in a month

ASSUME MeteringAssumption == MonthOf \in [1 .. Days -> Nat] /\ MaxCount \in Nat

VARIABLES
    counter,    \* counter[m]: the usage counter of month m
    segments,   \* the identifiers the provider has seen: it takes each of them once
    billed      \* billed[m]: the units of month m the provider has taken

meteringVars == <<counter, segments, billed>>

Month == {MonthOf[d] : d \in 1 .. Days}

CounterRow == [count : Nat, reported : Nat, target : Nat]    \* target: reporting_target

\* A counter may be older than its column reporting_target, which then is 0.
MeteringInit ==
    \E legacy \in {0, 1} :
        /\ counter = [m \in Month |-> IF m = MonthOf[1]
                                      THEN [count |-> legacy, reported |-> legacy, target |-> 0]
                                      ELSE [count |-> 0, reported |-> 0, target |-> 0]]
        /\ segments = {<<MonthOf[1], n>> : n \in 1 .. legacy}
        /\ billed = [m \in Month |-> IF m = MonthOf[1] THEN legacy ELSE 0]

OnUsage(w) == exec[w] # NoExec /\ exec[w].job[1] = "usage"

\* record_usage: one statement adds to the counter.
Use ==
    LET m == MonthOf[today] IN
    /\ counter[m].count < MaxCount
    /\ counter' = [counter EXCEPT ![m].count = @ + 1]
    /\ UNCHANGED <<workerVars, schedulerVars, segments, billed>>

\* The segment in flight ends where the provider's word ends, at the least.
Boundary(c) == IF c.target < c.reported THEN c.reported ELSE c.target

\* Mutant: a replay takes the usage since then along.
SegmentToNow(c) == c.count

\* A segment in flight is replayed as it was frozen; or the next one begins.
Segment(c) == IF Boundary(c) > c.reported THEN c.target ELSE c.count

\* report_org_usage, for the month of the day it runs on, up to the commit that
\* precedes the call.
Freeze(w) ==
    LET m == MonthOf[today]
        target == Segment(counter[m])
    IN
    /\ At(w, "begin") /\ OnUsage(w)
    /\ IF target > counter[m].reported
       THEN /\ counter' = [counter EXCEPT ![m].target = target]
            /\ Open(w, [locks |-> {}, month |-> m, target |-> target,
                        quantity |-> target - counter[m].reported])
            /\ Goto(w, "calling")
       ELSE /\ counter' = [counter EXCEPT ![m].target = Boundary(counter[m])]
            /\ Goto(w, "done")
            /\ UNCHANGED tx
    /\ UNCHANGED <<queueVars, faults, schedulerVars, segments, billed>>

\* The provider takes an identifier once.
Taken(q) ==
    IF <<q.month, q.target>> \in segments THEN UNCHANGED <<segments, billed>>
    ELSE /\ segments' = segments \cup {<<q.month, q.target>>}
         /\ billed' = [billed EXCEPT ![q.month] = @ + q.quantity]

\* The call is answered; or it fails, heard or not, and the job ends quietly.
CallProvider(w) ==
    /\ At(w, "calling") /\ OnUsage(w)
    /\ \/ Taken(tx[w]) /\ Goto(w, "answered") /\ UNCHANGED <<tx, faults>>
       \/ /\ Fault
          /\ Taken(tx[w]) \/ UNCHANGED <<segments, billed>>
          /\ Goto(w, "done") /\ Close(w)
    /\ UNCHANGED <<queueVars, schedulerVars, counter>>

\* The acknowledgement is a compare-and-set.
Current(c, q) == c.target = q.target /\ c.reported < q.target

Acknowledge(w) ==
    LET q == tx[w] IN
    /\ At(w, "answered") /\ OnUsage(w)
    /\ counter' = IF Current(counter[q.month], q)
                  THEN [counter EXCEPT ![q.month].reported = q.target] ELSE counter
    /\ Goto(w, "done") /\ Close(w)
    /\ UNCHANGED <<queueVars, faults, schedulerVars, segments, billed>>

UsageKinds == {"usage"}

UsageNext ==
    \/ Use
    \/ \E w \in Worker : Freeze(w) \/ CallProvider(w) \/ Acknowledge(w)
    \/ SchedulerNext(UsageKinds) /\ UNCHANGED meteringVars

UsageSpec == LoopInit /\ MeteringInit /\ [][UsageNext]_<<workerVars, schedulerVars, meteringVars>>

----------------------------------------------------------------------------
(* Properties. *)

\* No unit is billed twice (report_org_usage): what the provider has taken is
\* what it acknowledged, or that and the one segment in flight - and never more
\* than was used - through lost answers, growing usage and overlapping runs.
MeteredOnce ==
    \A m \in Month :
        /\ counter[m] \in CounterRow
        /\ billed[m] \in {counter[m].reported, Boundary(counter[m])}
        /\ Boundary(counter[m]) <= counter[m].count
=============================================================================
