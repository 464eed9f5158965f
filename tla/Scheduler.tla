------------------------------ MODULE Scheduler ------------------------------
(***************************************************************************)
(* The daily sweep: each worker remembers the last day it looked after.    *)
(* On a new day it tries for an advisory lock; the one that gets it queues *)
(* the day's jobs in one transaction, the others take the day as done.     *)
(***************************************************************************)
EXTENDS Worker

CONSTANTS
    Days,       \* bound: the days of a behaviour
    NoSweep

ASSUME SchedulerAssumption ==
    /\ Days \in Nat \ {0} /\ Worker # {}
    /\ \A j \in Job : j \in STRING \X Nat

VARIABLES
    today,
    marked,     \* marked[w]: last_scheduled, in the memory of worker w; 0: None
    sweep       \* the worker inside enqueue_daily, the day it took and the jobs it wants

schedulerVars == <<today, marked, sweep>>

SchedulerInit ==
    /\ today = 1
    /\ marked = [w \in Worker |-> 0]
    /\ sweep = NoSweep

\* Workers that were just started, with some faults to come.
LoopInit == SchedulerInit /\ WorkerInit /\ faults \in 0 .. MaxFaults

Sweeping(w) == sweep # NoSweep /\ sweep.by = w

\* The jobs of the kinds in K that a sweep queues today: their key is the day.
DailyJobs(K) == {j \in Job : j[1] \in K /\ j[2] = today}

\* At the top of its loop a worker compares the day with its memory.  The
\* advisory lock is tried, not waited for.
BeginSweep(w, K) ==
    /\ exec[w] = NoExec /\ ~Sweeping(w)
    /\ marked[w] # today
    /\ IF sweep = NoSweep
       THEN sweep' = [by |-> w, day |-> today, jobs |-> DailyJobs(K)] /\ UNCHANGED marked
       ELSE marked' = [marked EXCEPT ![w] = today] /\ UNCHANGED sweep
    /\ UNCHANGED <<workerVars, today>>

\* The batch commits once; jobs that are on the queue already are left alone.
EndSweep(w) ==
    /\ Sweeping(w)
    /\ Enqueue(sweep.jobs)
    /\ marked' = [marked EXCEPT ![w] = sweep.day]
    /\ sweep' = NoSweep
    /\ UNCHANGED <<exec, tx, faults, today>>

\* Mutant: the day counts as done before the sweep is through.
ForgetMarked(w) == marked' = [marked EXCEPT ![w] = sweep.day]

\* An exception ends the turn of the loop before the day is remembered.
Forget(w) == UNCHANGED marked

FailSweep(w) ==
    /\ Fault
    /\ Sweeping(w)
    /\ Forget(w)
    /\ sweep' = NoSweep
    /\ UNCHANGED <<queueVars, exec, tx, today>>

\* The process dies, between jobs or in a handler, and is started again with an
\* empty memory.
Die(w) ==
    /\ \/ Crash(w)
       \/ Sweeping(w) /\ Fault /\ UNCHANGED <<queueVars, exec, tx>>
    /\ marked' = [marked EXCEPT ![w] = 0]
    /\ sweep' = IF Sweeping(w) THEN NoSweep ELSE sweep
    /\ UNCHANGED today

NewDay ==
    /\ today < Days
    /\ today' = today + 1
    /\ UNCHANGED <<workerVars, marked, sweep>>

\* A worker takes jobs when it is not sweeping.
Drain(w) == ~Sweeping(w) /\ (\E j \in Job : Take(w, j)) /\ UNCHANGED schedulerVars

\* One turn of the loop of a worker.
Loop(w, K) ==
    BeginSweep(w, K) \/ EndSweep(w) \/ Drain(w) \/ (Finish(w) /\ UNCHANGED schedulerVars)

SchedulerNext(K) ==
    \/ \E w \in Worker :
         Loop(w, K) \/ FailSweep(w) \/ Die(w) \/ (LoseLease(w) /\ UNCHANGED schedulerVars)
    \/ (\E j \in Job : Reclaim(j) \/ Revive(j)) /\ UNCHANGED schedulerVars
    \/ NewDay
=============================================================================
