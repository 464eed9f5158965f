----------------------------- MODULE JobContract -----------------------------
(***************************************************************************)
(* What the job queue promises, without rows, leases or transactions: a    *)
(* job has at most one runner, it is started only from the queue and at    *)
(* most MaxAttempts times between two manual retries, only a job without a *)
(* runner is taken away from it, and a success is final.                   *)
(***************************************************************************)
EXTENDS Naturals

CONSTANTS Job, Worker, MaxAttempts, NoWorker

VARIABLES
    phase,   \* phase[j]: the status of job j
    runner,  \* runner[j]: the worker inside an attempt at j, if any
    tries    \* tries[j]: attempts since the job was queued or last retried

Init ==
    /\ phase = [j \in Job |-> "absent"]
    /\ runner = [j \in Job |-> NoWorker]
    /\ tries = [j \in Job |-> 0]

Submit(j) ==
    /\ phase[j] = "absent"
    /\ phase' = [phase EXCEPT ![j] = "queued"]
    /\ UNCHANGED <<runner, tries>>

Start(w, j) ==
    /\ phase[j] = "queued"
    /\ tries[j] < MaxAttempts
    /\ w \notin {runner[i] : i \in Job}
    /\ phase' = [phase EXCEPT ![j] = "running"]
    /\ runner' = [runner EXCEPT ![j] = w]
    /\ tries' = [tries EXCEPT ![j] = @ + 1]

Succeed(j) ==
    /\ runner[j] # NoWorker
    /\ phase' = [phase EXCEPT ![j] = "succeeded"]
    /\ runner' = [runner EXCEPT ![j] = NoWorker]
    /\ UNCHANGED tries

\* The runner's attempt failed: retried if attempts are left, or dead.
Fail(j) ==
    /\ runner[j] # NoWorker
    /\ \E next \in {"queued", "dead"} :
         /\ next = "queued" => tries[j] < MaxAttempts
         /\ phase' = [phase EXCEPT ![j] = next]
    /\ runner' = [runner EXCEPT ![j] = NoWorker]
    /\ UNCHANGED tries

\* The runner is gone; the job still looks running.
Abandon(j) ==
    /\ runner[j] # NoWorker
    /\ runner' = [runner EXCEPT ![j] = NoWorker]
    /\ UNCHANGED <<phase, tries>>

\* A sweep takes abandoned jobs away from their dead runners.
Recover(S) ==
    /\ \A j \in S : phase[j] = "running" /\ runner[j] = NoWorker
    /\ phase' = [j \in Job |-> IF j \notin S THEN phase[j]
                               ELSE IF tries[j] < MaxAttempts THEN "queued" ELSE "dead"]
    /\ UNCHANGED <<runner, tries>>

\* An operator gives a job its attempts back, and revives a dead one.
Retry(j) ==
    /\ phase[j] # "absent"
    /\ phase' \in {phase, [phase EXCEPT ![j] = IF @ = "dead" THEN "queued" ELSE @]}
    /\ tries' \in {tries, [tries EXCEPT ![j] = 0]}
    /\ UNCHANGED runner

Next ==
    \/ \E j \in Job : Submit(j) \/ Succeed(j) \/ Fail(j) \/ Abandon(j) \/ Retry(j)
    \/ \E j \in Job, w \in Worker : Start(w, j)
    \/ \E S \in SUBSET Job : Recover(S)

Spec == Init /\ [][Next]_<<phase, runner, tries>>
=============================================================================
