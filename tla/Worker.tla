------------------------------- MODULE Worker -------------------------------
(***************************************************************************)
(* Workers that run handlers for the jobs of the queue.  The queue is its  *)
(* contract (JobContract, which JobQueue implements); this module adds the *)
(* executions: what a handler has done so far, and what may happen to it.  *)
(* An execution goes on after its lease was lost, next to the one that     *)
(* replaced it, and then reports over it: the report is not fenced, which  *)
(* is more than the contract allows.                                       *)
(***************************************************************************)
EXTENDS Naturals, FiniteSets

CONSTANTS
    Job, Worker, MaxAttempts, NoWorker,
    MaxFaults,   \* bound: the faults of a behaviour
    Client,      \* requests in flight, at most one per client
    NoExec, NoTx

VARIABLES
    phase, runner, tries,  \* the jobs, see JobContract
    exec,    \* exec[w]: the job worker w works at, and how far its handler got
    tx,      \* tx[a]: the open transaction of a worker or a client
    faults   \* the faults still to come

queueVars == <<phase, runner, tries>>
workerVars == <<phase, runner, tries, exec, tx, faults>>

Queue == INSTANCE JobContract

Actor == Worker \cup Client

\* Where a handler stands: at its begin, in a call it waits for, after it, or
\* through.
Step == {"begin", "smtp", "accepted", "uncertain", "parsing", "calling", "answered", "applying",
         "failing", "refused", "done"}

ASSUME ActorAssumption ==
    /\ MaxFaults \in Nat
    /\ MaxAttempts \in Nat
    /\ Worker \cap Client = {}
    /\ NoExec \notin [job : Job, at : Step]

WorkerInit ==
    /\ Queue!Init
    /\ exec = [w \in Worker |-> NoExec]
    /\ tx = [a \in Actor |-> NoTx]

\* `enqueue(..., idempotency_key)` in a transaction: a key in use is a no-op.
Enqueue(S) ==
    /\ phase' = [j \in Job |-> IF j \in S /\ phase[j] = "absent" THEN "queued" ELSE phase[j]]
    /\ UNCHANGED <<runner, tries>>

Ended(j) == phase[j] \notin {"queued", "running"}

----------------------------------------------------------------------------
(* Transactions: a transaction reads under its locks and later commits.    *)

Locked(x) == \E a \in Actor : tx[a] # NoTx /\ x \in tx[a].locks

Open(a, t) ==
    /\ tx[a] = NoTx
    /\ \A x \in t.locks : ~Locked(x)
    /\ tx' = [tx EXCEPT ![a] = t]

Close(a) == tx' = [tx EXCEPT ![a] = NoTx]

----------------------------------------------------------------------------
(* Executions. *)

At(w, step) == exec[w] # NoExec /\ exec[w].at = step

Goto(w, step) == exec' = [exec EXCEPT ![w].at = step]

Stop(w) == exec' = [exec EXCEPT ![w] = NoExec] /\ Close(w)

Claims(w) == runner[exec[w].job] = w

\* `claim`, then the handler registered for the kind.
Take(w, j) ==
    /\ exec[w] = NoExec
    /\ Queue!Start(w, j)
    /\ exec' = [exec EXCEPT ![w] = [job |-> j, at |-> "begin"]]
    /\ UNCHANGED <<tx, faults>>

\* A report writes the row by its primary key, whoever runs the job by then.
Report(j, status) ==
    /\ phase' = [phase EXCEPT ![j] = status]
    /\ runner' = [runner EXCEPT ![j] = NoWorker]
    /\ UNCHANGED tries

\* `_complete`.
Finish(w) ==
    /\ At(w, "done")
    /\ Report(exec[w].job, "succeeded")
    /\ Stop(w)
    /\ UNCHANGED faults

\* `_fail`: an ordinary error uses up an attempt, a PermanentJobError the job.
Raise(w, permanent) ==
    LET j == exec[w].job IN
    /\ Report(j, IF ~permanent /\ tries[j] < MaxAttempts THEN "queued" ELSE "dead")
    /\ Stop(w)

\* The handler reaches a point where it raises PermanentJobError.
Refuse(w) == At(w, "refused") /\ Raise(w, TRUE) /\ UNCHANGED faults

Fault == faults > 0 /\ faults' = faults - 1

\* The process dies: its transactions are rolled back, its job looks running.
Crash(w) ==
    /\ Fault
    /\ exec[w] # NoExec
    /\ IF Claims(w) THEN Queue!Abandon(exec[w].job) ELSE UNCHANGED queueVars
    /\ Stop(w)

\* The heartbeat did not get through for so long that the lease ran out.
LoseLease(w) ==
    /\ Fault
    /\ exec[w] # NoExec
    /\ Claims(w)
    /\ Queue!Abandon(exec[w].job)
    /\ UNCHANGED <<exec, tx>>

\* Mutant: the sweep only buries jobs, and requeues none.
ReclaimSpent(j) ==
    /\ phase[j] = "running" /\ runner[j] = NoWorker
    /\ tries[j] = MaxAttempts
    /\ Queue!Recover({j})
    /\ UNCHANGED <<exec, tx, faults>>

\* `reclaim_stale`.
Reclaim(j) ==
    /\ phase[j] = "running" /\ runner[j] = NoWorker
    /\ Queue!Recover({j})
    /\ UNCHANGED <<exec, tx, faults>>

\* An operator retries a dead job.
Revive(j) ==
    /\ Fault
    /\ phase[j] = "dead"
    /\ Queue!Retry(j)
    /\ phase'[j] = "queued" /\ tries'[j] = 0
    /\ UNCHANGED <<exec, tx>>

\* What the queue and the machines do, whatever the handlers are.
Serve == \E w \in Worker : Finish(w) \/ Refuse(w) \/ \E j \in Job : Take(w, j)
Repair == \E j \in Job : Reclaim(j)
Trouble ==
    \/ \E w \in Worker : Crash(w) \/ LoseLease(w)
    \/ \E j \in Job : Revive(j)
=============================================================================
