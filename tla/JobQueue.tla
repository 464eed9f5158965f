------------------------------ MODULE JobQueue ------------------------------
(***************************************************************************)
(* The durable job queue: rows of the `jobs` table, the worker processes   *)
(* that lease and run them, and the API requests that requeue them.        *)
(*                                                                         *)
(* The table is shared through READ COMMITTED transactions, so the unit of *)
(* atomicity is the commit.  A statement with a WHERE on the status is one *)
(* step; a row that is loaded, inspected and then flushed by primary key   *)
(* is two steps, and the flush writes only the columns whose value differs *)
(* from the loaded one (the ORM's unit of work).                           *)
(*                                                                         *)
(* Time is abstracted to the two comparisons the code makes: a lease       *)
(* (locked_at) is fresh or stale, and a run_after has come or not.         *)
(***************************************************************************)
EXTENDS Naturals, FiniteSets

CONSTANTS
    Job,          \* the units of work, one per (org, kind, idempotency key)
    Worker,       \* worker processes, by worker id (host:pid)
    Client,       \* API requests that may ask for a manual retry
    Lane,         \* Lane[w]: the jobs whose kind worker w drains
    Handled,      \* the jobs whose kind has a registered handler
    MaxAttempts,  \* max_attempts of every row
    MaxRetries,   \* bound: how many manual retries are ever granted
    Env,          \* which disturbances the environment produces
    NoJob, NoWorker, NoRow

Disturbances == {
    "crash",    \* a worker process dies, or an error escapes to its outer loop
    "stall",    \* a live worker fails to renew its lease for STALE_LEASE_SECONDS
    "overlap",  \* two load-then-flush transactions on one row overlap
    "ackloss"}  \* a commit is applied but reported to its caller as failed

ASSUME QueueAssumption ==
    /\ MaxAttempts \in Nat \ {0}
    /\ MaxRetries \in Nat
    /\ Env \subseteq Disturbances
    /\ Lane \in [Worker -> SUBSET Job]
    /\ Handled \subseteq Job
    /\ NoJob \notin Job
    /\ NoWorker \notin Worker
    /\ Worker \cap Client = {}

VARIABLES
    job,      \* the table: job[j] is the row of j
    pc,       \* where each worker's loop is
    on,       \* the row a worker has picked or is running
    beating,  \* whether the worker's heartbeat loop still renews
    seen,     \* seen[p][j]: the row as process p loaded it, until p flushes
    retries   \* manual retries granted so far

vars == <<job, pc, on, beating, seen, retries>>

Process == Worker \cup Client

Row == [status   : {"absent", "queued", "running", "succeeded", "dead"},
        attempts : Nat,
        lease    : {"none", "fresh", "stale"},   \* locked_at
        by       : Worker \cup {NoWorker},       \* locked_by
        due      : BOOLEAN]                      \* run_after <= now

ASSUME NoRowAssumption == NoRow \notin Row

Absent == [status |-> "absent", attempts |-> 0, lease |-> "none",
           by |-> NoWorker, due |-> FALSE]

Nothing == [j \in Job |-> NoRow]

----------------------------------------------------------------------------
(* Loading and flushing rows. *)

Unlocked(r) == [r EXCEPT !.lease = "none", !.by = NoWorker]

\* A flush by primary key: the columns of `new` that differ from the loaded
\* row are written over whatever the row has become since.  `run_after` is a
\* fresh timestamp whenever it is assigned, so it is passed apart.
Flush(row, loaded, new, due) ==
    [status   |-> IF new.status   = loaded.status   THEN row.status   ELSE new.status,
     attempts |-> IF new.attempts = loaded.attempts THEN row.attempts ELSE new.attempts,
     lease    |-> IF new.lease    = loaded.lease    THEN row.lease    ELSE new.lease,
     by       |-> IF new.by       = loaded.by       THEN row.by       ELSE new.by,
     due      |-> due]

Loaded(p) == {j \in Job : seen[p][j] # NoRow}

\* Unless transactions may overlap, a row is loaded for writing only while no
\* other process is between its own load and flush of that row.
MayLoad(S) ==
    "overlap" \in Env \/ \A p \in Process : S \cap Loaded(p) = {}

Load(p, S) ==
    /\ MayLoad(S)
    /\ seen' = [seen EXCEPT ![p] = [j \in Job |-> IF j \in S THEN job[j] ELSE NoRow]]

Forget(p) == seen' = [seen EXCEPT ![p] = Nothing]

GoTo(w, label, j) ==
    /\ pc' = [pc EXCEPT ![w] = label]
    /\ on' = [on EXCEPT ![w] = j]

----------------------------------------------------------------------------
(* Enqueue and claim. *)

\* enqueue: with an idempotency key the unique index admits one row per key,
\* so a repeat finds the row (live or finished) and changes nothing.
Enqueue(j) ==
    /\ job[j].status = "absent"
    /\ job' = [job EXCEPT ![j].status = "queued", ![j].due = TRUE]
    /\ UNCHANGED <<pc, on, beating, seen, retries>>

Ready(j) == job[j].status = "queued" /\ job[j].due

\* claim, the SELECT: a ready job of the worker's lane.
ClaimRead(w) ==
    /\ pc[w] = "idle"
    /\ \E j \in Lane[w] : Ready(j) /\ GoTo(w, "claiming", j)
    /\ UNCHANGED <<job, beating, seen, retries>>

\* Mutant: the claim's UPDATE without its guard on the status.
ClaimableByAnyone(r) == r.status \in {"queued", "running"}

\* The guard of the claim's UPDATE.
Claimable(r) == r.status = "queued"

\* claim, the guarded UPDATE that won; the heartbeat starts with the handler.
ClaimWin(w) ==
    LET j == on[w] IN
    /\ pc[w] = "claiming"
    /\ Claimable(job[j])
    /\ job' = [job EXCEPT ![j].status = "running", ![j].attempts = @ + 1,
                          ![j].lease = "fresh", ![j].by = w]
    /\ GoTo(w, "running", j)
    /\ beating' = [beating EXCEPT ![w] = TRUE]
    /\ UNCHANGED <<seen, retries>>

\* claim, the guarded UPDATE that matched no row: try the next candidate.
ClaimLose(w) ==
    /\ pc[w] = "claiming"
    /\ ~Claimable(job[on[w]])
    /\ GoTo(w, "idle", NoJob)
    /\ UNCHANGED <<job, beating, seen, retries>>

----------------------------------------------------------------------------
(* Running a claimed job. *)

\* A renewal by the heartbeat, in its own transaction.  It matches only a row
\* still RUNNING and locked by this worker; a miss ends the heartbeat.
Holds(w, j) == job[j].status = "running" /\ job[j].by = w

Renew(w) ==
    LET j == on[w] IN
    /\ pc[w] \in {"running", "failing"}
    /\ beating[w]
    /\ IF Holds(w, j)
         THEN job' = [job EXCEPT ![j].lease = "fresh"] /\ UNCHANGED beating
         ELSE beating' = [beating EXCEPT ![w] = FALSE] /\ UNCHANGED job
    /\ UNCHANGED <<pc, on, seen, retries>>

\* _complete writes by primary key, whoever holds the lease by then.
Succeeded(r) == [Unlocked(r) EXCEPT !.status = "succeeded"]

Runs(w) == pc[w] = "running" /\ on[w] \in Handled

Complete(w) ==
    LET j == on[w] IN
    /\ Runs(w)
    /\ job' = [job EXCEPT ![j] = Succeeded(@)]
    /\ GoTo(w, "idle", NoJob)
    /\ beating' = [beating EXCEPT ![w] = FALSE]
    /\ UNCHANGED <<seen, retries>>

\* The commit of _complete reached the database but its reply did not: the
\* exception sends the worker to the failure path, which loads the new row.
CompleteUnheard(w) ==
    LET j == on[w] IN
    /\ "ackloss" \in Env
    /\ Runs(w)
    /\ MayLoad({j})
    /\ job' = [job EXCEPT ![j] = Succeeded(@)]
    /\ seen' = [seen EXCEPT ![w] = [Nothing EXCEPT ![j] = Succeeded(job[j])]]
    /\ GoTo(w, "failing", j)
    /\ UNCHANGED <<beating, retries>>

\* The handler raised or ran past its deadline: roll back and load the row.
Raise(w) ==
    /\ Runs(w)
    /\ Load(w, {on[w]})
    /\ GoTo(w, "failing", on[w])
    /\ UNCHANGED <<job, beating, retries>>

\* Mutant: a requeue that ignores the attempt counter.
RequeuedForEver(r) == [Unlocked(r) EXCEPT !.status = "queued"]

\* Where a failed or abandoned row goes: back to the queue with a backoff
\* while it has attempts left, to the dead letters otherwise.
Requeued(r) ==
    [Unlocked(r) EXCEPT !.status = IF r.attempts >= MaxAttempts THEN "dead" ELSE "queued"]

Buried(r) == [Unlocked(r) EXCEPT !.status = "dead"]

\* run_after moves only with a requeue, and then into the future.
Put(j, loaded, new) ==
    Flush(job[j], loaded, new, IF new.status = "dead" THEN job[j].due ELSE FALSE)

\* _fail: flush the row as it was loaded, dead at once for a permanent error.
FailWrite(w) ==
    LET j == on[w]
        r == seen[w][j]
    IN
    /\ pc[w] = "failing"
    /\ \E new \in {Requeued(r), Buried(r)} : job' = [job EXCEPT ![j] = Put(j, r, new)]
    /\ GoTo(w, "idle", NoJob)
    /\ beating' = [beating EXCEPT ![w] = FALSE]
    /\ Forget(w)
    /\ UNCHANGED retries

\* run_once with no handler for the kind: dead-letter without retrying.
Misconfigured(w) ==
    LET j == on[w] IN
    /\ pc[w] = "running"
    /\ j \notin Handled
    /\ job' = [job EXCEPT ![j] = Buried(@)]
    /\ GoTo(w, "idle", NoJob)
    /\ beating' = [beating EXCEPT ![w] = FALSE]
    /\ UNCHANGED <<seen, retries>>

----------------------------------------------------------------------------
(* Crashes, and the sweep that returns abandoned rows. *)

Die(w) ==
    /\ GoTo(w, "down", NoJob)
    /\ beating' = [beating EXCEPT ![w] = FALSE]
    /\ Forget(w)
    /\ UNCHANGED <<job, retries>>

Crash(w) == "crash" \in Env /\ pc[w] # "down" /\ Die(w)

\* The handler takes its process with it (out of memory, a native crash).
Killed(w) == Runs(w) /\ Die(w)

Restart(w) ==
    /\ pc[w] = "down"
    /\ GoTo(w, "idle", NoJob)
    /\ UNCHANGED <<job, beating, seen, retries>>

\* Mutants: a sweep that takes live leases too, and one that overlooks the rows
\* which have used their attempts.
ExpiredOrLive(r) == r.status = "running"
ExpiredWithAttemptsLeft(r) ==
    r.status = "running" /\ r.lease # "fresh" /\ r.attempts < MaxAttempts

Expired(r) == r.status = "running" /\ r.lease # "fresh"

\* reclaim_stale, the SELECT, over every lane.
ReclaimRead(w) ==
    LET stale == {j \in Job : Expired(job[j])} IN
    /\ pc[w] = "idle"
    /\ stale # {}
    /\ Load(w, stale)
    /\ GoTo(w, "reclaiming", NoJob)
    /\ UNCHANGED <<job, beating, retries>>

\* reclaim_stale, the flush and commit of every row it loaded.
ReclaimWrite(w) ==
    /\ pc[w] = "reclaiming"
    /\ job' = [j \in Job |->
                 IF j \in Loaded(w) THEN Put(j, seen[w][j], Requeued(seen[w][j]))
                                    ELSE job[j]]
    /\ GoTo(w, "idle", NoJob)
    /\ Forget(w)
    /\ UNCHANGED <<beating, retries>>

----------------------------------------------------------------------------
(* Manual retry, by an API request. *)

\* Mutant: a retry that accepts finished work.
RetryableWhenDone(r) == r.status \in {"queued", "dead", "succeeded"}

Retryable(r) == r.status \in {"queued", "dead"}

RetryRead(c, j) ==
    /\ Loaded(c) = {}
    /\ retries < MaxRetries
    /\ Retryable(job[j])
    /\ Load(c, {j})
    /\ UNCHANGED <<job, pc, on, beating, retries>>

RetryWrite(c, j) ==
    LET r == seen[c][j] IN
    /\ r # NoRow
    /\ retries < MaxRetries
    /\ job' = [job EXCEPT ![j] =
                 Flush(@, r, [Unlocked(r) EXCEPT !.status = "queued", !.attempts = 0], TRUE)]
    /\ Forget(c)
    /\ retries' = retries + 1
    /\ UNCHANGED <<pc, on, beating>>

\* The request fails before its commit, and is rolled back.
RetryFail(c) ==
    /\ Loaded(c) # {}
    /\ Forget(c)
    /\ UNCHANGED <<job, pc, on, beating, retries>>

----------------------------------------------------------------------------
(* The clock. *)

Renewing(j) ==
    \E w \in Worker : /\ pc[w] \in {"running", "failing"} /\ on[w] = j
                      /\ beating[w] /\ Holds(w, j)

\* STALE_LEASE_SECONDS pass without a renewal.  A live heartbeat renews five
\* times in that span, so this happens to a renewing lease only by a stall.
LeaseExpires(j) ==
    /\ job[j].status = "running"
    /\ job[j].lease = "fresh"
    /\ "stall" \in Env \/ ~Renewing(j)
    /\ job' = [job EXCEPT ![j].lease = "stale"]
    /\ UNCHANGED <<pc, on, beating, seen, retries>>

BackoffElapses(j) ==
    /\ job[j].status = "queued"
    /\ ~job[j].due
    /\ job' = [job EXCEPT ![j].due = TRUE]
    /\ UNCHANGED <<pc, on, beating, seen, retries>>

----------------------------------------------------------------------------
Init ==
    /\ job = [j \in Job |-> Absent]
    /\ pc = [w \in Worker |-> "idle"]
    /\ on = [w \in Worker |-> NoJob]
    /\ beating = [w \in Worker |-> FALSE]
    /\ seen = [p \in Process |-> Nothing]
    /\ retries = 0

\* What ends the execution of a claimed job.
Finish(w) == Complete(w) \/ Raise(w) \/ Misconfigured(w) \/ Killed(w)

WorkerStep(w) ==
    \/ ClaimRead(w) \/ ClaimWin(w) \/ ClaimLose(w)
    \/ Renew(w) \/ Finish(w) \/ CompleteUnheard(w) \/ FailWrite(w)
    \/ ReclaimRead(w) \/ ReclaimWrite(w)
    \/ Crash(w) \/ Restart(w)

ClientStep(c) ==
    \/ \E j \in Job : RetryRead(c, j) \/ RetryWrite(c, j)
    \/ RetryFail(c)

JobStep(j) == Enqueue(j) \/ LeaseExpires(j) \/ BackoffElapses(j)

Next ==
    \/ \E w \in Worker : WorkerStep(w)
    \/ \E c \in Client : ClientStep(c)
    \/ \E j \in Job : JobStep(j)

Spec == Init /\ [][Next]_vars

\* The steps a worker owes: it looks for work and for abandoned rows, lands the
\* transaction it began, and ends the execution it is in or is restarted.
Look(w) == ClaimRead(w) \/ ReclaimRead(w)
Land(w) == ClaimWin(w) \/ ClaimLose(w) \/ ReclaimWrite(w)
Turn(w) == Restart(w) \/ Finish(w) \/ FailWrite(w)

Answer(c) == RetryFail(c) \/ \E j \in Job : RetryWrite(c, j)

Clock(j) == BackoffElapses(j) \/ (LeaseExpires(j) /\ ~Renewing(j))

\* A dead worker is restarted, its loop keeps polling, its deadline ends every
\* handler (_run_handler), requests end and the clock moves.  SF where a crash
\* can interrupt: no worker is killed for ever before the same step.
Fairness ==
    /\ \A w \in Worker : SF_vars(Look(w)) /\ SF_vars(Land(w)) /\ WF_vars(Turn(w))
    /\ \A c \in Client : WF_vars(Answer(c))
    /\ \A j \in Job : WF_vars(Clock(j))

FairSpec == Spec /\ Fairness

----------------------------------------------------------------------------
(* Properties. *)

\* The type invariant: rows, worker locations and loaded rows are well formed,
\* a worker is on a job exactly while it picks, runs or fails one, and holds a
\* loaded row exactly while it is between a load and its flush.
TypeOK ==
    /\ job \in [Job -> Row]
    /\ pc \in [Worker -> {"idle", "claiming", "running", "failing", "reclaiming", "down"}]
    /\ on \in [Worker -> Job \cup {NoJob}]
    /\ beating \in [Worker -> BOOLEAN]
    /\ seen \in [Process -> [Job -> Row \cup {NoRow}]]
    /\ retries \in 0 .. MaxRetries
    /\ \A w \in Worker :
         /\ pc[w] \in {"claiming", "running", "failing"} <=> on[w] \in Job
         /\ pc[w] = "failing" => seen[w][on[w]] # NoRow

\* A job runs on one worker at a time: no two workers are inside the handler
\* of the same row (claim, reclaim_stale, retry and _fail together).
OneRunner ==
    \A v, w \in Worker :
        pc[v] = "running" /\ pc[w] = "running" /\ on[v] = on[w] => v = w

\* A row is claimed at most max_attempts times between two manual retries,
\* also when its handler kills the worker: the counter moves on claim and both
\* _fail and reclaim_stale dead-letter a row that has used its attempts.
AttemptsBounded ==
    \A j \in Job :
        /\ job[j].attempts <= MaxAttempts
        /\ job[j].status = "queued" => job[j].attempts < MaxAttempts

\* Even when leases are lost and transactions overlap, a spent row comes back
\* only through a flush of a row loaded before it was spent, so the overrun is
\* bounded by the number of other workers.
AttemptsOverrun ==
    \A j \in Job : job[j].attempts < MaxAttempts + Cardinality(Worker)

\* Finished work stays finished: no late failure, sweep or retry moves a row
\* out of `succeeded`.
SucceededIsFinal ==
    [][\A j \in Job : job[j].status = "succeeded" => job'[j].status = "succeeded"]_vars

\* The rows and the workers implement JobContract: the runner of a job is the
\* worker inside its handler or its failure path.
RunnerOf(j) ==
    LET inside == {w \in Worker : pc[w] \in {"running", "failing"} /\ on[w] = j}
    IN  IF inside = {} THEN NoWorker ELSE CHOOSE w \in inside : TRUE

Contract == INSTANCE JobContract WITH
    phase  <- [j \in Job |-> job[j].status],
    runner <- [j \in Job |-> RunnerOf(j)],
    tries  <- [j \in Job |-> job[j].attempts]

ImplementsContract == Contract!Spec

Settled(j) == job[j].status \in {"succeeded", "dead"}

\* No job is lost and none is run for ever: once queued it comes to rest as
\* succeeded or dead-lettered, through every crash, stall, overlap and lost
\* reply, and also when its handler kills the worker at every attempt, and no
\* disturbance adds more than the bounded overrun to its attempts.
Settles ==
    /\ []AttemptsOverrun
    /\ \A j \in Job : job[j].status = "queued" ~> [](Settled(j))
=============================================================================
