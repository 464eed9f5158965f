--------------------------- MODULE JobQueueProofs ---------------------------
(***************************************************************************)
(* What TLAPS proves of JobQueue for any number of jobs, workers and       *)
(* clients.                                                                *)
(*                                                                         *)
(* TypeOK holds in every environment.  That a job has one runner, that its *)
(* attempts are bounded and that a success is final hold when leases and   *)
(* transactions behave (Orderly): processes may crash at any point, but no *)
(* live heartbeat misses its lease and no two load-then-flush transactions *)
(* on one row overlap: two overlapping retries give a job two runners.     *)
(* Under the same condition the queue implements JobContract.              *)
(***************************************************************************)
EXTENDS JobQueue, TLAPS

Orderly == Env \subseteq {"crash"}

Engaged(w) == pc[w] \in {"running", "failing"}

\* The worker inside a job holds its row, on a fresh lease that it renews.
LeaseInv ==
    \A w \in Worker : Engaged(w) =>
        Holds(w, on[w]) /\ job[on[w]].lease = "fresh" /\ beating[w]

\* A row is between load and flush in one process at most.
LoadInv ==
    \A p, q \in Process : \A j \in Job :
        seen[p][j] # NoRow /\ seen[q][j] # NoRow => p = q

\* What a worker has loaded is still what the row says, up to the age of its
\* lease: the worker failing it still holds it, and a swept row has no holder.
WorkerLoadInv ==
    \A w \in Worker : \A j \in Job : seen[w][j] # NoRow =>
        /\ job[j].status = "running"
        /\ seen[w][j].status = "running"
        /\ seen[w][j].lease # "none" /\ seen[w][j].by # NoWorker
        /\ seen[w][j].attempts = job[j].attempts
        /\ \/ pc[w] = "failing" /\ on[w] = j
           \/ pc[w] = "reclaiming" /\ job[j].lease # "fresh"

\* A row that a retry has loaded exists, carries no lock, and stays dead if it was.
ClientLoadInv ==
    \A c \in Client : \A j \in Job : seen[c][j] # NoRow =>
        /\ job[j].status # "absent"
        /\ seen[c][j].status \in {"queued", "dead"}
        /\ seen[c][j].lease = "none"
        /\ seen[c][j].by = NoWorker
        /\ seen[c][j].status = "dead" =>
             job[j].status = "dead" /\ job[j].attempts = seen[c][j].attempts

\* Exactly the running rows are locked, and only a queued one has attempts to come.
RowInv ==
    \A j \in Job :
        /\ job[j].status = "running" => job[j].lease # "none" /\ job[j].by # NoWorker
        /\ job[j].status # "running" => job[j].lease = "none" /\ job[j].by = NoWorker
        /\ job[j].status = "absent" => job[j].attempts = 0
        /\ job[j].status = "queued" => job[j].attempts < MaxAttempts
        /\ job[j].attempts <= MaxAttempts

Inv == TypeOK /\ LeaseInv /\ LoadInv /\ WorkerLoadInv /\ ClientLoadInv /\ RowInv

----------------------------------------------------------------------------
(* Rows stay rows. *)

\* Unlocking, finishing, requeueing and burying a row (_complete, _fail,
\* reclaim_stale) keep it a row and say which status it ends in.
LEMMA RowOps ==
    ASSUME NEW r \in Row
    PROVE  /\ Unlocked(r) \in Row /\ Succeeded(r) \in Row
           /\ Requeued(r) \in Row /\ Buried(r) \in Row
           /\ Requeued(r).status \in {"queued", "dead"}
           /\ Requeued(r).status = "queued" => r.attempts < MaxAttempts
           /\ Buried(r).status = "dead"
           /\ \A n \in {Requeued(r), Buried(r)} :
                n.lease = "none" /\ n.by = NoWorker /\ n.attempts = r.attempts
<1>1. Unlocked(r) \in Row /\ Succeeded(r) \in Row /\ Buried(r) \in Row
  BY DEF Row, Unlocked, Succeeded, Buried
<1>2. Requeued(r) \in Row
  BY DEF Row, Unlocked, Requeued
<1>3. r.attempts \in Nat
  BY DEF Row
<1>4. Requeued(r).status = "queued" => r.attempts < MaxAttempts
  BY <1>3, QueueAssumption DEF Row, Unlocked, Requeued
<1>5. /\ Requeued(r).status \in {"queued", "dead"}
      /\ Buried(r).status = "dead"
      /\ Requeued(r).lease = "none" /\ Requeued(r).by = NoWorker
      /\ Requeued(r).attempts = r.attempts
      /\ Buried(r).lease = "none" /\ Buried(r).by = NoWorker
      /\ Buried(r).attempts = r.attempts
  BY DEF Row, Unlocked, Requeued, Buried
<1> QED
  BY <1>1, <1>2, <1>4, <1>5

\* A flush of changed columns writes a row over a row.
LEMMA FlushRow ==
    ASSUME NEW row \in Row, NEW loaded \in Row, NEW new \in Row, NEW due \in BOOLEAN
    PROVE  Flush(row, loaded, new, due) \in Row
BY DEF Flush, Row

\* The same for the flush of a failure or a sweep, whose run_after moves only
\* with a requeue.
LEMMA PutRow ==
    ASSUME NEW j \in Job, job[j] \in Row, NEW loaded \in Row, NEW new \in Row
    PROVE  Put(j, loaded, new) \in Row
<1>1. (IF new.status = "dead" THEN job[j].due ELSE FALSE) \in BOOLEAN
  BY DEF Row
<1> QED
  BY <1>1, FlushRow DEF Put

----------------------------------------------------------------------------
(* The type invariant. *)

LEMMA TypeInit == Init => TypeOK
BY QueueAssumption DEF Init, TypeOK, Row, Absent, Nothing, Process

\* Any step keeps the types: every action writes rows, worker locations and
\* loaded rows of the right shape, and engages a worker exactly with a job.
LEMMA TypeStep == TypeOK /\ [Next]_vars => TypeOK'
<1> SUFFICES ASSUME TypeOK, [Next]_vars PROVE TypeOK'
  OBVIOUS
<1> USE DEF Process
<1>1. ASSUME NEW w \in Worker, ClaimRead(w) PROVE TypeOK'
  <2>1. PICK j \in Lane[w] : GoTo(w, "claiming", j)
    BY <1>1 DEF ClaimRead
  <2>2. j \in Job
    BY <2>1, QueueAssumption
  <2> QED
    BY <1>1, <2>1, <2>2 DEF ClaimRead, TypeOK, GoTo
<1>2. ASSUME NEW w \in Worker, ClaimWin(w) PROVE TypeOK'
  <2>1. on[w] \in Job
    BY <1>2 DEF ClaimWin, TypeOK
  <2>2. job'[on[w]] \in Row
    <3>1. job[on[w]] \in Row
      BY <2>1 DEF TypeOK
    <3>2. [job[on[w]] EXCEPT !.status = "running", !.attempts = @ + 1,
                             !.lease = "fresh", !.by = w] \in Row
      <4>1. job[on[w]].attempts + 1 \in Nat
        BY <3>1 DEF Row
      <4> QED
        BY <3>1, <4>1 DEF Row
    <3> QED
      BY <1>2, <2>1, <3>2 DEF ClaimWin, TypeOK
  <2>3. job' \in [Job -> Row]
    BY <1>2, <2>1, <2>2 DEF ClaimWin, TypeOK
  <2> QED
    BY <1>2, <2>1, <2>3 DEF ClaimWin, TypeOK, GoTo
<1>3. ASSUME NEW w \in Worker, ClaimLose(w) PROVE TypeOK'
  BY <1>3, QueueAssumption DEF ClaimLose, TypeOK, GoTo
<1>4. ASSUME NEW w \in Worker, Renew(w) PROVE TypeOK'
  <2>1. on[w] \in Job
    BY <1>4 DEF Renew, TypeOK
  <2>2. [job EXCEPT ![on[w]].lease = "fresh"] \in [Job -> Row]
    <3>1. job[on[w]] \in Row
      BY <2>1 DEF TypeOK
    <3>2. [job[on[w]] EXCEPT !.lease = "fresh"] \in Row
      BY <3>1 DEF Row
    <3> QED
      BY <2>1, <3>2 DEF TypeOK
  <2> QED
    BY <1>4, <2>1, <2>2 DEF Renew, TypeOK
<1>5. ASSUME NEW w \in Worker, Complete(w) PROVE TypeOK'
  <2>1. on[w] \in Job /\ job[on[w]] \in Row
    BY <1>5 DEF Complete, Runs, TypeOK
  <2>2. Succeeded(job[on[w]]) \in Row
    BY <2>1, RowOps
  <2>3. job' \in [Job -> Row]
    BY <1>5, <2>1, <2>2 DEF Complete, TypeOK
  <2> QED
    BY <1>5, <2>3, QueueAssumption DEF Complete, TypeOK, GoTo
<1>6. ASSUME NEW w \in Worker, CompleteUnheard(w) PROVE TypeOK'
  <2>1. on[w] \in Job /\ job[on[w]] \in Row
    BY <1>6 DEF CompleteUnheard, Runs, TypeOK
  <2>2. Succeeded(job[on[w]]) \in Row
    BY <2>1, RowOps
  <2>3. job' \in [Job -> Row]
    BY <1>6, <2>1, <2>2 DEF CompleteUnheard, TypeOK
  <2>4. /\ seen' \in [Process -> [Job -> Row \cup {NoRow}]]
        /\ \A v \in Worker : v # w => seen'[v] = seen[v]
        /\ seen'[w][on[w]] # NoRow
    BY <1>6, <2>1, <2>2, NoRowAssumption DEF CompleteUnheard, TypeOK, Nothing
  <2>5. /\ pc' = [pc EXCEPT ![w] = "failing"]
        /\ on' = [on EXCEPT ![w] = on[w]]
        /\ UNCHANGED <<beating, retries>>
    BY <1>6 DEF CompleteUnheard, GoTo
  <2> QED
    BY <2>1, <2>3, <2>4, <2>5 DEF TypeOK
<1>7. ASSUME NEW w \in Worker, Raise(w) PROVE TypeOK'
  <2>1. on[w] \in Job /\ job[on[w]] \in Row
    BY <1>7 DEF Raise, Runs, TypeOK
  <2>2. /\ seen' \in [Process -> [Job -> Row \cup {NoRow}]]
        /\ \A v \in Worker : v # w => seen'[v] = seen[v]
        /\ seen'[w][on[w]] # NoRow
    BY <1>7, <2>1, NoRowAssumption DEF Raise, Load, TypeOK
  <2>3. /\ pc' = [pc EXCEPT ![w] = "failing"]
        /\ on' = [on EXCEPT ![w] = on[w]]
        /\ UNCHANGED <<job, beating, retries>>
    BY <1>7 DEF Raise, GoTo
  <2> QED
    BY <2>1, <2>2, <2>3 DEF TypeOK
<1>8. ASSUME NEW w \in Worker, FailWrite(w) PROVE TypeOK'
  <2>1. on[w] \in Job /\ job[on[w]] \in Row /\ seen[w][on[w]] \in Row
    BY <1>8 DEF FailWrite, TypeOK
  <2>2. PICK new \in {Requeued(seen[w][on[w]]), Buried(seen[w][on[w]])} :
          job' = [job EXCEPT ![on[w]] = Put(on[w], seen[w][on[w]], new)]
    BY <1>8 DEF FailWrite
  <2>3. Put(on[w], seen[w][on[w]], new) \in Row
    BY <2>1, <2>2, RowOps, PutRow
  <2>4. job' \in [Job -> Row]
    BY <2>2, <2>3 DEF TypeOK
  <2> QED
    BY <1>8, <2>4, QueueAssumption DEF FailWrite, TypeOK, GoTo, Forget, Nothing
<1>9. ASSUME NEW w \in Worker, Misconfigured(w) PROVE TypeOK'
  <2>1. on[w] \in Job /\ job[on[w]] \in Row
    BY <1>9 DEF Misconfigured, TypeOK
  <2>2. Buried(job[on[w]]) \in Row
    BY <2>1, RowOps
  <2>3. job' \in [Job -> Row]
    BY <1>9, <2>1, <2>2 DEF Misconfigured, TypeOK
  <2> QED
    BY <1>9, <2>3, QueueAssumption DEF Misconfigured, TypeOK, GoTo
<1>10. ASSUME NEW w \in Worker, Die(w) PROVE TypeOK'
  BY <1>10, QueueAssumption DEF Die, TypeOK, GoTo, Forget, Nothing
<1>11. ASSUME NEW w \in Worker, Restart(w) PROVE TypeOK'
  BY <1>11, QueueAssumption DEF Restart, TypeOK, GoTo
<1>12. ASSUME NEW w \in Worker, ReclaimRead(w) PROVE TypeOK'
  <2>1. /\ seen' \in [Process -> [Job -> Row \cup {NoRow}]]
        /\ \A v \in Worker : v # w => seen'[v] = seen[v]
    BY <1>12 DEF ReclaimRead, Load, TypeOK
  <2>2. /\ pc' = [pc EXCEPT ![w] = "reclaiming"]
        /\ on' = [on EXCEPT ![w] = NoJob]
        /\ UNCHANGED <<job, beating, retries>>
    BY <1>12 DEF ReclaimRead, GoTo
  <2> QED
    BY <2>1, <2>2, QueueAssumption DEF TypeOK
<1>13. ASSUME NEW w \in Worker, ReclaimWrite(w) PROVE TypeOK'
  <2>1. ASSUME NEW j \in Loaded(w) PROVE Put(j, seen[w][j], Requeued(seen[w][j])) \in Row
    <3>1. j \in Job /\ job[j] \in Row /\ seen[w][j] \in Row
      BY <2>1 DEF Loaded, TypeOK
    <3> QED
      BY <3>1, RowOps, PutRow
  <2>2. job' \in [Job -> Row]
    BY <1>13, <2>1 DEF ReclaimWrite, TypeOK
  <2> QED
    BY <1>13, <2>2, QueueAssumption DEF ReclaimWrite, TypeOK, GoTo, Forget, Nothing
<1>14. ASSUME NEW c \in Client, NEW j \in Job, RetryRead(c, j) PROVE TypeOK'
  <2>1. /\ seen' \in [Process -> [Job -> Row \cup {NoRow}]]
        /\ \A v \in Worker : seen'[v] = seen[v]
    BY <1>14, QueueAssumption DEF RetryRead, Load, TypeOK
  <2> QED
    BY <1>14, <2>1 DEF RetryRead, TypeOK
<1>15. ASSUME NEW c \in Client, NEW j \in Job, RetryWrite(c, j) PROVE TypeOK'
  <2>1. job[j] \in Row /\ seen[c][j] \in Row
    BY <1>15 DEF RetryWrite, TypeOK
  <2>2. [Unlocked(seen[c][j]) EXCEPT !.status = "queued", !.attempts = 0] \in Row
    BY <2>1 DEF Row, Unlocked
  <2>3. job' \in [Job -> Row]
    BY <1>15, <2>1, <2>2, FlushRow DEF RetryWrite, TypeOK
  <2>4. /\ seen' \in [Process -> [Job -> Row \cup {NoRow}]]
        /\ \A v \in Worker : seen'[v] = seen[v]
    BY <1>15, QueueAssumption DEF RetryWrite, Forget, Nothing, TypeOK
  <2>5. retries' \in 0 .. MaxRetries
    BY <1>15, QueueAssumption DEF RetryWrite, TypeOK
  <2> QED
    BY <1>15, <2>3, <2>4, <2>5 DEF RetryWrite, TypeOK
<1>16. ASSUME NEW c \in Client, RetryFail(c) PROVE TypeOK'
  <2>1. /\ seen' \in [Process -> [Job -> Row \cup {NoRow}]]
        /\ \A v \in Worker : seen'[v] = seen[v]
    BY <1>16, QueueAssumption DEF RetryFail, Forget, Nothing, TypeOK
  <2> QED
    BY <1>16, <2>1 DEF RetryFail, TypeOK
<1>17. ASSUME NEW j \in Job, JobStep(j) PROVE TypeOK'
  <2>1. job[j] \in Row
    BY DEF TypeOK
  <2>2. /\ [job[j] EXCEPT !.status = "queued", !.due = TRUE] \in Row
        /\ [job[j] EXCEPT !.lease = "stale"] \in Row
        /\ [job[j] EXCEPT !.due = TRUE] \in Row
    BY <2>1 DEF Row
  <2>3. job' \in [Job -> Row]
    BY <1>17, <2>2 DEF JobStep, Enqueue, LeaseExpires, BackoffElapses, TypeOK
  <2> QED
    BY <1>17, <2>3 DEF JobStep, Enqueue, LeaseExpires, BackoffElapses, TypeOK
<1>18. ASSUME UNCHANGED vars PROVE TypeOK'
  BY <1>18 DEF vars, TypeOK
<1> QED
  BY <1>1, <1>2, <1>3, <1>4, <1>5, <1>6, <1>7, <1>8, <1>9, <1>10, <1>11, <1>12, <1>13,
     <1>14, <1>15, <1>16, <1>17, <1>18
     DEF Next, WorkerStep, ClientStep, Finish, Crash, Killed

\* The type invariant holds in every environment: rows, worker locations and
\* loaded rows of claim, run_once, reclaim_stale and retry are well formed.
THEOREM TypeCorrect == Spec => []TypeOK
BY TypeInit, TypeStep, PTL DEF Spec

----------------------------------------------------------------------------
(* The inductive invariant. *)

LEMMA InvInit == Init => Inv
<1> SUFFICES ASSUME Init PROVE Inv
  OBVIOUS
<1>1. TypeOK
  BY TypeInit
<1>2. LeaseInv
  BY DEF Init, LeaseInv, Engaged
<1>3. LoadInv /\ WorkerLoadInv /\ ClientLoadInv
  BY DEF Init, LoadInv, WorkerLoadInv, ClientLoadInv, Nothing, Process
<1>4. RowInv
  BY QueueAssumption DEF Init, RowInv, Absent
<1> QED
  BY <1>1, <1>2, <1>3, <1>4 DEF Inv

\* A worker inside a job is alone with its row: no other worker is inside it
\* and no worker has it loaded, except itself when it is failing it.
LEMMA Alone ==
    ASSUME Inv, NEW w \in Worker, Engaged(w)
    PROVE  /\ on[w] \in Job
           /\ job[on[w]].status = "running" /\ job[on[w]].lease = "fresh"
           /\ \A v \in Worker : Engaged(v) /\ on[v] = on[w] => v = w
           /\ \A v \in Worker : seen[v][on[w]] # NoRow => v = w /\ pc[w] = "failing"
<1>1. on[w] \in Job
  BY DEF Inv, TypeOK, Engaged
<1>2. job[on[w]].status = "running" /\ job[on[w]].by = w /\ job[on[w]].lease = "fresh"
  BY DEF Inv, LeaseInv, Holds
<1>3. ASSUME NEW v \in Worker, Engaged(v), on[v] = on[w] PROVE v = w
  BY <1>2, <1>3 DEF Inv, LeaseInv, Holds
<1>4. ASSUME NEW v \in Worker, seen[v][on[w]] # NoRow PROVE v = w /\ pc[w] = "failing"
  BY <1>1, <1>2, <1>3, <1>4 DEF Inv, WorkerLoadInv, Engaged
<1> QED
  BY <1>1, <1>2, <1>3, <1>4

\* Loading rows while nobody else has them loaded keeps loads exclusive.
LEMMA LoadStep ==
    ASSUME Orderly, TypeOK, LoadInv, NEW p \in Process, NEW S \in SUBSET Job, Load(p, S)
    PROVE  LoadInv'
<1>1. \A q \in Process : S \cap Loaded(q) = {}
  BY DEF Orderly, Load, MayLoad
<1>2. \A q \in Process, j \in S : seen[q][j] = NoRow
  BY <1>1 DEF Loaded
<1>3. \A q \in Process, j \in Job :
        seen'[q][j] = IF q = p THEN (IF j \in S THEN job[j] ELSE NoRow) ELSE seen[q][j]
  BY DEF Load, TypeOK
<1> QED
  BY <1>2, <1>3 DEF LoadInv

\* A step that loads nothing keeps loads exclusive.
LEMMA NoLoadStep ==
    ASSUME LoadInv, \A p \in Process, j \in Job : seen'[p][j] \in {seen[p][j], NoRow}
    PROVE  LoadInv'
BY DEF LoadInv

\* The rows a flush leaves: everything but the lock and the status is kept, and
\* the lock goes (_fail and reclaim_stale on a row that is still running).
LEMMA PutLeaves ==
    ASSUME NEW j \in Job, job[j] \in Row, NEW loaded \in Row,
           NEW new \in {Requeued(loaded), Buried(loaded)},
           job[j].status = "running", loaded.status = "running",
           loaded.lease # "none", loaded.by # NoWorker,
           loaded.attempts = job[j].attempts
    PROVE  /\ Put(j, loaded, new).status \in {"queued", "dead"}
           /\ Put(j, loaded, new).lease = "none"
           /\ Put(j, loaded, new).by = NoWorker
           /\ Put(j, loaded, new).attempts = job[j].attempts
           /\ Put(j, loaded, new).status = "queued" => job[j].attempts < MaxAttempts
<1>1. /\ new.status \in {"queued", "dead"}
      /\ new.status = "queued" => loaded.attempts < MaxAttempts
      /\ new.lease = "none" /\ new.by = NoWorker /\ new.attempts = loaded.attempts
  BY RowOps
<1>2. /\ Put(j, loaded, new).status = new.status
      /\ Put(j, loaded, new).lease = "none"
      /\ Put(j, loaded, new).by = NoWorker
      /\ Put(j, loaded, new).attempts = job[j].attempts
  BY <1>1 DEF Put, Flush
<1> QED
  BY <1>1, <1>2

\* A worker that ends an attempt and unlocks its row, into whatever status,
\* disturbs nobody else (_complete, _fail, the missing handler).
LEMMA LeaveStep ==
    ASSUME Inv, TypeOK', NEW w \in Worker, Engaged(w), NEW new \in Row,
           new.status \in {"queued", "succeeded", "dead"},
           new.lease = "none", new.by = NoWorker,
           new.attempts = job[on[w]].attempts,
           new.status = "queued" => new.attempts < MaxAttempts,
           job' = [job EXCEPT ![on[w]] = new],
           pc' = [pc EXCEPT ![w] = "idle"],
           beating' = [beating EXCEPT ![w] = FALSE],
           on' = [on EXCEPT ![w] = NoJob],
           seen' \in {seen, [seen EXCEPT ![w] = Nothing]},
           seen'[w][on[w]] = NoRow
    PROVE  Inv'
<1> DEFINE k == on[w]
<1>1. /\ k \in Job /\ job[k].status = "running"
      /\ \A v \in Worker : Engaged(v) /\ on[v] = k => v = w
      /\ \A v \in Worker : seen[v][k] # NoRow => v = w
  BY Alone
<1>2. /\ job'[k] = new
      /\ \A j \in Job : j # k => job'[j] = job[j]
  BY <1>1 DEF Inv, TypeOK
<1>3. /\ pc'[w] = "idle"
      /\ \A v \in Worker : v # w =>
            pc'[v] = pc[v] /\ on'[v] = on[v] /\ beating'[v] = beating[v]
  BY DEF Inv, TypeOK
<1>4. /\ \A p \in Process, j \in Job : seen'[p][j] \in {seen[p][j], NoRow}
      /\ \A j \in Job : seen'[w][j] = NoRow
    <2>1. \A p \in Process, j \in Job : seen'[p][j] \in {seen[p][j], NoRow}
      BY DEF Inv, TypeOK, Nothing
    <2>2. \A j \in Job : seen[w][j] # NoRow => j = k
      BY DEF Inv, WorkerLoadInv, Engaged
    <2> QED
      BY <2>1, <2>2, <1>1 DEF Process
<1> HIDE DEF k
<1>5. LeaseInv'
  <2> SUFFICES ASSUME NEW v \in Worker, Engaged(v)'
               PROVE  (Holds(v, on[v]) /\ job[on[v]].lease = "fresh" /\ beating[v])'
    BY DEF LeaseInv
  <2>1. v # w /\ Engaged(v) /\ on[v] # k /\ on'[v] = on[v]
    BY <1>1, <1>3 DEF Engaged
  <2>2. on[v] \in Job
    BY <2>1 DEF Inv, TypeOK, Engaged
  <2> QED
    BY <1>2, <1>3, <2>1, <2>2 DEF Inv, LeaseInv, Holds
<1>6. LoadInv'
  BY <1>4, NoLoadStep DEF Inv
<1>7. WorkerLoadInv'
  <2> SUFFICES ASSUME NEW v \in Worker, NEW j \in Job, seen'[v][j] # NoRow
               PROVE  (/\ job[j].status = "running"
                       /\ seen[v][j].status = "running"
                       /\ seen[v][j].lease # "none" /\ seen[v][j].by # NoWorker
                       /\ seen[v][j].attempts = job[j].attempts
                       /\ \/ pc[v] = "failing" /\ on[v] = j
                          \/ pc[v] = "reclaiming" /\ job[j].lease # "fresh")'
    BY DEF WorkerLoadInv
  <2>1. v # w /\ seen'[v][j] = seen[v][j] /\ j # k
    BY <1>1, <1>4 DEF Process
  <2> QED
    BY <1>2, <1>3, <2>1 DEF Inv, WorkerLoadInv
<1>8. ClientLoadInv'
  <2> SUFFICES ASSUME NEW c \in Client, NEW j \in Job, seen'[c][j] # NoRow
               PROVE  (/\ job[j].status # "absent"
                       /\ seen[c][j].status \in {"queued", "dead"}
                       /\ seen[c][j].lease = "none"
                       /\ seen[c][j].by = NoWorker
                       /\ seen[c][j].status = "dead" =>
                            job[j].status = "dead" /\ job[j].attempts = seen[c][j].attempts)'
    BY DEF ClientLoadInv
  <2>1. seen'[c][j] = seen[c][j]
    BY <1>4 DEF Process
  <2>2. seen[c][j].status = "dead" => j # k
    BY <1>1, <2>1 DEF Inv, ClientLoadInv
  <2> QED
    BY <1>2, <2>1, <2>2 DEF Inv, ClientLoadInv
<1>9. RowInv'
  <2>1. job[k].attempts <= MaxAttempts
    BY <1>1 DEF Inv, RowInv
  <2> QED
    BY <1>2, <2>1 DEF Inv, RowInv, k
<1> QED
  BY <1>5, <1>6, <1>7, <1>8, <1>9 DEF Inv

\* A worker that moves between idle, claiming, down and reclaiming nothing
\* disturbs no row.
LEMMA AsideStep ==
    ASSUME Inv, TypeOK', NEW w \in Worker,
           job' = job,
           ~Engaged(w)',
           \A v \in Worker : v # w =>
              pc'[v] = pc[v] /\ on'[v] = on[v] /\ beating'[v] = beating[v],
           \A p \in Process, j \in Job : p # w => seen'[p][j] = seen[p][j],
           \A j \in Job : seen'[w][j] = NoRow
    PROVE  Inv'
<1>1. LeaseInv'
  BY DEF Inv, LeaseInv, Engaged, Holds
<1>2. LoadInv'
  BY NoLoadStep DEF Inv, Process
<1>3. WorkerLoadInv'
  BY DEF Inv, WorkerLoadInv, Process
<1>4. ClientLoadInv'
  <2>1. \A c \in Client : c # w
    BY QueueAssumption
  <2> QED
    BY <2>1 DEF Inv, ClientLoadInv, Process
<1>5. RowInv'
  BY DEF Inv, RowInv
<1> QED
  BY <1>1, <1>2, <1>3, <1>4, <1>5 DEF Inv

\* A claim takes a queued row, which nobody holds and no worker has loaded.
LEMMA ClaimWinStep ==
    ASSUME Inv, TypeOK', NEW w \in Worker, ClaimWin(w)
    PROVE  Inv'
<1> DEFINE k == on[w]
<1>1. k \in Job /\ job[k].status = "queued" /\ job[k] \in Row
  BY DEF ClaimWin, Claimable, Inv, TypeOK
<1>2. /\ job'[k].status = "running" /\ job'[k].by = w /\ job'[k].lease = "fresh"
      /\ job'[k].attempts = job[k].attempts + 1
      /\ \A j \in Job : j # k => job'[j] = job[j]
  BY <1>1 DEF ClaimWin, Inv, TypeOK, Row
<1>3. /\ pc'[w] = "running" /\ on'[w] = k /\ beating'[w]
      /\ \A v \in Worker : v # w =>
            pc'[v] = pc[v] /\ on'[v] = on[v] /\ beating'[v] = beating[v]
      /\ seen' = seen
  BY DEF ClaimWin, GoTo, Inv, TypeOK
<1>4. pc[w] = "claiming"
  BY DEF ClaimWin
<1> HIDE DEF k
<1>5. LeaseInv'
  <2> SUFFICES ASSUME NEW v \in Worker, Engaged(v)'
               PROVE  (Holds(v, on[v]) /\ job[on[v]].lease = "fresh" /\ beating[v])'
    BY DEF LeaseInv
  <2>1. CASE v = w
    BY <1>2, <1>3, <2>1 DEF Holds
  <2>2. CASE v # w
    <3>1. Engaged(v) /\ on'[v] = on[v] /\ on[v] \in Job
      BY <1>3, <2>2 DEF Engaged, Inv, TypeOK
    <3>2. on[v] # k
      BY <3>1, <1>1 DEF Inv, LeaseInv, Holds
    <3> QED
      BY <1>2, <1>3, <2>2, <3>1, <3>2 DEF Inv, LeaseInv, Holds
  <2> QED
    BY <2>1, <2>2
<1>6. LoadInv'
  BY <1>3, NoLoadStep DEF Inv
<1>7. WorkerLoadInv'
  <2> SUFFICES ASSUME NEW v \in Worker, NEW j \in Job, seen[v][j] # NoRow
               PROVE  (/\ job[j].status = "running"
                       /\ seen[v][j].status = "running"
                       /\ seen[v][j].lease # "none" /\ seen[v][j].by # NoWorker
                       /\ seen[v][j].attempts = job[j].attempts
                       /\ \/ pc[v] = "failing" /\ on[v] = j
                          \/ pc[v] = "reclaiming" /\ job[j].lease # "fresh")'
    BY <1>3 DEF WorkerLoadInv
  <2>1. v # w /\ j # k
    BY <1>1, <1>4 DEF Inv, WorkerLoadInv
  <2> QED
    BY <1>2, <1>3, <2>1 DEF Inv, WorkerLoadInv
<1>8. ClientLoadInv'
  <2>1. \A c \in Client : seen[c][k] # NoRow => seen[c][k].status # "dead"
    BY <1>1 DEF Inv, ClientLoadInv
  <2> QED
    BY <1>2, <1>3, <2>1 DEF Inv, ClientLoadInv
<1>9. RowInv'
  <2>1. job'[k].attempts <= MaxAttempts
    <3>1. job[k].attempts \in Nat /\ job[k].attempts < MaxAttempts
      BY <1>1 DEF Inv, RowInv, Row
    <3> QED
      BY <3>1, <1>2, QueueAssumption
  <2>2. w # NoWorker
    BY QueueAssumption
  <2> QED
    BY <1>2, <2>1, <2>2 DEF Inv, RowInv
<1> QED
  BY <1>5, <1>6, <1>7, <1>8, <1>9 DEF Inv

\* A renewal by a worker inside a job finds its lease and changes nothing.
LEMMA RenewStep ==
    ASSUME Inv, NEW w \in Worker, Renew(w)
    PROVE  UNCHANGED vars
<1> DEFINE k == on[w]
<1>1. Holds(w, k) /\ job[k].lease = "fresh" /\ k \in Job /\ job[k] \in Row
  BY DEF Renew, Inv, LeaseInv, Engaged, TypeOK
<1>2. [job[k] EXCEPT !.lease = "fresh"] = job[k]
  BY <1>1 DEF Row
<1>3. [job EXCEPT ![k].lease = "fresh"] = job
  BY <1>1, <1>2 DEF Inv, TypeOK
<1> QED
  BY <1>1, <1>3 DEF Renew, vars

\* A worker that completes, or finds no handler, leaves its row unlocked.
LEMMA EndStep ==
    ASSUME Inv, TypeOK', NEW w \in Worker, Complete(w) \/ Misconfigured(w)
    PROVE  Inv'
<1>1. Engaged(w) /\ pc[w] = "running"
  BY DEF Complete, Misconfigured, Runs, Engaged
<1>2. on[w] \in Job /\ job[on[w]] \in Row
  BY <1>1, Alone DEF Inv, TypeOK
<1>3. seen[w][on[w]] = NoRow
  BY <1>1, Alone
<1>4. PICK new \in {Succeeded(job[on[w]]), Buried(job[on[w]])} :
        job' = [job EXCEPT ![on[w]] = new]
  BY DEF Complete, Misconfigured
<1>5. /\ new \in Row /\ new.status \in {"succeeded", "dead"}
      /\ new.lease = "none" /\ new.by = NoWorker
      /\ new.attempts = job[on[w]].attempts
  <2>1. /\ Succeeded(job[on[w]]).status = "succeeded"
        /\ Succeeded(job[on[w]]).lease = "none" /\ Succeeded(job[on[w]]).by = NoWorker
        /\ Succeeded(job[on[w]]).attempts = job[on[w]].attempts
    BY <1>2 DEF Succeeded, Unlocked, Row
  <2> QED
    BY <1>2, <2>1, RowOps
<1>6. /\ pc' = [pc EXCEPT ![w] = "idle"] /\ on' = [on EXCEPT ![w] = NoJob]
      /\ beating' = [beating EXCEPT ![w] = FALSE] /\ seen' = seen
  BY DEF Complete, Misconfigured, GoTo
<1> QED
  BY <1>1, <1>3, <1>4, <1>5, <1>6, LeaveStep

\* A failure is flushed over the row the worker still holds.
LEMMA FailStep ==
    ASSUME Inv, TypeOK', NEW w \in Worker, FailWrite(w)
    PROVE  Inv'
<1>1. Engaged(w) /\ pc[w] = "failing"
  BY DEF FailWrite, Engaged
<1>2. /\ on[w] \in Job /\ job[on[w]] \in Row
      /\ job[on[w]].status = "running"
      /\ seen[w][on[w]] # NoRow /\ seen[w][on[w]] \in Row
  BY <1>1, Alone DEF Inv, TypeOK, Process
<1>3. PICK new \in {Requeued(seen[w][on[w]]), Buried(seen[w][on[w]])} :
        job' = [job EXCEPT ![on[w]] = Put(on[w], seen[w][on[w]], new)]
  BY DEF FailWrite
<1>4. Put(on[w], seen[w][on[w]], new) \in Row
  BY <1>2, RowOps, PutRow
<1>5. /\ seen[w][on[w]].status = "running"
      /\ seen[w][on[w]].lease # "none" /\ seen[w][on[w]].by # NoWorker
      /\ seen[w][on[w]].attempts = job[on[w]].attempts
  BY <1>2 DEF Inv, WorkerLoadInv
<1>6. /\ Put(on[w], seen[w][on[w]], new).status \in {"queued", "dead"}
      /\ Put(on[w], seen[w][on[w]], new).lease = "none"
      /\ Put(on[w], seen[w][on[w]], new).by = NoWorker
      /\ Put(on[w], seen[w][on[w]], new).attempts = job[on[w]].attempts
      /\ Put(on[w], seen[w][on[w]], new).status = "queued" =>
           job[on[w]].attempts < MaxAttempts
  BY <1>2, <1>5, PutLeaves
<1>7. /\ pc' = [pc EXCEPT ![w] = "idle"] /\ on' = [on EXCEPT ![w] = NoJob]
      /\ beating' = [beating EXCEPT ![w] = FALSE]
      /\ seen' = [seen EXCEPT ![w] = Nothing]
  BY DEF FailWrite, GoTo, Forget
<1>8. seen'[w][on[w]] = NoRow
  BY <1>2, <1>7 DEF Inv, TypeOK, Process, Nothing
<1> QED
  BY <1>1, <1>3, <1>4, <1>6, <1>7, <1>8, LeaveStep

\* A handler that raised loads the row its worker still holds.
LEMMA RaiseStep ==
    ASSUME Orderly, Inv, TypeOK', NEW w \in Worker, Raise(w)
    PROVE  Inv'
<1> DEFINE k == on[w]
<1>1. Engaged(w) /\ pc[w] = "running"
  BY DEF Raise, Runs, Engaged
<1>2. k \in Job /\ Holds(w, k) /\ \A j \in Job : seen[w][j] = NoRow
  BY <1>1, Alone DEF Inv, LeaseInv, WorkerLoadInv
<1>3. /\ job' = job /\ beating' = beating /\ on' = on /\ pc'[w] = "failing"
      /\ \A v \in Worker : v # w => pc'[v] = pc[v]
      /\ \A p \in Process, j \in Job :
            seen'[p][j] = IF p = w /\ j = k THEN job[j] ELSE seen[p][j]
  BY <1>2 DEF Raise, Load, GoTo, Inv, TypeOK, Process
<1> HIDE DEF k
<1>4. LeaseInv'
  <2>1. \A v \in Worker : Engaged(v)' => Engaged(v)
    BY <1>1, <1>3 DEF Engaged
  <2> QED
    BY <1>3, <2>1 DEF Inv, LeaseInv, Holds
<1>5. LoadInv'
  BY <1>2, LoadStep DEF Raise, Inv, Process, k
<1>6. WorkerLoadInv'
  <2>1. /\ job[k].status = "running" /\ job[k].lease # "none" /\ job[k].by # NoWorker
    BY <1>2 DEF Holds, Inv, RowInv
  <2>2. on[w] = k
    BY DEF k
  <2> QED
    BY <1>2, <1>3, <2>1, <2>2 DEF Inv, WorkerLoadInv, Process
<1>7. ClientLoadInv'
  <2>1. \A c \in Client : c # w
    BY QueueAssumption
  <2> QED
    BY <1>3, <2>1 DEF Inv, ClientLoadInv, Process
<1>8. RowInv'
  BY <1>3 DEF Inv, RowInv
<1> QED
  BY <1>4, <1>5, <1>6, <1>7, <1>8 DEF Inv

\* The sweep loads rows with a stale lease, which nobody is inside.
LEMMA ReclaimReadStep ==
    ASSUME Orderly, Inv, TypeOK', NEW w \in Worker, ReclaimRead(w)
    PROVE  Inv'
<1> DEFINE stale == {j \in Job : Expired(job[j])}
<1>1. pc[w] = "idle" /\ \A j \in Job : seen[w][j] = NoRow
  BY DEF ReclaimRead, Inv, WorkerLoadInv
<1>2. /\ job' = job /\ beating' = beating /\ pc'[w] = "reclaiming"
      /\ \A v \in Worker : v # w => pc'[v] = pc[v] /\ on'[v] = on[v]
      /\ \A p \in Process, j \in Job :
            seen'[p][j] = IF p = w /\ j \in stale THEN job[j] ELSE seen[p][j]
  BY <1>1 DEF ReclaimRead, Load, GoTo, Inv, TypeOK, Process
<1>3. \A j \in stale : /\ job[j].status = "running" /\ job[j].lease # "fresh"
                       /\ job[j].lease # "none" /\ job[j].by # NoWorker
  BY DEF Expired, Inv, RowInv
<1>4. LoadInv'
  <2>1. stale \in SUBSET Job /\ Load(w, stale)
    BY DEF ReclaimRead
  <2> QED
    BY <2>1, LoadStep DEF Inv, Process
<1> HIDE DEF stale
<1>5. LeaseInv'
  <2>1. \A v \in Worker : Engaged(v)' => v # w /\ Engaged(v) /\ on'[v] = on[v]
    BY <1>2 DEF Engaged
  <2> QED
    BY <1>2, <2>1 DEF Inv, LeaseInv, Holds
<1>6. WorkerLoadInv'
  BY <1>1, <1>2, <1>3 DEF Inv, WorkerLoadInv, Process
<1>7. ClientLoadInv'
  <2>1. \A c \in Client : c # w
    BY QueueAssumption
  <2> QED
    BY <1>2, <2>1 DEF Inv, ClientLoadInv, Process
<1>8. RowInv'
  BY <1>2 DEF Inv, RowInv
<1> QED
  BY <1>4, <1>5, <1>6, <1>7, <1>8 DEF Inv

\* The sweep's flush unlocks rows that nobody is inside.
LEMMA ReclaimWriteStep ==
    ASSUME Inv, TypeOK', NEW w \in Worker, ReclaimWrite(w)
    PROVE  Inv'
<1>1. pc[w] = "reclaiming"
  BY DEF ReclaimWrite
<1>2. ASSUME NEW j \in Loaded(w)
      PROVE  /\ job[j].status = "running" /\ job[j].lease # "fresh"
             /\ job'[j].status \in {"queued", "dead"}
             /\ job'[j].lease = "none" /\ job'[j].by = NoWorker
             /\ job'[j].attempts = job[j].attempts
             /\ job'[j].status = "queued" => job[j].attempts < MaxAttempts
  <2>1. j \in Job /\ job[j] \in Row /\ seen[w][j] \in Row /\ seen[w][j] # NoRow
    BY DEF Loaded, Inv, TypeOK, Process
  <2>2. /\ job[j].status = "running" /\ job[j].lease # "fresh"
        /\ seen[w][j].status = "running"
        /\ seen[w][j].lease # "none" /\ seen[w][j].by # NoWorker
        /\ seen[w][j].attempts = job[j].attempts
    BY <1>1, <2>1 DEF Inv, WorkerLoadInv
  <2>3. job'[j] = Put(j, seen[w][j], Requeued(seen[w][j]))
    BY <2>1 DEF ReclaimWrite
  <2> QED
    BY <2>1, <2>2, <2>3, PutLeaves
<1>3. \A j \in Job : j \notin Loaded(w) => job'[j] = job[j]
  BY DEF ReclaimWrite
<1>4. /\ pc'[w] = "idle" /\ beating' = beating
      /\ \A v \in Worker : v # w => pc'[v] = pc[v] /\ on'[v] = on[v]
      /\ \A p \in Process : p # w => seen'[p] = seen[p]
      /\ \A j \in Job : seen'[w][j] = NoRow
  BY DEF ReclaimWrite, GoTo, Forget, Nothing, Inv, TypeOK, Process
<1>5. LeaseInv'
  <2> SUFFICES ASSUME NEW v \in Worker, Engaged(v)'
               PROVE  (Holds(v, on[v]) /\ job[on[v]].lease = "fresh" /\ beating[v])'
    BY DEF LeaseInv
  <2>1. v # w /\ Engaged(v) /\ on'[v] = on[v]
    BY <1>4 DEF Engaged
  <2>2. on[v] \in Job /\ on[v] \notin Loaded(w)
    BY <1>2, <2>1, Alone
  <2> QED
    BY <1>3, <1>4, <2>1, <2>2 DEF Inv, LeaseInv, Holds
<1>6. LoadInv'
  BY <1>4, NoLoadStep DEF Inv, Process
<1>7. WorkerLoadInv'
  <2> SUFFICES ASSUME NEW v \in Worker, NEW j \in Job, seen'[v][j] # NoRow
               PROVE  (/\ job[j].status = "running"
                       /\ seen[v][j].status = "running"
                       /\ seen[v][j].lease # "none" /\ seen[v][j].by # NoWorker
                       /\ seen[v][j].attempts = job[j].attempts
                       /\ \/ pc[v] = "failing" /\ on[v] = j
                          \/ pc[v] = "reclaiming" /\ job[j].lease # "fresh")'
    BY DEF WorkerLoadInv
  <2>1. v # w /\ seen'[v] = seen[v] /\ pc'[v] = pc[v] /\ on'[v] = on[v]
    BY <1>4 DEF Process
  <2>2. j \notin Loaded(w)
    BY <2>1 DEF Loaded, Inv, LoadInv, Process
  <2> QED
    BY <1>3, <2>1, <2>2 DEF Inv, WorkerLoadInv
<1>8. ClientLoadInv'
  <2>1. \A c \in Client, j \in Job : c # w /\ (seen[c][j] # NoRow => j \notin Loaded(w))
    BY QueueAssumption DEF Loaded, Inv, LoadInv, Process
  <2> QED
    BY <1>3, <1>4, <2>1 DEF Inv, ClientLoadInv, Process
<1>9. RowInv'
  BY <1>2, <1>3 DEF Inv, RowInv
<1> QED
  BY <1>5, <1>6, <1>7, <1>8, <1>9 DEF Inv

----------------------------------------------------------------------------
(* The steps of clients and of the clock. *)

LEMMA RetryReadStep ==
    ASSUME Orderly, Inv, TypeOK', NEW c \in Client, NEW k \in Job, RetryRead(c, k)
    PROVE  Inv'
<1>1. \A w \in Worker : w # c
  BY QueueAssumption
<1>2. /\ job' = job /\ beating' = beating /\ pc' = pc /\ on' = on
      /\ \A p \in Process, j \in Job :
            seen'[p][j] = IF p = c /\ j = k THEN job[j] ELSE seen[p][j]
  BY DEF RetryRead, Load, Loaded, Inv, TypeOK, Process
<1>3. job[k].status \in {"queued", "dead"} /\ job[k].lease = "none" /\ job[k].by = NoWorker
  BY DEF RetryRead, Retryable, Inv, RowInv
<1>4. LoadInv'
  BY LoadStep DEF RetryRead, Inv, Process
<1>5. LeaseInv' /\ RowInv'
  BY <1>2 DEF Inv, LeaseInv, RowInv, Holds, Engaged
<1>6. WorkerLoadInv'
  BY <1>1, <1>2 DEF Inv, WorkerLoadInv, Process
<1>7. ClientLoadInv'
  BY <1>2, <1>3 DEF Inv, ClientLoadInv, Process
<1> QED
  BY <1>4, <1>5, <1>6, <1>7 DEF Inv

\* A retry's flush touches the status only of a row that is still dead, and
\* never the lock.
LEMMA RetryWriteStep ==
    ASSUME Inv, TypeOK', NEW c \in Client, NEW k \in Job, RetryWrite(c, k)
    PROVE  Inv'
<1> DEFINE r == seen[c][k]
<1>1. r # NoRow /\ r \in Row /\ job[k] \in Row
  BY DEF RetryWrite, Inv, TypeOK, Process
<1>2. /\ r.status \in {"queued", "dead"} /\ r.lease = "none" /\ r.by = NoWorker
      /\ r.status = "dead" => job[k].status = "dead" /\ job[k].attempts = r.attempts
  BY <1>1 DEF Inv, ClientLoadInv
<1>3. job'[k] = Flush(job[k], r, [Unlocked(r) EXCEPT !.status = "queued", !.attempts = 0], TRUE)
  BY DEF RetryWrite, Inv, TypeOK
<1>4. \A j \in Job : j # k => job'[j] = job[j]
  BY DEF RetryWrite, Inv, TypeOK
<1>5. /\ job'[k].lease = job[k].lease /\ job'[k].by = job[k].by
      /\ job'[k].status = IF r.status = "queued" THEN job[k].status ELSE "queued"
      /\ job'[k].attempts = IF r.attempts = 0 THEN job[k].attempts ELSE 0
  BY <1>1, <1>2, <1>3 DEF Flush, Unlocked, Row
<1>6. /\ pc' = pc /\ on' = on /\ beating' = beating
      /\ \A p \in Process : p # c => seen'[p] = seen[p]
      /\ \A j \in Job : seen'[c][j] = NoRow
  BY DEF RetryWrite, Forget, Nothing, Inv, TypeOK, Process
<1>7. \A p \in Process : p # c => seen[p][k] = NoRow
  BY <1>1 DEF Inv, LoadInv, Process
<1>8. job[k].status = "running" => job'[k].status = "running"
  BY <1>2, <1>5
<1> HIDE DEF r
<1>9. LeaseInv'
  <2> SUFFICES ASSUME NEW v \in Worker, Engaged(v)'
               PROVE  (Holds(v, on[v]) /\ job[on[v]].lease = "fresh" /\ beating[v])'
    BY DEF LeaseInv
  <2>1. Engaged(v) /\ on'[v] = on[v] /\ on[v] \in Job
    BY <1>6 DEF Engaged, Inv, TypeOK
  <2>2. Holds(v, on[v]) /\ job[on[v]].lease = "fresh" /\ beating[v]
    BY <2>1 DEF Inv, LeaseInv
  <2> QED
    BY <1>4, <1>5, <1>6, <1>8, <2>1, <2>2 DEF Holds
<1>10. LoadInv'
  BY <1>6, NoLoadStep DEF Inv, Process
<1>11. WorkerLoadInv'
  <2>1. \A w \in Worker : w # c
    BY QueueAssumption
  <2> QED
    BY <1>4, <1>6, <1>7, <2>1 DEF Inv, WorkerLoadInv, Process
<1>12. ClientLoadInv'
  <2>1. \A d \in Client, j \in Job : seen'[d][j] # NoRow =>
          d # c /\ j # k /\ seen'[d] = seen[d]
    BY <1>6, <1>7 DEF Process
  <2> QED
    BY <1>4, <2>1 DEF Inv, ClientLoadInv
<1>13. RowInv'
  <2>1. job'[k].attempts <= MaxAttempts
    BY <1>5, QueueAssumption DEF Inv, RowInv
  <2>2. job'[k].status = "queued" => job'[k].attempts < MaxAttempts
    <3>1. CASE r.attempts # 0
      BY <1>5, <3>1, QueueAssumption
    <3>2. CASE r.attempts = 0 /\ r.status = "queued"
      BY <1>5, <3>2 DEF Inv, RowInv
    <3>3. CASE r.attempts = 0 /\ r.status = "dead"
      BY <1>2, <1>5, <3>3, QueueAssumption
    <3> QED
      BY <1>2, <3>1, <3>2, <3>3
  <2>3. job'[k].status = "absent" => job'[k].attempts = 0
    BY <1>2, <1>5 DEF Inv, RowInv
  <2>4. /\ job'[k].status = "running" => job'[k].lease # "none" /\ job'[k].by # NoWorker
        /\ job'[k].status # "running" => job'[k].lease = "none" /\ job'[k].by = NoWorker
    BY <1>2, <1>5, <1>8 DEF Inv, RowInv
  <2> QED
    BY <1>4, <2>1, <2>2, <2>3, <2>4 DEF Inv, RowInv
<1> QED
  BY <1>9, <1>10, <1>11, <1>12, <1>13 DEF Inv

LEMMA RetryFailStep ==
    ASSUME Inv, TypeOK', NEW c \in Client, RetryFail(c)
    PROVE  Inv'
<1>1. \A w \in Worker : w # c
  BY QueueAssumption
<1>2. /\ job' = job /\ beating' = beating /\ pc' = pc /\ on' = on
      /\ \A p \in Process, j \in Job : seen'[p][j] = IF p = c THEN NoRow ELSE seen[p][j]
  BY DEF RetryFail, Forget, Nothing, Inv, TypeOK, Process
<1>3. LoadInv'
  BY <1>2, NoLoadStep DEF Inv
<1>4. LeaseInv' /\ RowInv'
  BY <1>2 DEF Inv, LeaseInv, RowInv, Holds, Engaged
<1>5. WorkerLoadInv' /\ ClientLoadInv'
  BY <1>1, <1>2 DEF Inv, WorkerLoadInv, ClientLoadInv, Process
<1> QED
  BY <1>3, <1>4, <1>5 DEF Inv

\* Enqueueing, a backoff that elapses and a lease that ages move no row that a
\* worker is inside: a lease it renews does not age.
LEMMA ClockStep ==
    ASSUME Orderly, Inv, TypeOK', NEW k \in Job, JobStep(k)
    PROVE  Inv'
<1>1. /\ pc' = pc /\ on' = on /\ beating' = beating /\ seen' = seen
      /\ \A j \in Job : j # k => job'[j] = job[j]
  BY DEF JobStep, Enqueue, LeaseExpires, BackoffElapses, Inv, TypeOK
<1>2. job[k] \in Row
  BY DEF Inv, TypeOK
<1>3. /\ job'[k].by = job[k].by /\ job'[k].attempts = job[k].attempts
      /\ \/ job[k].status = "absent" /\ job'[k].status = "queued"
         \/ job'[k].status = job[k].status
      /\ \/ job'[k].lease = job[k].lease
         \/ /\ job[k].status = "running" /\ job'[k].lease = "stale" /\ ~Renewing(k)
  BY <1>2 DEF JobStep, Enqueue, LeaseExpires, BackoffElapses, Inv, TypeOK, Row, Orderly
<1>4. LeaseInv'
  <2> SUFFICES ASSUME NEW v \in Worker, Engaged(v)
               PROVE  (Holds(v, on[v]) /\ job[on[v]].lease = "fresh" /\ beating[v])'
    BY <1>1 DEF LeaseInv, Engaged
  <2>1. Holds(v, on[v]) /\ job[on[v]].lease = "fresh" /\ beating[v] /\ on[v] \in Job
    BY Alone DEF Inv, LeaseInv
  <2>2. on[v] = k => Renewing(k)
    BY <2>1 DEF Renewing, Engaged
  <2> QED
    BY <1>1, <1>3, <2>1, <2>2 DEF Holds
<1>5. LoadInv'
  BY <1>1 DEF Inv, LoadInv
<1>6. WorkerLoadInv'
  <2>1. \A w \in Worker : seen[w][k] # NoRow =>
           job[k].status = "running" /\ (job[k].lease # "fresh" => job'[k].lease # "fresh")
    BY <1>3 DEF Inv, WorkerLoadInv
  <2> QED
    BY <1>1, <1>3, <2>1 DEF Inv, WorkerLoadInv
<1>7. ClientLoadInv'
  BY <1>1, <1>3 DEF Inv, ClientLoadInv
<1>8. RowInv'
  BY <1>1, <1>3, QueueAssumption DEF Inv, RowInv
<1> QED
  BY <1>4, <1>5, <1>6, <1>7, <1>8 DEF Inv

----------------------------------------------------------------------------
LEMMA InvStep == Orderly /\ Inv /\ [Next]_vars => Inv'
<1> SUFFICES ASSUME Orderly, Inv, [Next]_vars PROVE Inv'
  OBVIOUS
<1>1. TypeOK'
  BY TypeStep DEF Inv
<1>2. ASSUME NEW w \in Worker, ClaimRead(w) \/ ClaimLose(w) \/ Restart(w) PROVE Inv'
  <2>1. pc[w] \notin {"running", "failing", "reclaiming"}
    BY <1>2 DEF ClaimRead, ClaimLose, Restart
  <2>2. pc' = [pc EXCEPT ![w] = "claiming"] \/ pc' = [pc EXCEPT ![w] = "idle"]
    BY <1>2 DEF ClaimRead, ClaimLose, Restart, GoTo
  <2>3. \A v \in Worker : v # w => on'[v] = on[v]
    BY <1>2 DEF ClaimRead, ClaimLose, Restart, GoTo, Inv, TypeOK
  <2>4. job' = job /\ beating' = beating /\ seen' = seen
    BY <1>2 DEF ClaimRead, ClaimLose, Restart
  <2>5. \A j \in Job : seen[w][j] = NoRow
    BY <2>1 DEF Inv, WorkerLoadInv
  <2> QED
    BY <1>1, <2>2, <2>3, <2>4, <2>5, AsideStep DEF Inv, TypeOK, Engaged
<1>3. ASSUME NEW w \in Worker, Die(w) PROVE Inv'
  <2>1. /\ job' = job /\ ~Engaged(w)'
        /\ \A v \in Worker : v # w =>
              pc'[v] = pc[v] /\ on'[v] = on[v] /\ beating'[v] = beating[v]
        /\ \A p \in Process, j \in Job : p # w => seen'[p][j] = seen[p][j]
        /\ \A j \in Job : seen'[w][j] = NoRow
    BY <1>3 DEF Die, GoTo, Forget, Nothing, Engaged, Inv, TypeOK, Process
  <2> QED
    BY <1>1, <2>1, AsideStep
<1>4. ASSUME NEW w \in Worker, ClaimWin(w) PROVE Inv'
  BY <1>1, <1>4, ClaimWinStep
<1>5. ASSUME UNCHANGED vars PROVE Inv'
  BY <1>1, <1>5 DEF vars, Inv, LeaseInv, LoadInv, WorkerLoadInv, ClientLoadInv, RowInv,
                    Engaged, Holds
<1>6. ASSUME NEW w \in Worker, Renew(w) PROVE Inv'
  BY <1>5, <1>6, RenewStep
<1>7. ASSUME NEW w \in Worker, Complete(w) \/ Misconfigured(w) PROVE Inv'
  BY <1>1, <1>7, EndStep
<1>8. ASSUME NEW w \in Worker, FailWrite(w) PROVE Inv'
  BY <1>1, <1>8, FailStep
<1>9. ASSUME NEW w \in Worker, Raise(w) PROVE Inv'
  BY <1>1, <1>9, RaiseStep
<1>10. ASSUME NEW w \in Worker, ReclaimRead(w) PROVE Inv'
  BY <1>1, <1>10, ReclaimReadStep
<1>11. ASSUME NEW w \in Worker, ReclaimWrite(w) PROVE Inv'
  BY <1>1, <1>11, ReclaimWriteStep
<1>12. ASSUME NEW w \in Worker, CompleteUnheard(w) PROVE Inv'
  BY <1>12 DEF CompleteUnheard, Orderly
<1>13. ASSUME NEW c \in Client, ClientStep(c) PROVE Inv'
  BY <1>1, <1>13, RetryReadStep, RetryWriteStep, RetryFailStep DEF ClientStep
<1>14. ASSUME NEW j \in Job, JobStep(j) PROVE Inv'
  BY <1>1, <1>14, ClockStep
<1> QED
  BY <1>2, <1>3, <1>4, <1>5, <1>6, <1>7, <1>8, <1>9, <1>10, <1>11, <1>12, <1>13, <1>14
     DEF Next, WorkerStep, Finish, Crash, Killed

LEMMA Invariance == ASSUME Orderly PROVE Spec => []Inv
<1>1. Init => Inv
  BY InvInit
<1>2. Inv /\ [Next]_vars => Inv'
  BY InvStep
<1> QED
  BY <1>1, <1>2, PTL DEF Spec

\* While leases and transactions behave, a job is inside one worker at a time,
\* whatever crashes (claim, run_once, reclaim_stale and retry together).
THEOREM OneRunnerCorrect == Orderly => (Spec => []OneRunner)
<1> SUFFICES ASSUME Orderly PROVE Spec => []OneRunner
  OBVIOUS
<1>1. Inv => OneRunner
  BY Alone DEF OneRunner, Engaged
<1> QED
  BY <1>1, Invariance, PTL

\* Under the same condition no row is claimed more than max_attempts times
\* between two retries, whether its attempts end in _fail or in reclaim_stale.
THEOREM AttemptsCorrect == Orderly => (Spec => []AttemptsBounded)
<1> SUFFICES ASSUME Orderly PROVE Spec => []AttemptsBounded
  OBVIOUS
<1>1. Inv => AttemptsBounded
  BY DEF Inv, RowInv, AttemptsBounded
<1> QED
  BY <1>1, Invariance, PTL

\* Under the same condition no late failure, sweep or retry moves a row out of
\* `succeeded`.
THEOREM SuccessCorrect == Orderly => (Spec => SucceededIsFinal)
<1> SUFFICES ASSUME Orderly PROVE Spec => SucceededIsFinal
  OBVIOUS
<1> DEFINE Keeps == \A j \in Job : job[j].status = "succeeded" => job'[j].status = "succeeded"
<1>1. ASSUME Inv, Next PROVE Keeps
  <2> SUFFICES ASSUME NEW k \in Job, job[k].status = "succeeded"
               PROVE  job'[k].status = "succeeded"
    OBVIOUS
  <2>1. \A w \in Worker : Engaged(w) => on[w] # k /\ on[w] \in Job
    BY <1>1, Alone
  <2>2. job \in [Job -> Row] /\ \A w \in Worker : pc[w] = "claiming" => on[w] \in Job
    BY <1>1 DEF Inv, TypeOK
  <2>3. ASSUME NEW w \in Worker, ClaimWin(w) PROVE job'[k] = job[k]
    BY <2>2, <2>3 DEF ClaimWin, Claimable
  <2>4. ASSUME NEW w \in Worker,
               \/ Renew(w) \/ Complete(w) \/ CompleteUnheard(w)
               \/ FailWrite(w) \/ Misconfigured(w)
        PROVE  job'[k] = job[k]
    <3>1. Engaged(w)
      BY <2>4 DEF Renew, Complete, CompleteUnheard, Runs, FailWrite, Misconfigured, Engaged
    <3> QED
      BY <2>1, <2>2, <2>4, <3>1
         DEF Renew, Complete, CompleteUnheard, FailWrite, Misconfigured
  <2>5. ASSUME NEW w \in Worker, ReclaimWrite(w) PROVE job'[k] = job[k]
    <3>1. k \notin Loaded(w)
      BY <1>1 DEF Loaded, Inv, WorkerLoadInv
    <3> QED
      BY <2>5, <3>1 DEF ReclaimWrite
  <2>6. ASSUME NEW w \in Worker,
               \/ ClaimRead(w) \/ ClaimLose(w) \/ Raise(w) \/ Die(w)
               \/ ReclaimRead(w) \/ Restart(w)
        PROVE  job'[k] = job[k]
    BY <2>6 DEF ClaimRead, ClaimLose, Raise, Die, ReclaimRead, Restart
  <2>7. ASSUME NEW c \in Client, ClientStep(c) PROVE job'[k].status = "succeeded"
    <3>1. ASSUME NEW j \in Job, RetryWrite(c, j) PROVE job'[k].status = "succeeded"
      <4>1. CASE j # k
        BY <2>2, <3>1, <4>1 DEF RetryWrite
      <4>2. CASE j = k
        <5>1. seen[c][k].status = "queued" /\ seen[c][k] \in Row
          BY <1>1, <3>1, <4>2 DEF RetryWrite, Inv, TypeOK, ClientLoadInv, Process
        <5>2. [Unlocked(seen[c][k]) EXCEPT !.status = "queued", !.attempts = 0].status = "queued"
          BY <5>1 DEF Unlocked, Row
        <5> QED
          BY <2>2, <3>1, <4>2, <5>1, <5>2 DEF RetryWrite, Flush
      <4> QED
        BY <4>1, <4>2
    <3>2. ASSUME RetryFail(c) \/ \E j \in Job : RetryRead(c, j) PROVE job' = job
      BY <3>2 DEF RetryFail, RetryRead
    <3> QED
      BY <2>7, <3>1, <3>2 DEF ClientStep
  <2>8. ASSUME NEW j \in Job, JobStep(j) PROVE job'[k] = job[k]
    BY <2>2, <2>8 DEF JobStep, Enqueue, LeaseExpires, BackoffElapses
  <2> QED
    BY <1>1, <2>3, <2>4, <2>5, <2>6, <2>7, <2>8 DEF Next, WorkerStep, Finish, Crash, Killed
<1>2. ASSUME Inv, [Next]_vars PROVE [Keeps]_vars
  BY <1>1, <1>2
<1> QED
  BY <1>2, Invariance, PTL DEF Spec, SucceededIsFinal

----------------------------------------------------------------------------
(* The refinement: the rows and workers implement JobContract.  Every step maps *)
(* to one of the contract's, or changes no status, runner or attempt counter.   *)

\* The runner of the refinement mapping is the worker engaged with the job.
RunnerFacts ==
    \A j \in Job :
        /\ RunnerOf(j) \in Worker \cup {NoWorker}
        /\ \A w \in Worker : RunnerOf(j) = w <=> Engaged(w) /\ on[w] = j

LEMMA RunnerNow == Inv => RunnerFacts
<1> SUFFICES ASSUME Inv, NEW j \in Job
             PROVE  /\ RunnerOf(j) \in Worker \cup {NoWorker}
                    /\ \A w \in Worker : RunnerOf(j) = w <=> Engaged(w) /\ on[w] = j
  BY DEF RunnerFacts
<1> DEFINE inside == {w \in Worker : Engaged(w) /\ on[w] = j}
<1>1. RunnerOf(j) = IF inside = {} THEN NoWorker ELSE CHOOSE w \in inside : TRUE
  BY DEF RunnerOf, Engaged
<1>2. \A v, w \in inside : v = w
  BY Alone
<1>3. NoWorker \notin Worker
  BY QueueAssumption
<1> HIDE DEF inside
<1>4. CASE inside = {}
  BY <1>1, <1>3, <1>4 DEF inside
<1>5. CASE inside # {}
  <2>1. RunnerOf(j) \in inside
    BY <1>1, <1>5
  <2> QED
    BY <1>2, <2>1 DEF inside
<1> QED
  BY <1>4, <1>5

LEMMA RunnerNext == Inv' => RunnerFacts'
BY RunnerNow, PTL

\* A job keeps its runner when nobody joins or leaves it.
LEMMA RunnerKept ==
    ASSUME RunnerFacts, RunnerFacts', NEW j \in Job,
           \A w \in Worker : (Engaged(w) /\ on[w] = j)' <=> (Engaged(w) /\ on[w] = j)
    PROVE  RunnerOf(j)' = RunnerOf(j)
BY QueueAssumption DEF RunnerFacts

LEMMA ContractInit == Init => Contract!Init
<1> SUFFICES ASSUME Init PROVE Contract!Init
  OBVIOUS
<1>1. \A j \in Job : RunnerOf(j) = NoWorker
  BY DEF Init, RunnerOf
<1>2. \A j \in Job : job[j].status = "absent" /\ job[j].attempts = 0
  BY DEF Init, Absent
<1> QED
  BY <1>1, <1>2 DEF Contract!Init

----------------------------------------------------------------------------
(* The steps. *)

ContractVars ==
    <<[j \in Job |-> job[j].status], [j \in Job |-> RunnerOf(j)], [j \in Job |-> job[j].attempts]>>

\* A step that moves no status, no counter and no engaged worker is a stutter.
LEMMA SameStep ==
    ASSUME RunnerFacts, RunnerFacts',
           \A j \in Job : job'[j].status = job[j].status /\ job'[j].attempts = job[j].attempts,
           \A j \in Job : \A w \in Worker :
              (Engaged(w) /\ on[w] = j)' <=> (Engaged(w) /\ on[w] = j)
    PROVE  UNCHANGED ContractVars
<1>1. \A j \in Job : RunnerOf(j)' = RunnerOf(j)
  BY RunnerKept
<1> QED
  BY <1>1 DEF ContractVars

\* A worker that leaves its job takes the runner with it, and nobody else's.
LEMMA LeaveRunner ==
    ASSUME RunnerFacts, RunnerFacts', NEW w \in Worker, NEW k \in Job,
           Engaged(w), on[w] = k, ~Engaged(w)',
           \A v \in Worker : v # w => pc'[v] = pc[v] /\ on'[v] = on[v]
    PROVE  /\ RunnerOf(k) # NoWorker
           /\ [j \in Job |-> RunnerOf(j)]' = [[j \in Job |-> RunnerOf(j)] EXCEPT ![k] = NoWorker]
<1>1. RunnerOf(k) = w /\ w # NoWorker
  BY QueueAssumption DEF RunnerFacts
<1>2. RunnerOf(k)' = NoWorker
  <2> SUFFICES ASSUME NEW v \in Worker, RunnerOf(k)' = v PROVE FALSE
    BY DEF RunnerFacts
  <2>1. Engaged(v)' /\ on'[v] = k
    BY DEF RunnerFacts
  <2>2. v # w
    BY <2>1
  <2>3. Engaged(v) /\ on[v] = k
    BY <2>1, <2>2 DEF Engaged
  <2> QED
    BY <1>1, <2>2, <2>3 DEF RunnerFacts
<1>3. ASSUME NEW j \in Job, j # k PROVE RunnerOf(j)' = RunnerOf(j)
  <2>1. \A v \in Worker : (Engaged(v) /\ on[v] = j)' <=> (Engaged(v) /\ on[v] = j)
    BY <1>3 DEF Engaged
  <2> QED
    BY <2>1, RunnerKept
<1> QED
  BY <1>1, <1>2, <1>3

\* A claim starts an attempt (claim's guarded UPDATE).
LEMMA StartStep ==
    ASSUME Inv, Inv', NEW w \in Worker, NEW k \in Job, on[w] = k, ClaimWin(w)
    PROVE  Contract!Start(w, k)
<1>1. job[k].status = "queued" /\ job[k] \in Row /\ ~Engaged(w)
  BY DEF ClaimWin, Claimable, Inv, TypeOK, Engaged
<1>2. RunnerFacts /\ RunnerFacts'
  BY RunnerNow, RunnerNext
<1>3. /\ job'[k].status = "running" /\ job'[k].attempts = job[k].attempts + 1
      /\ \A j \in Job : j # k => job'[j] = job[j]
      /\ Engaged(w)' /\ on'[w] = k
      /\ \A v \in Worker : v # w => pc'[v] = pc[v] /\ on'[v] = on[v]
  BY <1>1 DEF ClaimWin, GoTo, Engaged, Inv, TypeOK, Row
<1>4. job[k].attempts < MaxAttempts
  BY <1>1 DEF Inv, RowInv
<1>5. \A i \in Job : RunnerOf(i) # w
  BY <1>1, <1>2 DEF RunnerFacts
<1>6. RunnerOf(k)' = w
  BY <1>2, <1>3 DEF RunnerFacts
<1>7. ASSUME NEW j \in Job, j # k PROVE RunnerOf(j)' = RunnerOf(j)
  <2>1. \A v \in Worker : (Engaged(v) /\ on[v] = j)' <=> (Engaged(v) /\ on[v] = j)
    BY <1>1, <1>3, <1>7 DEF Engaged
  <2> QED
    BY <1>2, <2>1, RunnerKept
<1> QED
  BY <1>1, <1>3, <1>4, <1>5, <1>6, <1>7 DEF Contract!Start

\* What ends an execution succeeds it or fails it (_complete, _fail, the missing
\* handler), or leaves it without a runner.
LEMMA EndContract ==
    ASSUME Inv, Inv', NEW w \in Worker, NEW k \in Job, on[w] = k,
           \/ Complete(w) \/ Misconfigured(w) \/ FailWrite(w)
           \/ Engaged(w) /\ Die(w)
    PROVE  Contract!Succeed(k) \/ Contract!Fail(k) \/ Contract!Abandon(k)
<1>1. Engaged(w)
  BY DEF Complete, Misconfigured, Runs, FailWrite, Engaged
<1>2. job[k].status = "running" /\ job[k] \in Row
  BY <1>1, Alone DEF Inv, TypeOK
<1>3. RunnerFacts /\ RunnerFacts'
  BY RunnerNow, RunnerNext DEF Inv
<1>4. ~Engaged(w)' /\ \A v \in Worker : v # w => pc'[v] = pc[v] /\ on'[v] = on[v]
  BY DEF Complete, Misconfigured, FailWrite, Die, GoTo, Engaged, Inv, TypeOK
<1>5. /\ RunnerOf(k) # NoWorker
      /\ [j \in Job |-> RunnerOf(j)]' = [[j \in Job |-> RunnerOf(j)] EXCEPT ![k] = NoWorker]
  BY <1>1, <1>2, <1>3, <1>4, LeaveRunner
<1>6. ASSUME Complete(w) PROVE Contract!Succeed(k)
  <2>1. /\ job'[k].status = "succeeded" /\ job'[k].attempts = job[k].attempts
        /\ \A j \in Job : j # k => job'[j] = job[j]
    BY <1>2, <1>6 DEF Complete, Succeeded, Unlocked, Row, Inv, TypeOK
  <2> QED
    BY <1>2, <1>5, <2>1 DEF Contract!Succeed
<1>7. ASSUME Misconfigured(w) \/ FailWrite(w) PROVE Contract!Fail(k)
  <2>1. /\ job'[k].status \in {"queued", "dead"}
        /\ job'[k].attempts = job[k].attempts
        /\ job'[k].status = "queued" => job[k].attempts < MaxAttempts
        /\ \A j \in Job : j # k => job'[j] = job[j]
    <3>1. CASE Misconfigured(w)
      BY <1>2, <3>1 DEF Misconfigured, Buried, Unlocked, Row, Inv, TypeOK
    <3>2. CASE FailWrite(w)
      <4>1. seen[w][k] \in Row /\ seen[w][k] # NoRow
        BY <1>2, <3>2 DEF FailWrite, Inv, TypeOK, Process
      <4>2. PICK new \in {Requeued(seen[w][k]), Buried(seen[w][k])} :
              job' = [job EXCEPT ![k] = Put(k, seen[w][k], new)]
        BY <3>2 DEF FailWrite
      <4>3. /\ seen[w][k].status = "running"
            /\ seen[w][k].lease # "none" /\ seen[w][k].by # NoWorker
            /\ seen[w][k].attempts = job[k].attempts
        BY <1>2, <4>1 DEF Inv, WorkerLoadInv
      <4>4. /\ Put(k, seen[w][k], new).status \in {"queued", "dead"}
            /\ Put(k, seen[w][k], new).attempts = job[k].attempts
            /\ Put(k, seen[w][k], new).status = "queued" => job[k].attempts < MaxAttempts
        BY <1>2, <4>1, <4>3, PutLeaves
      <4> QED
        BY <1>2, <4>2, <4>4 DEF Inv, TypeOK
    <3> QED
      BY <1>7, <3>1, <3>2
  <2> QED
    BY <1>2, <1>5, <2>1 DEF Contract!Fail
<1>8. ASSUME Die(w) PROVE Contract!Abandon(k)
  <2>1. job' = job
    BY <1>8 DEF Die
  <2> QED
    BY <1>2, <1>5, <2>1 DEF Contract!Abandon
<1> QED
  BY <1>6, <1>7, <1>8

\* The sweep's flush recovers jobs whose runner is gone (reclaim_stale).
LEMMA RecoverStep ==
    ASSUME Inv, Inv', NEW w \in Worker, ReclaimWrite(w), NEW S \in SUBSET Job, S = Loaded(w)
    PROVE  Contract!Recover(S)
<1>1. RunnerFacts /\ RunnerFacts'
  BY RunnerNow, RunnerNext
<1>2. ASSUME NEW j \in Loaded(w)
      PROVE  /\ j \in Job
             /\ job[j].status = "running" /\ RunnerOf(j) = NoWorker
             /\ job'[j].status = IF job[j].attempts < MaxAttempts THEN "queued" ELSE "dead"
             /\ job'[j].attempts = job[j].attempts
  <2>1. j \in Job /\ job[j] \in Row /\ seen[w][j] \in Row /\ seen[w][j] # NoRow
    BY DEF Loaded, Inv, TypeOK, Process
  <2>2. /\ job[j].status = "running" /\ job[j].lease # "fresh"
        /\ seen[w][j].status = "running"
        /\ seen[w][j].attempts = job[j].attempts
    BY <2>1 DEF ReclaimWrite, Inv, WorkerLoadInv
  <2>3. RunnerOf(j) = NoWorker
    BY <1>1, <2>1, <2>2, Alone DEF RunnerFacts
  <2>4. job'[j] = Put(j, seen[w][j], Requeued(seen[w][j]))
    BY <2>1 DEF ReclaimWrite
  <2>5. /\ Requeued(seen[w][j]).status =
             IF job[j].attempts < MaxAttempts THEN "queued" ELSE "dead"
        /\ Requeued(seen[w][j]).attempts = job[j].attempts
    <3>1. job[j].attempts \in Nat /\ MaxAttempts \in Nat
      BY <2>1, QueueAssumption DEF Row
    <3> QED
      BY <2>1, <2>2, <3>1 DEF Requeued, Unlocked, Row
  <2>6. /\ job'[j].status = Requeued(seen[w][j]).status
        /\ job'[j].attempts = job[j].attempts
    BY <2>2, <2>4, <2>5 DEF Put, Flush
  <2> QED
    BY <2>1, <2>2, <2>3, <2>5, <2>6
<1>3. \A j \in Job : j \notin Loaded(w) => job'[j] = job[j]
  BY DEF ReclaimWrite
<1>4. ASSUME NEW j \in Job PROVE RunnerOf(j)' = RunnerOf(j)
  <2>1. \A v \in Worker : (Engaged(v) /\ on[v] = j)' <=> (Engaged(v) /\ on[v] = j)
    BY DEF ReclaimWrite, GoTo, Engaged, Inv, TypeOK
  <2> QED
    BY <1>1, <2>1, RunnerKept
<1>5. \A j \in Job : /\ job'[j].status = IF j \notin S THEN job[j].status
                                         ELSE IF job[j].attempts < MaxAttempts THEN "queued" ELSE "dead"
                     /\ job'[j].attempts = job[j].attempts
  BY <1>2, <1>3
<1> QED
  BY <1>2, <1>4, <1>5 DEF Contract!Recover

\* A retry gives a dead job its attempts back (retry), and its flush moves
\* nothing else.
LEMMA RetryContract ==
    ASSUME Inv, Inv', NEW c \in Client, NEW k \in Job, RetryWrite(c, k)
    PROVE  Contract!Retry(k)
<1> DEFINE r == seen[c][k]
<1>1. r # NoRow /\ r \in Row /\ job[k] \in Row
  BY DEF RetryWrite, Inv, TypeOK, Process
<1>2. /\ r.status \in {"queued", "dead"}
      /\ r.status = "dead" => job[k].status = "dead"
  BY <1>1 DEF Inv, ClientLoadInv
<1>3. job'[k] = Flush(job[k], r, [Unlocked(r) EXCEPT !.status = "queued", !.attempts = 0], TRUE)
  BY DEF RetryWrite, Inv, TypeOK
<1>4. \A j \in Job : j # k => job'[j] = job[j]
  BY DEF RetryWrite, Inv, TypeOK
<1>5. /\ job'[k].status = IF r.status = "queued" THEN job[k].status ELSE "queued"
      /\ job'[k].attempts = IF r.attempts = 0 THEN job[k].attempts ELSE 0
  BY <1>1, <1>3 DEF Flush, Unlocked, Row
<1>6. job[k].status # "absent"
  BY <1>1 DEF Inv, ClientLoadInv
<1>7. ASSUME NEW j \in Job PROVE RunnerOf(j)' = RunnerOf(j)
  <2>1. \A v \in Worker : (Engaged(v) /\ on[v] = j)' <=> (Engaged(v) /\ on[v] = j)
    BY DEF RetryWrite, Engaged
  <2> QED
    BY RunnerNow, RunnerNext, RunnerKept, <2>1
<1> HIDE DEF r
<1> QED
  BY <1>2, <1>4, <1>5, <1>6, <1>7 DEF Contract!Retry

LEMMA SubmitStep ==
    ASSUME Inv, Inv', NEW k \in Job, Enqueue(k)
    PROVE  Contract!Submit(k)
<1>1. /\ job[k].status = "absent"
      /\ job'[k].status = "queued" /\ job'[k].attempts = job[k].attempts
      /\ \A j \in Job : j # k => job'[j] = job[j]
  BY DEF Enqueue, Inv, TypeOK, Row
<1>2. ASSUME NEW j \in Job PROVE RunnerOf(j)' = RunnerOf(j)
  <2>1. \A v \in Worker : (Engaged(v) /\ on[v] = j)' <=> (Engaged(v) /\ on[v] = j)
    BY DEF Enqueue, Engaged
  <2> QED
    BY RunnerNow, RunnerNext, RunnerKept, <2>1
<1> QED
  BY <1>1, <1>2 DEF Contract!Submit

\* What the contract does not see: candidates are picked and lost, rows are
\* loaded, leases are renewed and age, backoffs elapse, idle workers come and go.
LEMMA HiddenStep ==
    ASSUME Inv, Inv',
           \/ \E w \in Worker :
                \/ ClaimRead(w) \/ ClaimLose(w) \/ Restart(w) \/ Renew(w) \/ Raise(w)
                \/ ReclaimRead(w) \/ (~Engaged(w) /\ Die(w))
           \/ \E c \in Client : RetryFail(c) \/ \E j \in Job : RetryRead(c, j)
           \/ \E j \in Job : LeaseExpires(j) \/ BackoffElapses(j)
           \/ UNCHANGED vars
    PROVE  UNCHANGED ContractVars
<1>1. RunnerFacts /\ RunnerFacts'
  BY RunnerNow, RunnerNext
<1>2. \A j \in Job : job'[j].status = job[j].status /\ job'[j].attempts = job[j].attempts
  <2>1. ASSUME NEW w \in Worker, Renew(w) PROVE job' = job
    BY <2>1, RenewStep DEF vars
  <2>2. ASSUME NEW k \in Job, LeaseExpires(k) \/ BackoffElapses(k), NEW j \in Job
        PROVE  job'[j].status = job[j].status /\ job'[j].attempts = job[j].attempts
    BY <2>2 DEF LeaseExpires, BackoffElapses, Inv, TypeOK, Row
  <2> QED
    BY <2>1, <2>2 DEF ClaimRead, ClaimLose, Restart, Raise, ReclaimRead, Die, RetryFail,
                      RetryRead, vars
<1>3. \A w \in Worker : Engaged(w)' = Engaged(w) /\ (Engaged(w) => on'[w] = on[w])
  <2>1. ASSUME NEW w \in Worker, ClaimRead(w) \/ ClaimLose(w) \/ Restart(w) \/ Raise(w)
                                 \/ ReclaimRead(w) \/ (~Engaged(w) /\ Die(w)),
               NEW v \in Worker
        PROVE  Engaged(v)' = Engaged(v) /\ (Engaged(v) => on'[v] = on[v])
    <3>1. pc = [v2 \in Worker |-> pc[v2]] /\ on \in [Worker -> Job \cup {NoJob}]
      BY DEF Inv, TypeOK
    <3>2. CASE ClaimRead(w)
      BY <3>1, <3>2 DEF ClaimRead, GoTo, Engaged
    <3>3. CASE ClaimLose(w)
      BY <3>1, <3>3 DEF ClaimLose, GoTo, Engaged
    <3>4. CASE Restart(w)
      BY <3>1, <3>4 DEF Restart, GoTo, Engaged
    <3>5. CASE Raise(w)
      BY <3>1, <3>5 DEF Raise, Runs, GoTo, Engaged
    <3>6. CASE ReclaimRead(w)
      BY <3>1, <3>6 DEF ReclaimRead, GoTo, Engaged
    <3>7. CASE ~Engaged(w) /\ Die(w)
      BY <3>1, <3>7 DEF Die, GoTo, Engaged
    <3> QED
      BY <2>1, <3>2, <3>3, <3>4, <3>5, <3>6, <3>7
  <2>2. ASSUME NEW w \in Worker, Renew(w) PROVE pc' = pc /\ on' = on
    BY <2>2 DEF Renew
  <2> QED
    BY <2>1, <2>2 DEF RetryFail, RetryRead, LeaseExpires, BackoffElapses, vars, Engaged
<1> QED
  BY <1>1, <1>2, <1>3, SameStep

LEMMA ContractStep ==
    ASSUME Orderly, Inv, Inv', [Next]_vars
    PROVE  [Contract!Next]_ContractVars
<1>1. ASSUME NEW w \in Worker, ClaimWin(w) PROVE Contract!Next
  <2>1. on[w] \in Job
    BY <1>1 DEF ClaimWin, Inv, TypeOK
  <2>2. PICK k \in Job : on[w] = k
    BY <2>1
  <2>3. Contract!Start(w, k)
    BY <1>1, <2>2, StartStep
  <2> QED
    BY <2>3 DEF Contract!Next
<1>2. ASSUME NEW w \in Worker,
             Complete(w) \/ Misconfigured(w) \/ FailWrite(w) \/ (Engaged(w) /\ Die(w))
      PROVE  Contract!Next
  <2>1. on[w] \in Job
    BY <1>2, Alone DEF Complete, Misconfigured, Runs, FailWrite, Engaged
  <2>2. PICK k \in Job : on[w] = k
    BY <2>1
  <2>3. Contract!Succeed(k) \/ Contract!Fail(k) \/ Contract!Abandon(k)
    BY <1>2, <2>2, EndContract
  <2> QED
    BY <2>3 DEF Contract!Next
<1>3. ASSUME NEW w \in Worker, ReclaimWrite(w) PROVE Contract!Next
  <2>1. PICK S \in SUBSET Job : S = Loaded(w)
    BY DEF Loaded
  <2>2. Contract!Recover(S)
    BY <1>3, <2>1, RecoverStep
  <2> QED
    BY <2>2 DEF Contract!Next
<1>4. ASSUME NEW c \in Client, NEW j \in Job, RetryWrite(c, j) PROVE Contract!Next
  BY <1>4, RetryContract DEF Contract!Next
<1>5. ASSUME NEW j \in Job, Enqueue(j) PROVE Contract!Next
  BY <1>5, SubmitStep DEF Contract!Next
<1>6. ASSUME NEW w \in Worker, CompleteUnheard(w) PROVE FALSE
  BY <1>6 DEF CompleteUnheard, Orderly
<1>7. ASSUME NEW w \in Worker, WorkerStep(w) PROVE [Contract!Next]_ContractVars
  <2>1. CASE Finish(w) \/ Crash(w)
    BY <1>2, <2>1, HiddenStep DEF Finish, Killed, Crash
  <2>2. CASE ClaimRead(w) \/ ClaimLose(w) \/ Restart(w) \/ Renew(w) \/ ReclaimRead(w)
    BY <2>2, HiddenStep
  <2> QED
    BY <1>1, <1>2, <1>3, <1>6, <1>7, <2>1, <2>2 DEF WorkerStep
<1>8. ASSUME NEW c \in Client, ClientStep(c) PROVE [Contract!Next]_ContractVars
  BY <1>4, <1>8, HiddenStep DEF ClientStep
<1>9. ASSUME NEW j \in Job, JobStep(j) PROVE [Contract!Next]_ContractVars
  BY <1>5, <1>9, HiddenStep DEF JobStep
<1> QED
  BY <1>7, <1>8, <1>9, HiddenStep DEF Next

\* While leases and transactions behave, the queue keeps its contract for any
\* jobs, workers and crashes: claim starts attempts, _complete and _fail end
\* them, the sweep recovers only what lost its runner, and retry revives.
THEOREM ContractCorrect == Orderly => (Spec => ImplementsContract)
<1> SUFFICES ASSUME Orderly PROVE Spec => ImplementsContract
  OBVIOUS
<1>1. Init => Contract!Init
  BY ContractInit
<1>2. Inv /\ Inv' /\ [Next]_vars => [Contract!Next]_ContractVars
  BY ContractStep
<1>3. Spec => []Inv
  BY Invariance
<1> QED
  BY <1>1, <1>2, <1>3, PTL DEF Spec, ImplementsContract, Contract!Spec, ContractVars
=============================================================================
