--------------------------- MODULE BillingProofs ---------------------------
(***************************************************************************)
(* TLAPS proofs about billing, for any workers, clients, days, periods and *)
(* number of faults: no day is passed over by the sweep, nobody pays twice *)
(* for a due date, a hosted payment is applied once, usage is billed once, *)
(* and of the events of a subscription the newest wins.                    *)
(***************************************************************************)
EXTENDS Billing, TLAPS

----------------------------------------------------------------------------
(* The loop of a worker: whatever the sweep, the queue and the machines do, no  *)
(* handler moves.                                                               *)

\* Executions and transactions are well formed.
ExecInv ==
    /\ today \in 1 .. Days
    /\ exec = [w \in Worker |-> exec[w]]
    /\ tx = [a \in Actor |-> tx[a]]
    /\ \A w \in Worker : exec[w] # NoExec => exec[w] = [job |-> exec[w].job, at |-> exec[w].at]

\* Whoever asks somebody after the step did before, in the same transaction; the
\* transactions of the clients stay.
Steady ==
    /\ today' \in 1 .. Days
    /\ exec' = [w \in Worker |-> exec'[w]]
    /\ tx' = [a \in Actor |-> tx'[a]]
    /\ \A w \in Worker :
         exec'[w] # NoExec =>
            /\ exec'[w] = [job |-> exec'[w].job, at |-> exec'[w].at]
            /\ exec'[w].at \in {"calling", "answered"} => exec'[w] = exec[w] /\ tx'[w] = tx[w]
    /\ \A c \in Client : tx'[c] = tx[c]

LEMMA ExecInit == SchedulerInit /\ WorkerInit => ExecInv
BY SchedulerAssumption DEF SchedulerInit, WorkerInit, ExecInv

LEMMA SteadyExec ==
    ASSUME Steady
    PROVE  ExecInv'
BY DEF Steady, ExecInv

LEMMA StopSteady ==
    ASSUME ExecInv, NEW w \in Worker, Stop(w), UNCHANGED today
    PROVE  Steady
BY ActorAssumption DEF ExecInv, Stop, Close, Steady, Actor

LEMMA SchedulerSteps ==
    ASSUME ExecInv, NEW STATE K, SchedulerNext(K)
    PROVE  Steady
<1> USE DEF ExecInv
<1>1. ASSUME NEW w \in Worker, BeginSweep(w, K) \/ EndSweep(w) \/ FailSweep(w) PROVE Steady
  BY <1>1 DEF BeginSweep, EndSweep, FailSweep, workerVars, Steady
<1>2. ASSUME NEW w \in Worker, Die(w) PROVE Steady
  BY <1>2, StopSteady DEF Die, Crash, Steady
<1>3. ASSUME NEW w \in Worker, Drain(w) PROVE Steady
  BY <1>3 DEF Drain, Take, Steady, schedulerVars
<1>4. ASSUME NEW w \in Worker, Finish(w), UNCHANGED schedulerVars PROVE Steady
  BY <1>4, StopSteady DEF Finish, schedulerVars
<1>5. ASSUME NEW w \in Worker, LoseLease(w), UNCHANGED schedulerVars PROVE Steady
  BY <1>5 DEF LoseLease, schedulerVars, Steady
<1>6. ASSUME NEW j \in Job, Reclaim(j) \/ Revive(j), UNCHANGED schedulerVars PROVE Steady
  BY <1>6 DEF Reclaim, Revive, schedulerVars, Steady
<1>7. CASE NewDay
  BY <1>7, SchedulerAssumption DEF NewDay, workerVars, Steady
<1> QED
  BY <1>1, <1>2, <1>3, <1>4, <1>5, <1>6, <1>7 DEF SchedulerNext, Loop

----------------------------------------------------------------------------
(* The sweep, for kinds K that are due every day.                          *)

\* The jobs of the day are on the queue when every worker takes the day as done
\* and nobody is in the sweep; a worker in the sweep has not marked that day yet.
SweepInv(K) ==
    /\ today \in 1 .. Days
    /\ marked \in [Worker -> 0 .. today]
    /\ phase = [j \in Job |-> phase[j]]
    /\ sweep # NoSweep =>
         /\ sweep.by \in Worker
         /\ sweep.day \in 1 .. today
         /\ marked[sweep.by] < sweep.day
         /\ \A j \in Job : j[1] \in K /\ j[2] = sweep.day => j \in sweep.jobs
    /\ sweep = NoSweep /\ (\A w \in Worker : marked[w] = today)
         => \A j \in DailyJobs(K) : phase[j] # "absent"

LEMMA SweepInit ==
    ASSUME NEW CONSTANT K, SchedulerInit, WorkerInit
    PROVE  SweepInv(K)
BY SchedulerAssumption DEF SchedulerInit, WorkerInit, Queue!Init, SweepInv

\* No job goes back to the time before it was queued.
JobsStay ==
    /\ phase' = [j \in Job |-> phase'[j]]
    /\ \A j \in Job : phase[j] # "absent" => phase'[j] # "absent"

LEMMA JobsStaySteps ==
    ASSUME NEW CONSTANT K, SweepInv(K), SchedulerNext(K)
    PROVE  JobsStay
<1> USE DEF SweepInv, JobsStay
<1>1. ASSUME UNCHANGED phase PROVE JobsStay
  BY <1>1
<1>2. ASSUME NEW w \in Worker, EndSweep(w) PROVE JobsStay
  BY <1>2 DEF EndSweep, Enqueue
<1>3. ASSUME NEW w \in Worker, NEW j \in Job, Take(w, j) PROVE JobsStay
  BY <1>3 DEF Take, Queue!Start
<1>4. ASSUME NEW w \in Worker, Finish(w) PROVE JobsStay
  BY <1>4 DEF Finish, Report
<1>5. ASSUME NEW j \in Job, Reclaim(j) PROVE JobsStay
  BY <1>5 DEF Reclaim, Queue!Recover
<1>6. ASSUME NEW j \in Job, Revive(j) PROVE JobsStay
  BY <1>6 DEF Revive, Queue!Retry
<1>7. ASSUME NEW w \in Worker, Crash(w) \/ LoseLease(w) \/ FailSweep(w) \/ BeginSweep(w, K)
      PROVE  JobsStay
  BY <1>7, <1>1 DEF Crash, LoseLease, FailSweep, BeginSweep, Queue!Abandon, queueVars, workerVars
<1>8. ASSUME NEW w \in Worker, Die(w) PROVE JobsStay
  BY <1>8, <1>7, <1>1 DEF Die, queueVars
<1>9. CASE NewDay
  BY <1>9, <1>1 DEF NewDay, workerVars
<1> QED
  BY <1>2, <1>3, <1>4, <1>5, <1>6, <1>7, <1>8, <1>9 DEF SchedulerNext, Loop, Drain

LEMMA SweepStays ==
    ASSUME NEW CONSTANT K, SweepInv(K), JobsStay, UNCHANGED schedulerVars
    PROVE  SweepInv(K)'
BY DEF SweepInv, JobsStay, schedulerVars, DailyJobs

LEMMA SweepSteps ==
    ASSUME NEW CONSTANT K, SweepInv(K), SchedulerNext(K)
    PROVE  SweepInv(K)'
<1>1. JobsStay
  BY JobsStaySteps
<1>2. ASSUME NEW w \in Worker, BeginSweep(w, K) PROVE SweepInv(K)'
  <2>1. CASE sweep = NoSweep
    <3>1. /\ sweep' = [by |-> w, day |-> today, jobs |-> DailyJobs(K)]
          /\ marked' = marked /\ today' = today /\ marked[w] # today
      BY <1>2, <2>1 DEF BeginSweep
    <3>2. marked[w] < today /\ ~ \A v \in Worker : marked'[v] = today'
      BY <3>1 DEF SweepInv
    <3>3. /\ sweep'.by = w /\ sweep'.day = today
          /\ \A j \in Job : j[1] \in K /\ j[2] = sweep'.day => j \in sweep'.jobs
      BY <3>1 DEF DailyJobs
    <3> QED
      BY <1>1, <3>1, <3>2, <3>3 DEF SweepInv, JobsStay
  <2>2. CASE sweep # NoSweep
    <3>1. marked' = [marked EXCEPT ![w] = today] /\ sweep' = sweep /\ today' = today
      BY <1>2, <2>2 DEF BeginSweep
    <3>2. w # sweep.by
      BY <1>2, <2>2 DEF BeginSweep, Sweeping
    <3> QED
      BY <1>1, <2>2, <3>1, <3>2 DEF SweepInv, JobsStay
  <2> QED
    BY <2>1, <2>2
<1>3. ASSUME NEW w \in Worker, EndSweep(w) PROVE SweepInv(K)'
  <2>1. marked' = [marked EXCEPT ![w] = sweep.day] /\ w = sweep.by /\ sweep # NoSweep
    BY <1>3 DEF EndSweep, Sweeping
  <2>2. ASSUME NEW j \in Job, j[1] \in K, j[2] = sweep.day PROVE phase'[j] # "absent"
    BY <1>3, <2>2, <2>1 DEF EndSweep, Enqueue, SweepInv
  <2> QED
    BY <1>1, <1>3, <2>1, <2>2 DEF EndSweep, SweepInv, JobsStay, DailyJobs
<1>4. ASSUME NEW w \in Worker, FailSweep(w) PROVE SweepInv(K)'
  BY <1>1, <1>4 DEF FailSweep, Forget, Sweeping, SweepInv, JobsStay
<1>5. ASSUME NEW w \in Worker, Die(w) PROVE SweepInv(K)'
  <2>1. marked' = [marked EXCEPT ![w] = 0] /\ today' = today /\ today # 0
    BY <1>5 DEF Die, SweepInv
  <2>2. marked' \in [Worker -> 0 .. today'] /\ ~ \A v \in Worker : marked'[v] = today'
    BY <2>1 DEF SweepInv
  <2>3. CASE sweep' = NoSweep
    BY <1>1, <2>1, <2>2, <2>3 DEF SweepInv, JobsStay
  <2>4. CASE sweep' # NoSweep
    <3>1. sweep' = sweep /\ sweep.by # w
      BY <1>5, <2>4 DEF Die, Sweeping
    <3> QED
      BY <1>1, <2>1, <2>2, <2>4, <3>1 DEF SweepInv, JobsStay
  <2> QED
    BY <2>3, <2>4
<1>6. CASE NewDay
  <2>1. PICK v \in Worker : TRUE
    BY SchedulerAssumption
  <2> QED
    BY <1>1, <1>6, <2>1, SchedulerAssumption DEF NewDay, SweepInv, JobsStay
<1>7. CASE UNCHANGED schedulerVars
  BY <1>1, <1>7, SweepStays
<1> QED
  BY <1>2, <1>3, <1>4, <1>5, <1>6, <1>7 DEF SchedulerNext, Loop, Drain

----------------------------------------------------------------------------
(* Metered usage. *)

----------------------------------------------------------------------------
(* The inductive invariant.                                                *)

Asking(w) == At(w, "calling") \/ At(w, "answered")

\* The provider has billed up to the last segment it has seen, which is the last
\* one acknowledged or the one in flight.
CounterInv(m) ==
    LET c == counter[m] IN
    /\ c \in CounterRow
    /\ billed[m] \in Nat
    /\ Boundary(c) <= c.count
    /\ billed[m] \in {c.reported, Boundary(c)}
    /\ billed[m] = 0 \/ <<m, billed[m]>> \in segments
    /\ \A n \in Nat : <<m, n>> \in segments => n <= billed[m]

\* A segment that a run asks for, and the provider has not seen, is the one in
\* flight, and ends where the bill would end with it.
AskInv(w) ==
    LET q == tx[w]
        m == q.month
    IN
    /\ m \in Month /\ q.target \in Nat /\ q.quantity \in Nat
    /\ At(w, "answered") => <<m, q.target>> \in segments
    /\ <<m, q.target>> \notin segments =>
         /\ q.target = counter[m].target /\ counter[m].reported < q.target
         /\ billed[m] + q.quantity = q.target

Counters ==
    /\ counter = [m \in Month |-> counter[m]]
    /\ billed = [m \in Month |-> billed[m]]
    /\ \A m \in Month : CounterInv(m)

MeteringInv == ExecInv /\ Counters /\ \A w \in Worker : Asking(w) => AskInv(w)

LEMMA MeteringInvImplies == MeteringInv => MeteredOnce
BY DEF MeteringInv, Counters, CounterInv, MeteredOnce

LEMMA MonthOfDay == \A d \in 1 .. Days : MonthOf[d] \in Month
BY DEF Month

LEMMA MeteringInvInit == LoopInit /\ MeteringInit => MeteringInv
<1> SUFFICES ASSUME LoopInit, MeteringInit PROVE MeteringInv
  OBVIOUS
<1>1. ExecInv /\ \A w \in Worker : ~Asking(w)
  BY ExecInit DEF LoopInit, WorkerInit, Asking, At
<1>2. Counters
  <2>1. PICK legacy \in {0, 1} :
          /\ counter = [m \in Month |-> IF m = MonthOf[1]
                                        THEN [count |-> legacy, reported |-> legacy, target |-> 0]
                                        ELSE [count |-> 0, reported |-> 0, target |-> 0]]
          /\ segments = {<<MonthOf[1], n>> : n \in 1 .. legacy}
          /\ billed = [m \in Month |-> IF m = MonthOf[1] THEN legacy ELSE 0]
    BY DEF MeteringInit
  <2>2. ASSUME NEW m \in Month PROVE CounterInv(m)
    <3>1. CASE m = MonthOf[1]
      BY <2>1, <3>1 DEF CounterInv, CounterRow, Boundary
    <3>2. CASE m # MonthOf[1]
      BY <2>1, <3>2 DEF CounterInv, CounterRow, Boundary
    <3> QED
      BY <3>1, <3>2
  <2> QED
    BY <2>1, <2>2 DEF Counters
<1> QED
  BY <1>1, <1>2 DEF MeteringInv

----------------------------------------------------------------------------
(* Steps that leave the counters alone.                                    *)

LEMMA SteadyStep ==
    ASSUME MeteringInv, Steady, UNCHANGED meteringVars
    PROVE  MeteringInv'
<1>1. ExecInv'
  BY DEF Steady, ExecInv
<1>2. Counters'
  BY DEF MeteringInv, Counters, CounterInv, meteringVars
<1>3. ASSUME NEW w \in Worker, Asking(w)' PROVE AskInv(w)'
  <2>1. exec'[w] = exec[w] /\ tx'[w] = tx[w]
    BY <1>3 DEF Asking, At, Steady
  <2>2. AskInv(w)
    BY <1>3, <2>1 DEF MeteringInv, Asking, At
  <2> QED
    BY <2>1, <2>2 DEF AskInv, At, meteringVars
<1> QED
  BY <1>1, <1>2, <1>3 DEF MeteringInv

----------------------------------------------------------------------------
(* The other steps.                                                        *)

LEMMA UseStep ==
    ASSUME MeteringInv, Use
    PROVE  MeteringInv'
<1> DEFINE m == MonthOf[today]
<1>1. ExecInv' /\ m \in Month
  BY MonthOfDay DEF MeteringInv, ExecInv, Use, workerVars, schedulerVars
<1>2. /\ counter' = [counter EXCEPT ![m].count = @ + 1]
      /\ UNCHANGED <<segments, billed, exec, tx>>
  BY DEF Use, workerVars
<1>3. ASSUME NEW k \in Month
      PROVE  /\ CounterInv(k)'
             /\ counter'[k].target = counter[k].target /\ counter'[k].reported = counter[k].reported
  BY <1>1, <1>2 DEF MeteringInv, Counters, CounterInv, CounterRow, Boundary
<1>4. Counters'
  BY <1>1, <1>2, <1>3 DEF MeteringInv, Counters
<1>5. ASSUME NEW w \in Worker, Asking(w)' PROVE AskInv(w)'
  BY <1>2, <1>3, <1>5 DEF MeteringInv, Asking, At, AskInv
<1> QED
  BY <1>1, <1>4, <1>5 DEF MeteringInv

LEMMA FreezeStep ==
    ASSUME MeteringInv, NEW w \in Worker, Freeze(w)
    PROVE  MeteringInv'
<1> DEFINE m == MonthOf[today]
           c == counter[m]
           target == Segment(c)
<1>1. m \in Month /\ CounterInv(m)
  BY MonthOfDay DEF MeteringInv, ExecInv, Counters
<1>2. CASE target > c.reported
  <2>1. /\ counter' = [counter EXCEPT ![m].target = target]
        /\ tx[w] = NoTx
        /\ tx' = [tx EXCEPT ![w] = [locks |-> {}, month |-> m, target |-> target,
                                    quantity |-> target - c.reported]]
        /\ exec' = [exec EXCEPT ![w].at = "calling"]
        /\ exec[w] # NoExec
        /\ UNCHANGED <<segments, billed, today>>
    BY <1>2 DEF Freeze, Open, Goto, At, schedulerVars
  <2>2. c \in CounterRow /\ target \in Nat /\ target <= c.count
    BY <1>1 DEF CounterInv, CounterRow, Segment, Boundary
  <2>3. \/ target = c.target
        \/ c.target <= c.reported /\ billed[m] = c.reported
    BY <1>1, <1>2 DEF CounterInv, CounterRow, Segment, Boundary
  <2>4. <<m, target>> \notin segments => billed[m] = c.reported
    BY <1>1, <1>2, <2>2, <2>3 DEF CounterInv, CounterRow, Boundary
  <2>5. ExecInv'
    BY <2>1 DEF MeteringInv, ExecInv, Actor
  <2>6. counter'[m] = [c EXCEPT !.target = target] /\ \A k \in Month \ {m} : counter'[k] = counter[k]
    BY <1>1, <2>1 DEF MeteringInv, Counters
  <2>7. CounterInv(m)'
    <3>1. Boundary([c EXCEPT !.target = target]) = target
      BY <1>2, <2>2 DEF Boundary, CounterRow
    <3>2. billed[m] \in {c.reported, target}
      BY <1>1, <1>2, <2>2, <2>3 DEF CounterInv, CounterRow, Boundary
    <3> QED
      BY <1>1, <2>1, <2>2, <2>6, <3>1, <3>2 DEF CounterInv, CounterRow
  <2>8. Counters'
    <3>1. ASSUME NEW k \in Month \ {m} PROVE CounterInv(k)'
      BY <2>1, <2>6 DEF MeteringInv, Counters, CounterInv
    <3> QED
      BY <2>1, <2>7, <3>1 DEF MeteringInv, Counters
  <2>9. ASSUME NEW v \in Worker, Asking(v)' PROVE AskInv(v)'
    <3>1. CASE v = w
      <4>1. /\ tx'[v] = [locks |-> {}, month |-> m, target |-> target, quantity |-> target - c.reported]
            /\ exec'[v].at = "calling"
        BY <2>1, <3>1 DEF MeteringInv, ExecInv, Actor
      <4>2. target - c.reported \in Nat /\ c.reported + (target - c.reported) = target
        BY <1>2, <2>2 DEF CounterRow
      <4> QED
        BY <1>1, <1>2, <2>1, <2>2, <2>4, <2>6, <4>1, <4>2 DEF AskInv, At, CounterRow
    <3>2. CASE v # w
      <4>1. tx'[v] = tx[v] /\ exec'[v] = exec[v] /\ AskInv(v)
        BY <2>1, <2>9, <3>2 DEF MeteringInv, ExecInv, Actor, Asking, At
      <4>2. tx[v].month = m /\ <<m, tx[v].target>> \notin segments => target = c.target
        BY <2>2, <2>3, <4>1 DEF AskInv, CounterRow
      <4> QED
        BY <2>1, <2>6, <4>1, <4>2, <2>2 DEF AskInv, At, CounterRow
    <3> QED
      BY <3>1, <3>2
  <2> QED
    BY <2>5, <2>8, <2>9 DEF MeteringInv
<1>3. CASE ~(target > c.reported)
  <2>1. /\ counter' = [counter EXCEPT ![m].target = Boundary(c)]
        /\ exec' = [exec EXCEPT ![w].at = "done"]
        /\ exec[w] # NoExec
        /\ UNCHANGED <<segments, billed, today, tx>>
    BY <1>3 DEF Freeze, Goto, At, schedulerVars
  <2>2. c \in CounterRow /\ Boundary(c) \in Nat /\ c.target <= c.reported
    BY <1>1, <1>3 DEF CounterInv, CounterRow, Segment, Boundary
  <2>3. ExecInv'
    BY <2>1 DEF MeteringInv, ExecInv
  <2>4. counter'[m] = [c EXCEPT !.target = Boundary(c)] /\ \A k \in Month \ {m} : counter'[k] = counter[k]
    BY <1>1, <2>1 DEF MeteringInv, Counters
  <2>5. CounterInv(m)'
    <3>1. Boundary([c EXCEPT !.target = Boundary(c)]) = Boundary(c)
      BY <2>2 DEF Boundary, CounterRow
    <3> QED
      BY <1>1, <2>1, <2>2, <2>4, <3>1 DEF CounterInv, CounterRow
  <2>6. Counters'
    <3>1. ASSUME NEW k \in Month \ {m} PROVE CounterInv(k)'
      BY <2>1, <2>4 DEF MeteringInv, Counters, CounterInv
    <3> QED
      BY <2>1, <2>5, <3>1 DEF MeteringInv, Counters
  <2>7. ASSUME NEW v \in Worker, Asking(v)' PROVE AskInv(v)'
    <3>1. v # w /\ exec'[v] = exec[v] /\ AskInv(v)
      BY <2>1, <2>7 DEF MeteringInv, ExecInv, Asking, At
    <3>2. tx[v].month = m => <<m, tx[v].target>> \in segments
      BY <2>2, <3>1 DEF AskInv, CounterRow
    <3> QED
      BY <2>1, <2>4, <3>1, <3>2 DEF AskInv, At
  <2> QED
    BY <2>3, <2>6, <2>7 DEF MeteringInv
<1> QED
  BY <1>2, <1>3

\* The provider takes what a run asks for.
LEMMA TakenStep ==
    ASSUME MeteringInv, NEW w \in Worker, Asking(w), Taken(tx[w]), UNCHANGED counter
    PROVE  /\ Counters'
           /\ <<tx[w].month, tx[w].target>> \in segments'
           /\ \A v \in Worker : Asking(v) =>
                LET s == <<tx[v].month, tx[v].target>> IN
                /\ s \in segments => s \in segments'
                /\ s \notin segments' => billed'[tx[v].month] = billed[tx[v].month]
<1> DEFINE q == tx[w]
           m == q.month
<1>1. AskInv(w) /\ m \in Month /\ CounterInv(m)
  BY DEF MeteringInv, AskInv, Counters
<1>2. CASE <<m, q.target>> \in segments
  BY <1>2 DEF Taken, MeteringInv, Counters, CounterInv
<1>3. CASE <<m, q.target>> \notin segments
  <2>1. /\ segments' = segments \cup {<<m, q.target>>}
        /\ billed' = [billed EXCEPT ![m] = @ + q.quantity]
    BY <1>3 DEF Taken
  <2>2. /\ billed'[m] = q.target /\ \A k \in Month \ {m} : billed'[k] = billed[k]
        /\ q.target = counter[m].target /\ counter[m].reported < q.target
        /\ q.target \in Nat
    BY <1>1, <1>3, <2>1 DEF AskInv, MeteringInv, Counters
  <2>3. ASSUME NEW k \in Month, k = m PROVE CounterInv(k)'
    <3>1. counter[k] \in CounterRow /\ Boundary(counter[k]) = q.target
      BY <1>1, <2>2, <2>3 DEF CounterInv, CounterRow, Boundary
    <3>2. billed[k] <= q.target
      BY <1>1, <2>2, <2>3, <3>1 DEF CounterInv, CounterRow
    <3>3. ASSUME NEW n \in Nat, <<k, n>> \in segments' PROVE n <= q.target
      <4>1. CASE <<k, n>> \in segments
        BY <1>1, <2>2, <2>3, <3>2, <4>1 DEF CounterInv
      <4>2. CASE <<k, n>> = <<m, q.target>>
        BY <2>2, <4>2
      <4> QED
        BY <2>1, <3>3, <4>1, <4>2
    <3>4. counter'[k] = counter[k] /\ billed'[k] = q.target /\ <<k, q.target>> \in segments'
      BY <2>1, <2>2, <2>3
    <3> QED
      BY <1>1, <2>2, <2>3, <3>1, <3>3, <3>4 DEF CounterInv, Boundary
  <2>4. ASSUME NEW k \in Month, k # m PROVE CounterInv(k)'
    BY <2>1, <2>2, <2>4 DEF MeteringInv, Counters, CounterInv
  <2>5. ASSUME NEW v \in Worker, Asking(v), tx[v].month = m, <<m, tx[v].target>> \notin segments
        PROVE  tx[v].target = q.target
    BY <2>2, <2>5 DEF MeteringInv, AskInv
  <2>6. ASSUME NEW v \in Worker, Asking(v) PROVE tx[v].month \in Month
    BY <2>6 DEF MeteringInv, AskInv
  <2>7. Counters'
    BY <2>1, <2>3, <2>4 DEF MeteringInv, Counters
  <2> HIDE DEF q, m
  <2>8. ASSUME NEW v \in Worker, Asking(v), <<tx[v].month, tx[v].target>> \notin segments'
        PROVE  billed'[tx[v].month] = billed[tx[v].month]
    BY <2>1, <2>2, <2>5, <2>6, <2>8
  <2> QED
    BY <2>1, <2>7, <2>8 DEF q, m
<1> QED
  BY <1>2, <1>3

LEMMA CallStep ==
    ASSUME MeteringInv, NEW w \in Worker, CallProvider(w)
    PROVE  MeteringInv'
<1>1. /\ Asking(w) /\ exec[w] # NoExec
      /\ UNCHANGED <<counter, today>>
  BY DEF CallProvider, Asking, At, schedulerVars
<1>2. CASE Taken(tx[w]) /\ Goto(w, "answered") /\ UNCHANGED tx
  <2>1. ExecInv'
    BY <1>1, <1>2 DEF MeteringInv, ExecInv, Goto
  <2>2. ASSUME NEW v \in Worker, Asking(v)' PROVE AskInv(v)'
    <3>1. Asking(v) /\ AskInv(v) /\ (v # w => exec'[v] = exec[v])
      BY <1>1, <1>2, <2>2 DEF MeteringInv, ExecInv, Goto, Asking, At
    <3> QED
      BY <1>1, <1>2, <3>1, TakenStep DEF AskInv, At
  <2> QED
    BY <1>1, <1>2, <2>1, <2>2, TakenStep DEF MeteringInv
<1>3. CASE (Taken(tx[w]) \/ UNCHANGED <<segments, billed>>) /\ Goto(w, "done") /\ Close(w)
  <2>1. ExecInv'
    BY <1>1, <1>3 DEF MeteringInv, ExecInv, Goto, Close, Actor
  <2>2. Counters'
    BY <1>1, <1>3, TakenStep DEF MeteringInv, Counters, CounterInv
  <2>3. ASSUME NEW v \in Worker, Asking(v)' PROVE AskInv(v)'
    <3>1. Asking(v) /\ AskInv(v) /\ exec'[v] = exec[v] /\ tx'[v] = tx[v]
      BY <1>1, <1>3, <2>3 DEF MeteringInv, ExecInv, Goto, Close, Actor, Asking, At
    <3>2. CASE Taken(tx[w])
      BY <1>1, <3>1, <3>2, TakenStep DEF AskInv, At
    <3>3. CASE UNCHANGED <<segments, billed>>
      BY <1>1, <3>1, <3>3 DEF AskInv, At
    <3> QED
      BY <1>3, <3>2, <3>3
  <2> QED
    BY <2>1, <2>2, <2>3 DEF MeteringInv
<1> QED
  BY <1>2, <1>3 DEF CallProvider

LEMMA AcknowledgeStep ==
    ASSUME MeteringInv, NEW w \in Worker, Acknowledge(w)
    PROVE  MeteringInv'
<1> DEFINE q == tx[w]
           m == q.month
           c == counter[m]
<1>1. /\ At(w, "answered") /\ exec[w] # NoExec /\ Goto(w, "done") /\ Close(w)
      /\ UNCHANGED <<segments, billed, today>>
      /\ counter' = IF Current(c, q) THEN [counter EXCEPT ![m].reported = q.target] ELSE counter
  BY DEF Acknowledge, At, schedulerVars
<1>2. /\ m \in Month /\ CounterInv(m) /\ q.target \in Nat
      /\ <<m, q.target>> \in segments
  BY <1>1 DEF MeteringInv, Counters, AskInv, Asking
<1>3. ExecInv'
  BY <1>1 DEF MeteringInv, ExecInv, Goto, Close, Actor
<1>4. ASSUME NEW v \in Worker, Asking(v)'
      PROVE  Asking(v) /\ AskInv(v) /\ exec'[v] = exec[v] /\ tx'[v] = tx[v]
  BY <1>1, <1>4 DEF MeteringInv, ExecInv, Goto, Close, Actor, Asking, At
<1>5. CASE ~Current(c, q)
  <2>1. counter' = counter
    BY <1>1, <1>5
  <2>2. Counters'
    BY <1>1, <2>1 DEF MeteringInv, Counters, CounterInv
  <2>3. ASSUME NEW v \in Worker, Asking(v)' PROVE AskInv(v)'
    BY <1>1, <1>4, <2>1, <2>3 DEF AskInv, At
  <2> QED
    BY <1>3, <2>2, <2>3 DEF MeteringInv
<1>6. CASE Current(c, q)
  <2>1. /\ counter'[m] = [c EXCEPT !.reported = q.target]
        /\ \A k \in Month \ {m} : counter'[k] = counter[k]
        /\ counter' = [k \in Month |-> counter'[k]]
    BY <1>1, <1>2, <1>6 DEF MeteringInv, Counters
  <2>2. c.target = q.target /\ c.reported < q.target /\ billed[m] = q.target
    BY <1>2, <1>6 DEF Current, CounterInv, CounterRow, Boundary
  <2>3. ASSUME NEW k \in Month, k = m PROVE CounterInv(k)'
    <3>1. /\ counter'[k] = [counter[k] EXCEPT !.reported = q.target]
          /\ counter[k].target = q.target /\ billed[k] = q.target
      BY <2>1, <2>2, <2>3
    <3>2. Boundary(counter[k]) = q.target /\ Boundary(counter'[k]) = q.target
      BY <1>2, <2>2, <2>3, <3>1 DEF CounterInv, CounterRow, Boundary
    <3> QED
      BY <1>1, <1>2, <2>3, <3>1, <3>2 DEF CounterInv, CounterRow, Boundary
  <2>4. Counters'
    <3>1. ASSUME NEW k \in Month, k # m PROVE CounterInv(k)'
      BY <1>1, <2>1, <3>1 DEF MeteringInv, Counters, CounterInv
    <3> QED
      BY <1>1, <2>1, <2>3, <3>1 DEF MeteringInv, Counters
  <2>5. ASSUME NEW v \in Worker, Asking(v)' PROVE AskInv(v)'
    <3>1. tx[v].month = m => <<m, tx[v].target>> \in segments
      BY <1>2, <1>4, <2>2, <2>5 DEF AskInv
    <3>2. AskInv(v) /\ exec'[v] = exec[v] /\ tx'[v] = tx[v] /\ UNCHANGED <<segments, billed>>
      BY <1>1, <1>4, <2>5
    <3>3. CASE tx[v].month = m
      BY <3>1, <3>2, <3>3 DEF AskInv, At
    <3>4. CASE tx[v].month # m
      <4>1. counter'[tx[v].month] = counter[tx[v].month]
        BY <2>1, <3>2, <3>4 DEF AskInv
      <4> QED
        BY <3>2, <4>1 DEF AskInv, At
    <3> QED
      BY <3>3, <3>4
  <2> QED
    BY <1>3, <2>4, <2>5 DEF MeteringInv
<1> QED
  BY <1>5, <1>6

LEMMA MeteringInvStep ==
    ASSUME MeteringInv, [UsageNext]_<<workerVars, schedulerVars, meteringVars>>
    PROVE  MeteringInv'
<1>1. CASE Use
  BY <1>1, UseStep
<1>2. ASSUME NEW w \in Worker, Freeze(w) \/ CallProvider(w) \/ Acknowledge(w) PROVE MeteringInv'
  BY <1>2, FreezeStep, CallStep, AcknowledgeStep
<1>3. CASE SchedulerNext(UsageKinds) /\ UNCHANGED meteringVars
  BY <1>3, SchedulerSteps, SteadyStep DEF MeteringInv
<1>4. CASE UNCHANGED <<workerVars, schedulerVars, meteringVars>>
  BY <1>4, SteadyStep DEF workerVars, schedulerVars, Steady, MeteringInv, ExecInv
<1> QED
  BY <1>1, <1>2, <1>3, <1>4 DEF UsageNext

----------------------------------------------------------------------------
(* Billing as a whole. *)

----------------------------------------------------------------------------
(* The inductive invariant.                                                *)

\* A tenant with a token has a due date.
OrgInv == org \in OrgRow /\ (org.token => org.next # 0)

\* What was charged had been claimed.
ChargeInv ==
    /\ charged \in Seq(Nat)
    /\ \A i \in DOMAIN charged : <<"mit", charged[i]>> \in ledger
    /\ \A i, k \in DOMAIN charged : charged[i] = charged[k] => i = k

\* A handler that asks the provider holds a claim, and has charged nothing yet.
CallInv(w) ==
    LET o == tx[w].seen IN
    /\ o \in OrgRow /\ o.next # 0
    /\ <<"mit", o.next>> \in ledger
    /\ At(w, "calling") => \A i \in DOMAIN charged : charged[i] # o.next

Calling(w) == At(w, "calling") \/ At(w, "answered")

CallsInv ==
    /\ \A w \in Worker : Calling(w) => CallInv(w)
    /\ \A v, w \in Worker :
         At(v, "calling") /\ At(w, "calling") /\ tx[v].seen.next = tx[w].seen.next => v = w

\* A payment is applied with its ledger row, and settled with it.
PaymentInv(r) ==
    /\ applied[r] \in {0, 1}
    /\ applied[r] = 1 <=> <<"hosted", r>> \in ledger
    /\ applied[r] = 1 <=> payment[r] = "settled"
    /\ applied[r] = 1 => bank[r] = "settled"
    /\ bank[r] \in {"none", "open", "settled", "failed"}
    /\ bank[r] = "none" <=> payment[r] = "absent"

\* What the provider said of a payment is final, and a tenant that had a date of
\* its next charge when it was loaded has one now.
VerifyInv(c) ==
    /\ tx[c].pays \in Payment
    /\ tx[c].state = bank[tx[c].pays] /\ tx[c].state \in {"settled", "failed"}
    /\ tx[c].seen.next # 0 => org.next # 0

HostedInv ==
    /\ payment = [r \in Payment |-> payment[r]]
    /\ bank = [r \in Payment |-> bank[r]]
    /\ applied = [r \in Payment |-> applied[r]]
    /\ \A r \in Payment : PaymentInv(r)
    /\ \A c \in Client : tx[c] # NoTx => VerifyInv(c)

RenewalsInv == ExecInv /\ OrgInv /\ ChargeInv /\ CallsInv /\ HostedInv

LEMMA RenewalsInvImplies == RenewalsInv => ChargedOnce
<1> SUFFICES ASSUME RenewalsInv PROVE ChargedOnce
  OBVIOUS
<1>1. org \in OrgRow /\ \A i, k \in DOMAIN charged : charged[i] = charged[k] => i = k
  BY DEF RenewalsInv, OrgInv, ChargeInv
<1>2. ASSUME NEW r \in Payment
      PROVE  /\ applied[r] <= 1
             /\ (payment[r] = "settled") <=> (applied[r] = 1)
             /\ applied[r] = 1 => bank[r] = "settled"
  <2>1. PaymentInv(r)
    BY DEF RenewalsInv, HostedInv
  <2> QED
    BY <2>1 DEF PaymentInv
<1> QED
  BY <1>1, <1>2 DEF ChargedOnce

LEMMA RenewalsInvInit == LoopInit /\ RenewalsInit => RenewalsInv
<1> SUFFICES ASSUME LoopInit, RenewalsInit PROVE RenewalsInv
  OBVIOUS
<1>1. ExecInv /\ (\A w \in Worker : ~Calling(w)) /\ (\A c \in Client : tx[c] = NoTx)
  BY ExecInit DEF LoopInit, WorkerInit, Calling, At, Actor
<1>2. OrgInv
  <2>1. CASE org = [status |-> "active", plan |-> "paid", token |-> TRUE, next |-> 1]
    <3>1. org.token = TRUE /\ org.next = 1 /\ org \in OrgRow
      BY <2>1 DEF OrgRow
    <3> QED
      BY <3>1 DEF OrgInv
  <2>2. CASE org = [status |-> "active", plan |-> "free", token |-> FALSE, next |-> 0]
    <3>1. org.token = FALSE /\ org \in OrgRow
      BY <2>2 DEF OrgRow
    <3> QED
      BY <3>1 DEF OrgInv
  <2> QED
    BY <2>1, <2>2 DEF RenewalsInit
<1>3. ChargeInv
  BY DEF RenewalsInit, ChargeInv
<1>4. CallsInv
  BY <1>1 DEF CallsInv, Calling
<1>5. HostedInv
  BY <1>1 DEF RenewalsInit, HostedInv, PaymentInv
<1> QED
  BY <1>1, <1>2, <1>3, <1>4, <1>5 DEF RenewalsInv

----------------------------------------------------------------------------
(* Steps of the loop, the machines and the days.                           *)

LEMMA HostedSteadyStep ==
    ASSUME RenewalsInv, Steady, UNCHANGED renewalVars
    PROVE  RenewalsInv'
<1>1. ExecInv'
  BY SteadyExec
<1>2. OrgInv' /\ ChargeInv'
  BY DEF RenewalsInv, OrgInv, ChargeInv, renewalVars
<1>3. ASSUME NEW w \in Worker, Calling(w)' PROVE Calling(w) /\ exec'[w] = exec[w] /\ tx'[w] = tx[w]
  BY <1>3 DEF Calling, At, Steady
<1>4. CallsInv'
  <2>1. ASSUME NEW w \in Worker, Calling(w)' PROVE CallInv(w)'
    BY <1>3, <2>1 DEF RenewalsInv, CallsInv, CallInv, At, renewalVars
  <2>2. ASSUME NEW v \in Worker, NEW w \in Worker, At(v, "calling")', At(w, "calling")',
               tx'[v].seen.next = tx'[w].seen.next
        PROVE  v = w
    BY <1>3, <2>2 DEF RenewalsInv, CallsInv, Calling, At
  <2> QED
    BY <2>1, <2>2 DEF CallsInv
<1>5. HostedInv'
  BY DEF RenewalsInv, HostedInv, PaymentInv, VerifyInv, renewalVars, Steady
<1> QED
  BY <1>1, <1>2, <1>4, <1>5 DEF RenewalsInv

----------------------------------------------------------------------------
(* The renewal job.                                                        *)

\* A step of worker w's handler: the other executions and all requests stay.
Moves(w) ==
    /\ exec[w] # NoExec
    /\ tx' = [tx EXCEPT ![w] = tx'[w]]
    /\ \E at : exec' = [exec EXCEPT ![w].at = at]
    /\ UNCHANGED today

LEMMA MovesExec ==
    ASSUME RenewalsInv, NEW w \in Worker, Moves(w)
    PROVE  /\ ExecInv'
           /\ \A v \in Worker \ {w} : exec'[v] = exec[v] /\ tx'[v] = tx[v]
           /\ \A c \in Client : tx'[c] = tx[c]
BY ActorAssumption DEF RenewalsInv, ExecInv, Moves, Actor

LEMMA HostedStays ==
    ASSUME RenewalsInv, UNCHANGED <<payment, bank, applied>>,
           org.next # 0 => org'.next # 0,
           \A c \in Client : tx'[c] = tx[c],
           \A r \in Payment : <<"hosted", r>> \in ledger' <=> <<"hosted", r>> \in ledger
    PROVE  HostedInv'
BY DEF RenewalsInv, HostedInv, PaymentInv, VerifyInv

\* The calls after a step of worker w's handler that charges nothing.
LEMMA OtherCalls ==
    ASSUME RenewalsInv, NEW w \in Worker, Moves(w), ledger \subseteq ledger', UNCHANGED charged,
           Calling(w)' => CallInv(w)',
           At(w, "calling")' =>
             \A v \in Worker : At(v, "calling") /\ v # w => tx[v].seen.next # tx'[w].seen.next
    PROVE  CallsInv'
<1>1. ASSUME NEW v \in Worker \ {w}, Calling(v)' PROVE CallInv(v)'
  BY <1>1, MovesExec DEF RenewalsInv, CallsInv, CallInv, Calling, At
<1>2. ASSUME NEW v \in Worker, NEW u \in Worker, At(v, "calling")', At(u, "calling")',
             tx'[v].seen.next = tx'[u].seen.next
      PROVE  v = u
  BY <1>2, MovesExec DEF RenewalsInv, CallsInv, At
<1> QED
  BY <1>1, <1>2 DEF CallsInv

LEMMA ClaimStep ==
    ASSUME RenewalsInv, NEW w \in Worker, Claim(w)
    PROVE  RenewalsInv'
<1> DEFINE claim == <<"mit", Period(org)>>
<1>1. UNCHANGED <<today, org, charged, payment, bank, applied>> /\ exec[w] # NoExec
  BY DEF Claim, Idle, schedulerVars, At
<1>2. CASE Chargeable /\ claim \notin ledger
  <2>1. /\ tx' = [tx EXCEPT ![w] = [locks |-> {}, seen |-> org]]
        /\ exec' = [exec EXCEPT ![w].at = "calling"]
        /\ ledger' = ledger \cup {claim}
    BY <1>2 DEF Claim, Open, Goto
  <2>2. w \in Actor /\ w \in DOMAIN tx
    BY DEF RenewalsInv, ExecInv, Actor
  <2>3. Moves(w) /\ tx'[w].seen = org
    BY <1>1, <2>1, <2>2 DEF Moves
  <2>4. org \in OrgRow /\ org.next # 0 /\ claim = <<"mit", org.next>>
    BY <1>2 DEF RenewalsInv, OrgInv, Chargeable, Period
  <2>5. CallInv(w)'
    BY <1>1, <1>2, <2>1, <2>3, <2>4 DEF CallInv, RenewalsInv, ChargeInv
  <2>6. ASSUME NEW v \in Worker, At(v, "calling"), v # w PROVE tx[v].seen.next # tx'[w].seen.next
    BY <1>2, <2>3, <2>4, <2>6 DEF RenewalsInv, CallsInv, CallInv, Calling
  <2>7. CallsInv'
    BY <1>1, <2>1, <2>3, <2>5, <2>6, OtherCalls
  <2>8. OrgInv' /\ ChargeInv'
    BY <1>1, <2>1 DEF RenewalsInv, OrgInv, ChargeInv
  <2>9. HostedInv'
    BY <1>1, <2>1, <2>3, MovesExec, HostedStays
  <2> QED
    BY <2>3, <2>7, <2>8, <2>9, MovesExec DEF RenewalsInv
<1>3. CASE ~(Chargeable /\ claim \notin ledger)
  <2>1. /\ exec' = [exec EXCEPT ![w].at = "done"]
        /\ UNCHANGED <<tx, ledger>>
    BY <1>3 DEF Claim, Goto
  <2>2. Moves(w)
    BY <1>1, <2>1 DEF Moves, RenewalsInv, ExecInv
  <2>3. ~Calling(w)'
    BY <1>1, <2>1 DEF Calling, At, RenewalsInv, ExecInv
  <2>4. CallsInv'
    BY <1>1, <2>1, <2>2, <2>3, OtherCalls DEF Calling
  <2>5. OrgInv' /\ ChargeInv'
    BY <1>1, <2>1 DEF RenewalsInv, OrgInv, ChargeInv
  <2>6. HostedInv'
    BY <1>1, <2>1, HostedStays
  <2> QED
    BY <2>2, <2>4, <2>5, <2>6, MovesExec DEF RenewalsInv
<1> QED
  BY <1>2, <1>3

\* The provider charges the card for worker w: the claim is spent.
LEMMA ChargedStep ==
    ASSUME RenewalsInv, NEW w \in Worker, At(w, "calling"), Charged(tx[w].seen), UNCHANGED ledger
    PROVE  /\ ChargeInv'
           /\ \A v \in Worker \ {w} : At(v, "calling") =>
                \A i \in DOMAIN charged' : charged'[i] # tx[v].seen.next
<1> DEFINE due == tx[w].seen.next
<1>1. /\ due \in Nat /\ <<"mit", due>> \in ledger
      /\ \A i \in DOMAIN charged : charged[i] # due
  BY DEF RenewalsInv, CallsInv, CallInv, Calling, OrgRow
<1>2. charged \in Seq(Nat) /\ charged' = Append(charged, due)
  BY DEF RenewalsInv, ChargeInv, Charged
<1> HIDE DEF due
<1>3. /\ charged' \in Seq(Nat) /\ DOMAIN charged' = 1 .. Len(charged) + 1
      /\ DOMAIN charged = 1 .. Len(charged) /\ Len(charged) \in Nat
      /\ \A i \in DOMAIN charged : charged'[i] = charged[i]
      /\ charged'[Len(charged) + 1] = due
  BY <1>1, <1>2
<1>4. \A i \in DOMAIN charged' : i \in DOMAIN charged \/ i = Len(charged) + 1
  BY <1>3
<1>5. ChargeInv'
  BY <1>1, <1>3, <1>4 DEF RenewalsInv, ChargeInv
<1>6. ASSUME NEW v \in Worker \ {w}, At(v, "calling"), NEW i \in DOMAIN charged'
      PROVE  charged'[i] # tx[v].seen.next
  <2>1. tx[v].seen.next # due /\ \A k \in DOMAIN charged : charged[k] # tx[v].seen.next
    BY <1>6 DEF RenewalsInv, CallsInv, CallInv, Calling, due
  <2> QED
    BY <1>3, <1>4, <2>1
<1> QED
  BY <1>5, <1>6

\* The calls after the step that follows the provider's work for worker w.
LEMMA CallsAfterCharge ==
    ASSUME RenewalsInv, NEW w \in Worker, At(w, "calling"), UNCHANGED ledger,
           Charged(tx[w].seen) \/ UNCHANGED charged,
           \A v \in Worker \ {w} : Calling(v)' => exec'[v] = exec[v] /\ tx'[v] = tx[v],
           ~At(w, "calling")',
           At(w, "answered")' => tx'[w].seen = tx[w].seen
    PROVE  CallsInv'
<1>1. ASSUME NEW v \in Worker, Calling(v)' PROVE CallInv(v)'
  <2>1. CASE v = w
    BY <1>1, <2>1 DEF RenewalsInv, CallsInv, CallInv, Calling
  <2>2. CASE v # w
    <3>1. CallInv(v) /\ exec'[v] = exec[v] /\ tx'[v] = tx[v]
      BY <1>1, <2>2 DEF RenewalsInv, CallsInv, Calling, At
    <3>2. At(v, "calling") => \A i \in DOMAIN charged' : charged'[i] # tx[v].seen.next
      BY <2>2, <3>1, ChargedStep DEF CallInv
    <3> QED
      BY <3>1, <3>2 DEF CallInv, At
  <2> QED
    BY <2>1, <2>2
<1>2. ASSUME NEW v \in Worker, NEW u \in Worker, At(v, "calling")', At(u, "calling")',
             tx'[v].seen.next = tx'[u].seen.next
      PROVE  v = u
  BY <1>2 DEF RenewalsInv, CallsInv, Calling, At
<1> QED
  BY <1>1, <1>2 DEF CallsInv

LEMMA ChargeStep ==
    ASSUME RenewalsInv, NEW w \in Worker, Charge(w)
    PROVE  RenewalsInv'
<1>1. /\ At(w, "calling") /\ exec[w] # NoExec
      /\ Charged(tx[w].seen) \/ UNCHANGED charged
      /\ exec' = [exec EXCEPT ![w].at = "answered"]
      /\ UNCHANGED <<today, org, ledger, payment, bank, applied>>
  BY DEF Charge, Goto, Idle, schedulerVars, At
<1>2. PICK result : tx' = [tx EXCEPT ![w] = [locks |-> {}, seen |-> @.seen, result |-> result]]
  BY DEF Charge
<1>3. w \in Actor /\ w \in DOMAIN tx
  BY DEF RenewalsInv, ExecInv, Actor
<1>4. Moves(w) /\ tx'[w].seen = tx[w].seen
  BY <1>1, <1>2, <1>3 DEF Moves
<1>5. exec'[w].at = "answered"
  BY <1>1 DEF RenewalsInv, ExecInv
<1>6. CallsInv'
  BY <1>1, <1>4, <1>5, MovesExec, CallsAfterCharge DEF At
<1>7. ChargeInv'
  BY <1>1, ChargedStep DEF RenewalsInv, ChargeInv
<1>8. OrgInv' /\ HostedInv'
  BY <1>1, <1>4, MovesExec, HostedStays DEF RenewalsInv, OrgInv
<1> QED
  BY <1>4, <1>6, <1>7, <1>8, MovesExec DEF RenewalsInv

LEMMA LoseAnswerStep ==
    ASSUME RenewalsInv, NEW w \in Worker, LoseAnswer(w)
    PROVE  RenewalsInv'
<1>1. /\ At(w, "calling") /\ Stop(w)
      /\ Charged(tx[w].seen) \/ UNCHANGED charged
      /\ UNCHANGED <<today, org, ledger, payment, bank, applied>>
  BY DEF LoseAnswer, Raise, schedulerVars
<1>2. Steady
  BY <1>1, StopSteady DEF RenewalsInv
<1>3. exec'[w] = NoExec
  BY <1>1 DEF Stop, RenewalsInv, ExecInv
<1>4. CallsInv'
  BY <1>1, <1>2, <1>3, CallsAfterCharge DEF Calling, At, Steady
<1>5. ChargeInv'
  BY <1>1, ChargedStep DEF RenewalsInv, ChargeInv
<1>6. OrgInv' /\ HostedInv'
  BY <1>1, <1>2, HostedStays DEF RenewalsInv, OrgInv, Steady
<1> QED
  BY <1>2, <1>4, <1>5, <1>6, SteadyExec DEF RenewalsInv

LEMMA SettleStep ==
    ASSUME RenewalsInv, NEW w \in Worker, Settle(w)
    PROVE  RenewalsInv'
<1> DEFINE q == tx[w]
           status == IF q.result = "settled" THEN "active" ELSE "suspended"
<1>1. /\ At(w, "answered") /\ exec[w] # NoExec
      /\ org' = [org EXCEPT
                   !.status = IF status = q.seen.status THEN @ ELSE status,
                   !.next = IF q.result = "settled" THEN q.seen.next + Length ELSE @]
      /\ exec' = [exec EXCEPT ![w].at = "done"] /\ tx' = [tx EXCEPT ![w] = NoTx]
      /\ UNCHANGED <<today, ledger, charged, payment, bank, applied>>
  BY DEF Settle, Goto, Close, Idle, schedulerVars, At
<1>2. w \in Actor /\ w \in DOMAIN tx
  BY DEF RenewalsInv, ExecInv, Actor
<1>3. Moves(w) /\ ~Calling(w)'
  <2>1. tx'[w] = NoTx /\ exec'[w].at = "done"
    BY <1>1, <1>2 DEF RenewalsInv, ExecInv
  <2>2. Moves(w)
    BY <1>1, <2>1 DEF Moves
  <2>3. ~Calling(w)'
    BY <2>1 DEF Calling, At
  <2> QED
    BY <2>2, <2>3
<1>4. OrgInv' /\ (org.next # 0 => org'.next # 0)
  <2>1. q.seen.next \in Nat /\ q.seen.next # 0 /\ Length \in Nat
    BY <1>1, RenewalsAssumption DEF RenewalsInv, CallsInv, CallInv, Calling, OrgRow
  <2> DEFINE s == IF status = q.seen.status THEN org.status ELSE status
             n == IF q.result = "settled" THEN q.seen.next + Length ELSE org.next
  <2>o. org \in OrgRow
    BY DEF RenewalsInv, OrgInv
  <2>s. s \in {"active", "suspended"} /\ n \in Nat
    BY <2>1, <2>o DEF OrgRow
  <2>e. org' = [status |-> s, plan |-> org.plan, token |-> org.token, next |-> n]
    BY <1>1, <2>o DEF OrgRow
  <2>2. org' \in OrgRow /\ org'.token = org.token
    <3> HIDE DEF s, n
    <3> QED
      BY <2>o, <2>s, <2>e DEF OrgRow
  <2>3. org'.next = org.next \/ (org'.next = q.seen.next + Length /\ q.seen.next + Length # 0)
    BY <2>e, <2>1
  <2>4. OrgInv'
    BY <2>2, <2>3 DEF OrgInv, RenewalsInv
  <2> QED
    BY <2>3, <2>4
<1>5. CallsInv'
  BY <1>1, <1>3, OtherCalls DEF Calling
<1>6. ChargeInv' /\ HostedInv'
  BY <1>1, <1>3, <1>4, MovesExec, HostedStays DEF RenewalsInv, ChargeInv
<1> QED
  BY <1>3, <1>4, <1>5, <1>6, MovesExec DEF RenewalsInv

----------------------------------------------------------------------------
(* Requests.                                                               *)

\* A request leaves the executions and the transactions of the workers alone.
LEMMA RequestStep ==
    ASSUME RenewalsInv, Request, tx' = [a \in Actor |-> tx'[a]],
           \A w \in Worker : tx'[w] = tx[w], ledger \subseteq ledger', UNCHANGED charged
    PROVE  ExecInv' /\ ChargeInv' /\ CallsInv'
<1>1. UNCHANGED <<exec, today>>
  BY DEF Request, schedulerVars
<1>2. ExecInv'
  BY <1>1 DEF RenewalsInv, ExecInv
<1>3. ChargeInv'
  BY DEF RenewalsInv, ChargeInv
<1>4. CallsInv'
  BY <1>1 DEF RenewalsInv, CallsInv, CallInv, Calling, At
<1> QED
  BY <1>2, <1>3, <1>4

\* The transaction of a client begins or ends: those of the others stay.
LEMMA ClientTx ==
    ASSUME RenewalsInv, NEW c \in Client, NEW STATE t, tx' = [tx EXCEPT ![c] = t]
    PROVE  /\ tx' = [a \in Actor |-> tx'[a]] /\ tx'[c] = t
           /\ \A w \in Worker : tx'[w] = tx[w]
           /\ \A d \in Client \ {c} : tx'[d] = tx[d]
BY ActorAssumption DEF RenewalsInv, ExecInv, Actor

LEMMA SameTx ==
    ASSUME RenewalsInv, UNCHANGED tx
    PROVE  tx' = [a \in Actor |-> tx'[a]]
BY DEF RenewalsInv, ExecInv

LEMMA PaymentStep ==
    ASSUME RenewalsInv, NEW r \in Payment, StartCheckout(r) \/ Pay(r)
    PROVE  RenewalsInv'
<1>1. Request /\ UNCHANGED <<tx, org, ledger, charged, applied>>
  BY DEF StartCheckout, Pay
<1>2. ExecInv' /\ ChargeInv' /\ CallsInv' /\ OrgInv'
  BY <1>1, SameTx, RequestStep DEF RenewalsInv, OrgInv
<1>3. CASE StartCheckout(r)
  <2>1. /\ payment[r] = "absent" /\ bank[r] = "none"
        /\ payment' = [payment EXCEPT ![r] = "initial"] /\ bank' = [bank EXCEPT ![r] = "open"]
    BY <1>3 DEF StartCheckout, RenewalsInv, HostedInv, PaymentInv
  <2>2. ASSUME NEW p \in Payment PROVE PaymentInv(p)'
    BY <1>1, <2>1 DEF RenewalsInv, HostedInv, PaymentInv
  <2>3. ASSUME NEW c \in Client, tx'[c] # NoTx PROVE VerifyInv(c)'
    BY <1>1, <2>1, <2>3 DEF RenewalsInv, HostedInv, VerifyInv
  <2> QED
    BY <1>1, <1>2, <2>1, <2>2, <2>3 DEF RenewalsInv, HostedInv
<1>4. CASE Pay(r)
  <2>1. PICK state \in {"settled", "failed"} : bank' = [bank EXCEPT ![r] = state]
    BY <1>4 DEF Pay
  <2>2. bank[r] = "open" /\ UNCHANGED payment
    BY <1>4 DEF Pay
  <2>3. ASSUME NEW p \in Payment PROVE PaymentInv(p)'
    BY <1>1, <2>1, <2>2 DEF RenewalsInv, HostedInv, PaymentInv
  <2>4. ASSUME NEW c \in Client, tx'[c] # NoTx PROVE VerifyInv(c)'
    BY <1>1, <2>1, <2>2, <2>4 DEF RenewalsInv, HostedInv, VerifyInv
  <2> QED
    BY <1>1, <1>2, <2>1, <2>2, <2>3, <2>4 DEF RenewalsInv, HostedInv
<1> QED
  BY <1>3, <1>4

LEMMA VerifyStep ==
    ASSUME RenewalsInv, NEW c \in Client, NEW r \in Payment, Verify(c, r)
    PROVE  RenewalsInv'
<1> DEFINE t == [locks |-> {}, pays |-> r, state |-> bank[r], seen |-> org]
<1>1. Request /\ tx' = [tx EXCEPT ![c] = t] /\ UNCHANGED renewalVars
  BY DEF Verify, Open
<1>2. ExecInv' /\ ChargeInv' /\ CallsInv' /\ OrgInv'
  BY <1>1, ClientTx, RequestStep DEF RenewalsInv, OrgInv, renewalVars
<1>3. bank[r] \in {"settled", "failed"}
  BY DEF Verify, RenewalsInv, HostedInv, PaymentInv
<1>4. HostedInv'
  <2>1. ASSUME NEW d \in Client, tx'[d] # NoTx PROVE VerifyInv(d)'
    <3>1. CASE d = c
      <4>0. c \in DOMAIN tx
        BY DEF RenewalsInv, ExecInv, Actor
      <4>1. tx'[d] = t
        BY <1>1, <3>1, <4>0
      <4> QED
        BY <1>1, <1>3, <4>1 DEF VerifyInv, renewalVars
    <3>2. CASE d # c
      <4>1. tx'[d] = tx[d]
        BY <1>1, <3>2, ClientTx
      <4> QED
        BY <1>1, <2>1, <4>1 DEF RenewalsInv, HostedInv, VerifyInv, renewalVars
    <3> QED
      BY <3>1, <3>2
  <2> QED
    BY <1>1, <2>1 DEF RenewalsInv, HostedInv, PaymentInv, renewalVars
<1> QED
  BY <1>2, <1>4 DEF RenewalsInv

LEMMA DropStep ==
    ASSUME RenewalsInv, NEW c \in Client, Drop(c)
    PROVE  RenewalsInv'
<1>1. Request /\ tx' = [tx EXCEPT ![c] = NoTx] /\ UNCHANGED renewalVars
  BY DEF Drop, Close
<1>2. ExecInv' /\ ChargeInv' /\ CallsInv' /\ OrgInv'
  BY <1>1, ClientTx, RequestStep DEF RenewalsInv, OrgInv, renewalVars
<1>3. ASSUME NEW d \in Client, tx'[d] # NoTx PROVE tx'[d] = tx[d]
  BY <1>1, <1>3, ClientTx
<1>4. HostedInv'
  BY <1>1, <1>3 DEF RenewalsInv, HostedInv, PaymentInv, VerifyInv, renewalVars
<1> QED
  BY <1>2, <1>4 DEF RenewalsInv

LEMMA ConfirmStep ==
    ASSUME RenewalsInv, NEW c \in Client, Confirm(c)
    PROVE  RenewalsInv'
<1> DEFINE r == tx[c].pays
           applies == tx[c].state = "settled" /\ Unapplied(r)
<1>1. /\ VerifyInv(c) /\ Request /\ tx' = [tx EXCEPT ![c] = NoTx]
      /\ payment' = [payment EXCEPT ![r] = tx[c].state]
      /\ UNCHANGED <<bank, charged, today>>
  BY DEF Confirm, Close, Request, schedulerVars, RenewalsInv, HostedInv
<1>2. /\ ledger' = IF applies THEN ledger \cup {<<"hosted", r>>} ELSE ledger
      /\ applied' = IF applies THEN [applied EXCEPT ![r] = @ + 1] ELSE applied
  BY DEF Confirm
<1>3. OrgInv' /\ (org.next # 0 => org'.next # 0)
  <2>1. CASE applies
    <3> DEFINE seen == tx[c].seen
               status == IF seen.status = "active" THEN org.status ELSE "active"
               plan == IF seen.plan = "paid" THEN org.plan ELSE "paid"
               next == IF seen.next = today + Length THEN org.next ELSE today + Length
    <3>1. PICK token \in {org.token, TRUE} :
            org' = [status |-> status, plan |-> plan, token |-> token, next |-> next]
      BY <2>1 DEF Confirm
    <3>o. org \in OrgRow
      BY DEF RenewalsInv, OrgInv
    <3>2. token \in BOOLEAN /\ status \in {"active", "suspended"} /\ plan \in {"free", "paid"}
      BY <3>o DEF OrgRow
    <3>3. today \in 1 .. Days /\ Days \in Nat /\ Length \in Nat /\ Length > 0
      BY RenewalsAssumption, SchedulerAssumption DEF RenewalsInv, ExecInv
    <3>4. today + Length \in Nat /\ today + Length # 0
      BY <3>3
    <3>5. next \in Nat /\ next # 0
      BY <1>1, <3>4, <3>o DEF VerifyInv, OrgRow
    <3> HIDE DEF status, plan, next
    <3> QED
      BY <3>1, <3>2, <3>5 DEF OrgInv, OrgRow
  <2>2. CASE ~applies
    BY <2>2 DEF Confirm, RenewalsInv, OrgInv
  <2> QED
    BY <2>1, <2>2
<1>4. ExecInv' /\ ChargeInv' /\ CallsInv'
  BY <1>1, <1>2, ClientTx, RequestStep
<1>5. PaymentInv(r) /\ r \in Payment
  BY <1>1 DEF RenewalsInv, HostedInv, VerifyInv
<1>6. ASSUME NEW p \in Payment PROVE PaymentInv(p)'
  <2>1. CASE p = r
    <3>1. payment'[p] = tx[c].state /\ bank'[p] = tx[c].state /\ tx[c].state \in {"settled", "failed"}
      BY <1>1, <1>5, <2>1 DEF RenewalsInv, HostedInv, VerifyInv
    <3>2. CASE applies
      <4>1. applied[p] = 0 /\ applied'[p] = 1 /\ <<"hosted", p>> \in ledger'
        BY <1>2, <1>5, <2>1, <3>2 DEF PaymentInv, Unapplied, RenewalsInv, HostedInv
      <4> QED
        BY <3>1, <3>2, <4>1 DEF PaymentInv
    <3>3. CASE ~applies
      <4>1. UNCHANGED <<applied, ledger>>
        BY <1>2, <3>3
      <4>2. PaymentInv(p) /\ bank[p] = bank'[p]
        BY <1>1, <1>5, <2>1
      <4> QED
        BY <2>1, <3>1, <3>3, <4>1, <4>2 DEF PaymentInv, Unapplied
    <3> QED
      BY <3>2, <3>3
  <2>2. CASE p # r
    BY <1>1, <1>2, <2>2 DEF RenewalsInv, HostedInv, PaymentInv
  <2> QED
    BY <2>1, <2>2
<1>7. ASSUME NEW d \in Client, tx'[d] # NoTx PROVE VerifyInv(d)'
  <2>1. tx'[d] = tx[d]
    BY <1>1, <1>7, ClientTx
  <2> QED
    BY <1>1, <1>3, <1>7, <2>1 DEF RenewalsInv, HostedInv, VerifyInv
<1>8. HostedInv'
  <2>1. payment' = [p \in Payment |-> payment'[p]] /\ applied' = [p \in Payment |-> applied'[p]]
    BY <1>1, <1>2 DEF RenewalsInv, HostedInv
  <2> QED
    BY <1>1, <1>6, <1>7, <2>1 DEF RenewalsInv, HostedInv
<1> QED
  BY <1>3, <1>4, <1>8 DEF RenewalsInv

LEMMA DowngradeStep ==
    ASSUME RenewalsInv, Downgrade
    PROVE  RenewalsInv'
<1>1. /\ Request /\ org' = [org EXCEPT !.plan = "free"]
      /\ UNCHANGED <<tx, ledger, payment, bank, charged, applied>>
  BY DEF Downgrade
<1>2. ExecInv' /\ ChargeInv' /\ CallsInv'
  BY <1>1, SameTx, RequestStep
<1>3. OrgInv'
  BY <1>1 DEF RenewalsInv, OrgInv, OrgRow
<1>4. HostedInv'
  <2>1. org.next # 0 => org'.next # 0
    BY <1>1 DEF RenewalsInv, OrgInv, OrgRow
  <2> QED
    BY <1>1, <2>1, HostedStays
<1> QED
  BY <1>2, <1>3, <1>4 DEF RenewalsInv

LEMMA RenewalsInvStep ==
    ASSUME RenewalsInv, [RenewalsNext]_<<workerVars, schedulerVars, renewalVars>>
    PROVE  RenewalsInv'
<1>1. ASSUME NEW w \in Worker, Claim(w) \/ Charge(w) \/ LoseAnswer(w) \/ Settle(w)
      PROVE  RenewalsInv'
  BY <1>1, ClaimStep, ChargeStep, LoseAnswerStep, SettleStep
<1>2. ASSUME NEW r \in Payment, StartCheckout(r) \/ Pay(r) \/ \E c \in Client : Verify(c, r)
      PROVE  RenewalsInv'
  BY <1>2, PaymentStep, VerifyStep
<1>3. ASSUME NEW c \in Client, Confirm(c) \/ Drop(c) PROVE RenewalsInv'
  BY <1>3, ConfirmStep, DropStep
<1>4. CASE Downgrade
  BY <1>4, DowngradeStep
<1>5. CASE SchedulerNext(RenewalKinds) /\ UNCHANGED renewalVars
  BY <1>5, SchedulerSteps, HostedSteadyStep DEF RenewalsInv
<1>6. CASE UNCHANGED <<workerVars, schedulerVars, renewalVars>>
  BY <1>6, HostedSteadyStep DEF workerVars, schedulerVars, Steady, RenewalsInv, ExecInv
<1> QED
  BY <1>1, <1>2, <1>3, <1>4, <1>5, <1>6 DEF RenewalsNext

----------------------------------------------------------------------------
(* The inductive invariant of the subscriptions.                           *)

Arrived == {arrival[i] : i \in DOMAIN arrival}

\* An event of a subscription says its status; another one says nothing of the tenant.
EventRow ==
    {e \in [sub : Session \cup {Nothing}, plan : {"paid", Nothing}, checkout : Session \cup {Nothing},
            status : {"active", "suspended", "canceled", Nothing}] :
        /\ e.sub # Nothing => e.status # Nothing
        /\ e.sub = Nothing => e.status = Nothing /\ e.plan = Nothing}

\* The event was applied, or a newer one of its subscription is known.
Handled(n) ==
    \/ n \in processed
    \/ events[n].sub # Nothing /\ \E m \in Newer(n) : events[m].sub = events[n].sub

\* Who applies an event has seen no newer one of its subscription go through.
ApplyInv(w) ==
    LET q == tx[w] IN
    /\ q.event = exec[w].job[2]
    /\ q.seen \in TenantRow
    /\ q.through \subseteq Arrived
    /\ events[q.event].sub # Nothing =>
         \A m \in q.through : events[m].sub # events[q.event].sub

\* Of the events applied, the one of a subscription that came last to the queue.
Latest(n) ==
    /\ n \in processed
    /\ events[n].sub # Nothing
    /\ \A m \in Newer(n) \cap processed : events[m].sub = Nothing

EventsTyped ==
    /\ phase = [j \in Job |-> phase[j]]
    /\ tenant \in TenantRow
    /\ marker \in [Session -> {"absent", "initial", "settled", "abandoned"}]
    /\ events \in Seq(EventRow) /\ Len(events) <= MaxEvents
    /\ arrival \in Seq(Nat) /\ Arrived \subseteq DOMAIN events
    /\ processed \subseteq Arrived

\* A job is that of an event that arrived; one that is through is handled.
EventJobsInv ==
    /\ \A n \in Arrived : phase[EventJob(n)] # "absent"
    /\ \A j \in Job : phase[j] # "absent" => \E n \in Arrived : j = EventJob(n)
    /\ \A n \in Arrived : phase[EventJob(n)] = "succeeded" => Handled(n)
    /\ \A w \in Worker : exec[w] # NoExec =>
         /\ exec[w].job \in Job /\ phase[exec[w].job] # "absent"
         /\ At(w, "done") => Handled(exec[w].job[2])
         /\ At(w, "applying") => ApplyInv(w)

LatestHolds == ~raced => \A n \in processed : Latest(n) => Reflects(events[n])

EventsInv == ExecInv /\ EventsTyped /\ EventJobsInv /\ LatestHolds

----------------------------------------------------------------------------
(* The tenant.                                                             *)

LEMMA AppliedRow ==
    ASSUME NEW row \in TenantRow, NEW e \in EventRow
    PROVE  /\ Applied(row, e) \in TenantRow
           /\ e.sub = Nothing => Applied(row, e) = row
           /\ e.sub # Nothing /\ e.status = "canceled" =>
                Applied(row, e) = [status |-> "canceled", plan |-> "free", sub |-> Nothing]
           /\ e.sub # Nothing /\ e.status # "canceled" =>
                Applied(row, e).status = e.status /\ Applied(row, e).sub = e.sub
BY SubscriptionsAssumption DEF Applied, TenantRow, EventRow

LEMMA MergedRow ==
    ASSUME NEW now \in TenantRow, NEW seen \in TenantRow, NEW new \in TenantRow, NEW merged,
           merged = [f \in DOMAIN now |-> IF new[f] = seen[f] THEN now[f] ELSE new[f]]
    PROVE  /\ merged \in TenantRow
           /\ now = seen => merged = new
           /\ new = seen => merged = now
BY DEF TenantRow

----------------------------------------------------------------------------
(* The events.                                                             *)

\* Of two events that arrived one is newer, and nothing is newer than what has
\* not arrived.
LEMMA NewerTotal ==
    ASSUME EventsTyped, NEW k \in Arrived, NEW n \in Arrived, k # n
    PROVE  k \in Newer(n) \/ n \in Newer(k)
<1>1. PICK i \in DOMAIN arrival, j \in DOMAIN arrival : arrival[i] = k /\ arrival[j] = n
  BY DEF Arrived
<1>2. i \in Nat /\ j \in Nat /\ i >= 1 /\ j >= 1 /\ i # j
  BY <1>1 DEF EventsTyped
<1>3. CASE i < j
  <2>1. i \in 1 .. j - 1
    BY <1>2, <1>3
  <2> QED
    BY <1>1, <2>1 DEF Newer
<1>4. CASE j < i
  <2>1. j \in 1 .. i - 1
    BY <1>2, <1>4
  <2> QED
    BY <1>1, <2>1 DEF Newer
<1> QED
  BY <1>2, <1>3, <1>4

LEMMA NewerArrived == \A n : Newer(n) \subseteq Arrived
BY DEF Newer, Arrived

\* The event of an execution.
LEMMA EventOfJob ==
    ASSUME EventsInv, NEW w \in Worker, exec[w] # NoExec
    PROVE  /\ exec[w].job = EventJob(exec[w].job[2])
           /\ exec[w].job[2] \in Arrived
           /\ exec[w].job[2] \in DOMAIN events
           /\ events[exec[w].job[2]] \in EventRow
<1>1. PICK n \in Arrived : exec[w].job = EventJob(n)
  BY DEF EventsInv, EventJobsInv
<1>2. exec[w].job[2] = n
  BY <1>1 DEF EventJob
<1> QED
  BY <1>1, <1>2 DEF EventsInv, EventsTyped

----------------------------------------------------------------------------
(* Steps that apply no event.                                              *)

\* Executions end, stay or begin at a job that was queued; a job succeeds by the
\* report of one that is done.
Queued ==
    /\ ExecInv'
    /\ \A j \in Job : phase'[j] = "absent" <=> phase[j] = "absent"
    /\ \A j \in Job : phase'[j] = "succeeded" =>
         phase[j] = "succeeded" \/ \E w \in Worker : At(w, "done") /\ exec[w].job = j
    /\ \A w \in Worker :
         \/ exec'[w] = NoExec
         \/ exec'[w] = exec[w] /\ tx'[w] = tx[w]
         \/ exec'[w].at = "begin" /\ exec'[w].job \in Job /\ phase[exec'[w].job] # "absent"

\* Events and what is known of them stay, or are added at their ends.
Longer ==
    /\ EventsTyped'
    /\ \A n \in DOMAIN events : n \in DOMAIN events' /\ events'[n] = events[n]
    /\ UNCHANGED <<arrival, processed, tenant, raced>>

LEMMA LongerKnows ==
    ASSUME EventsTyped, Longer
    PROVE  /\ Arrived' = Arrived /\ Arrived \subseteq DOMAIN events
           /\ \A n : Newer(n)' = Newer(n) /\ Newer(n) \subseteq Arrived
           /\ \A n \in Arrived : Handled(n)' = Handled(n) /\ Latest(n)' = Latest(n)
           /\ \A n \in Arrived : Reflects(events[n])' = Reflects(events[n])
<1>1. Arrived' = Arrived /\ \A n : Newer(n)' = Newer(n)
  BY DEF Longer, Arrived, Newer
<1>2. \A n \in Arrived : events'[n] = events[n] /\ n \in DOMAIN events
  BY DEF Longer, EventsTyped
<1>3. \A n : Newer(n) \subseteq Arrived
  BY NewerArrived
<1>4. \A n \in Arrived : Handled(n)' = Handled(n)
  BY <1>1, <1>2, <1>3 DEF Longer, Handled
<1>5. \A n \in Arrived : Latest(n)' = Latest(n)
  BY <1>1, <1>2, <1>3 DEF Longer, Latest
<1>6. \A n \in Arrived : Reflects(events[n])' = Reflects(events[n])
  BY <1>2 DEF Longer, Reflects
<1> QED
  BY <1>1, <1>2, <1>3, <1>4, <1>5, <1>6

LEMMA EventsStay ==
    ASSUME EventsInv, Queued, Longer
    PROVE  EventsInv'
<1>1. /\ Arrived' = Arrived /\ Arrived \subseteq DOMAIN events
      /\ \A n : Newer(n)' = Newer(n) /\ Newer(n) \subseteq Arrived
      /\ \A n \in Arrived : Handled(n)' = Handled(n) /\ Latest(n)' = Latest(n)
      /\ \A n \in Arrived : Reflects(events[n])' = Reflects(events[n])
  BY LongerKnows DEF EventsInv
<1>2. \A n \in Arrived : EventJob(n) \in Job /\ phase[EventJob(n)] # "absent"
  <2>1. \A n \in Arrived : n \in 1 .. MaxEvents
    BY SubscriptionsAssumption DEF EventsInv, EventsTyped
  <2> QED
    BY <2>1, EventJobAssumption DEF EventsInv, EventJobsInv
<1>3. LatestHolds'
  BY <1>1 DEF EventsInv, LatestHolds, EventsTyped, Longer
<1>4. ASSUME NEW w \in Worker, exec'[w] # NoExec
      PROVE  /\ exec'[w].job \in Job /\ phase'[exec'[w].job] # "absent"
             /\ At(w, "done")' => Handled(exec[w].job[2])'
             /\ At(w, "applying")' => ApplyInv(w)'
  <2>1. CASE exec'[w] = exec[w] /\ tx'[w] = tx[w]
    <3>1. exec[w].job \in Job /\ phase[exec[w].job] # "absent" /\ exec[w].job[2] \in Arrived
      BY <1>4, <2>1, EventOfJob DEF EventsInv, EventJobsInv
    <3>2. ASSUME At(w, "applying") PROVE ApplyInv(w)'
      <4>1. ApplyInv(w)
        BY <3>2 DEF EventsInv, EventJobsInv, At
      <4>2. \A n \in Arrived : events'[n] = events[n]
        BY <1>1 DEF Longer
      <4> QED
        BY <1>1, <2>1, <3>1, <4>1, <4>2 DEF ApplyInv
    <3> QED
      BY <1>1, <1>4, <2>1, <3>1, <3>2 DEF EventsInv, EventJobsInv, Queued, At
  <2>2. CASE exec'[w].at = "begin" /\ exec'[w].job \in Job /\ phase[exec'[w].job] # "absent"
    BY <2>2 DEF Queued, At
  <2> QED
    BY <1>4, <2>1, <2>2 DEF Queued
<1>5. \A n \in Arrived : phase'[EventJob(n)] # "absent"
  BY <1>2 DEF Queued
<1>6. \A j \in Job : phase'[j] # "absent" => \E n \in Arrived : j = EventJob(n)
  BY DEF Queued, EventsInv, EventJobsInv
<1>7. ASSUME NEW n \in Arrived, phase'[EventJob(n)] = "succeeded" PROVE Handled(n)
  <2>1. CASE phase[EventJob(n)] = "succeeded"
    BY <2>1 DEF EventsInv, EventJobsInv
  <2>2. ASSUME NEW w \in Worker, At(w, "done"), exec[w].job = EventJob(n) PROVE Handled(n)
    <3>1. exec[w].job[2] = n
      BY <2>2 DEF EventJob
    <3> QED
      BY <2>2, <3>1 DEF EventsInv, EventJobsInv, At
  <2> QED
    BY <1>2, <1>7, <2>1, <2>2 DEF Queued
<1>8. EventJobsInv'
  <2>1. \A w \in Worker : exec'[w] # NoExec /\ At(w, "done")' => exec'[w] = exec[w]
    BY DEF Queued, At
  <2> QED
    BY <1>1, <1>4, <1>5, <1>6, <1>7, <2>1 DEF EventJobsInv
<1> QED
  BY <1>3, <1>8 DEF EventsInv, Queued, Longer

\* An execution ends, and its job is reported, or abandoned.
LEMMA StopQueued ==
    ASSUME EventsInv, NEW w \in Worker, exec[w] # NoExec, Stop(w), UNCHANGED today,
           \/ phase' = phase
           \/ \E status \in {"queued", "running", "dead", "succeeded"} :
                /\ phase' = [phase EXCEPT ![exec[w].job] = status]
                /\ status = "succeeded" => At(w, "done")
    PROVE  Queued
<1>1. exec[w].job \in Job /\ phase[exec[w].job] # "absent" /\ ExecInv
  BY DEF EventsInv, EventJobsInv
<1>2. ExecInv'
  BY <1>1, StopSteady, SteadyExec
<1>3. /\ exec'[w] = NoExec
      /\ \A v \in Worker : v # w => exec'[v] = exec[v] /\ tx'[v] = tx[v]
  BY <1>1 DEF Stop, Close, ExecInv, Actor
<1>4. CASE phase' = phase
  BY <1>2, <1>3, <1>4 DEF Queued
<1>5. ASSUME NEW status \in {"queued", "running", "dead", "succeeded"},
             phase' = [phase EXCEPT ![exec[w].job] = status],
             status = "succeeded" => At(w, "done")
      PROVE  Queued
  <2>1. phase = [j \in Job |-> phase[j]]
    BY DEF EventsInv, EventsTyped
  <2>2. /\ phase'[exec[w].job] = status
        /\ \A j \in Job : j # exec[w].job => phase'[j] = phase[j]
    BY <1>1, <1>5, <2>1
  <2>3. \A j \in Job : phase'[j] = "succeeded" =>
          phase[j] = "succeeded" \/ \E v \in Worker : At(v, "done") /\ exec[v].job = j
    BY <1>5, <2>2
  <2>4. \A j \in Job : phase'[j] = "absent" <=> phase[j] = "absent"
    BY <1>1, <2>2
  <2> QED
    BY <1>2, <1>3, <2>3, <2>4 DEF Queued
<1> QED
  BY <1>4, <1>5

\* The queue and the machines.
LEMMA QueueQueued ==
    ASSUME EventsInv, UNCHANGED today,
           (\E w \in Worker : Finish(w) \/ \E j \in Job : Take(w, j)) \/ Repair \/ Trouble
    PROVE  Queued
<1>1. /\ ExecInv /\ phase = [j \in Job |-> phase[j]]
  BY DEF EventsInv, EventsTyped
<1>2. ASSUME NEW w \in Worker, Finish(w) \/ Crash(w) PROVE Queued
  <2>1. Stop(w) /\ exec[w] # NoExec
    BY <1>2 DEF Finish, Crash, At
  <2>2. \/ phase' = phase
        \/ \E status \in {"queued", "running", "dead", "succeeded"} :
             /\ phase' = [phase EXCEPT ![exec[w].job] = status]
             /\ status = "succeeded" => At(w, "done")
    BY <1>2 DEF Finish, Crash, Report, Queue!Abandon, queueVars
  <2> QED
    BY <2>1, <2>2, StopQueued
<1>3. ASSUME NEW w \in Worker, NEW j \in Job, Take(w, j) PROVE Queued
  <2>1. /\ exec' = [exec EXCEPT ![w] = [job |-> j, at |-> "begin"]]
        /\ exec[w] = NoExec /\ tx' = tx
        /\ phase[j] = "queued" /\ phase' = [phase EXCEPT ![j] = "running"]
    BY <1>3 DEF Take, Queue!Start
  <2>2. ExecInv'
    BY <1>1, <2>1 DEF ExecInv
  <2>3. /\ exec'[w].at = "begin" /\ exec'[w].job = j
        /\ \A v \in Worker : v # w => exec'[v] = exec[v] /\ tx'[v] = tx[v]
    BY <1>1, <2>1 DEF ExecInv
  <2>4. phase'[j] = "running" /\ \A i \in Job : i # j => phase'[i] = phase[i]
    BY <1>1, <2>1
  <2> QED
    BY <2>1, <2>2, <2>3, <2>4 DEF Queued
<1>4. ASSUME NEW j \in Job, Reclaim(j) \/ Revive(j) PROVE Queued
  <2>1. UNCHANGED <<exec, tx>>
    BY <1>4 DEF Reclaim, Revive
  <2>2. /\ \A i \in Job : phase[i] = "absent" <=> phase'[i] = "absent"
        /\ \A i \in Job : phase'[i] = "succeeded" => phase[i] = "succeeded"
    BY <1>1, <1>4 DEF Reclaim, Revive, Queue!Recover, Queue!Retry
  <2> QED
    BY <1>1, <2>1, <2>2 DEF Queued, ExecInv
<1>5. ASSUME NEW w \in Worker, LoseLease(w) PROVE Queued
  <2>1. UNCHANGED <<exec, tx, phase>>
    BY <1>5 DEF LoseLease, Queue!Abandon
  <2> QED
    BY <1>1, <2>1 DEF Queued, ExecInv
<1> QED
  BY <1>2, <1>3, <1>4, <1>5 DEF Repair, Trouble

----------------------------------------------------------------------------
(* Requests and the provider.                                              *)

LEMMA CheckoutStep ==
    ASSUME EventsInv, UNCHANGED today, NEW c \in Client,
           SaveCheckout(c) \/ DropCheckout(c) \/ \E s \in Session : LoadCheckout(c, s)
    PROVE  EventsInv'
<1>1. /\ UNCHANGED <<exec, phase, events, arrival, processed, tenant, raced>>
      /\ marker' = marker \/ \E s : marker' = [marker EXCEPT ![s] = "initial"]
      /\ \E t : tx' = [tx EXCEPT ![c] = t]
  BY DEF SaveCheckout, DropCheckout, LoadCheckout, Hosted, queueVars, subscriptionVars, Open, Close
<1>2. \A w \in Worker : exec'[w] = exec[w] /\ tx'[w] = tx[w]
  BY <1>1, ActorAssumption DEF EventsInv, ExecInv
<1>3. ExecInv'
  BY <1>1 DEF EventsInv, ExecInv
<1>4. Queued
  BY <1>1, <1>2, <1>3 DEF Queued
<1>5. marker' \in [Session -> {"absent", "initial", "settled", "abandoned"}]
  BY <1>1 DEF EventsInv, EventsTyped
<1>6. Longer
  BY <1>1, <1>5 DEF Longer, EventsInv, EventsTyped, Arrived
<1> QED
  BY <1>4, <1>6, EventsStay

LEMMA ProviderStep ==
    ASSUME EventsInv, UNCHANGED today, NEW s \in Session, Complete(s) \/ Expire(s) \/ Change(s)
    PROVE  EventsInv'
<1>1. PICK new \in Seq(EventRow) : Emit(new)
  <2>1. CASE Complete(s)
    <3>1. Event(s, "active", "paid", Nothing) \in EventRow /\ Event(s, "active", Nothing, s) \in EventRow
      BY SubscriptionsAssumption DEF Event, EventRow
    <3>2. <<Event(s, "active", "paid", Nothing), Event(s, "active", Nothing, s)>> \in Seq(EventRow)
      BY <3>1
    <3> QED
      BY <2>1, <3>2 DEF Complete
  <2>2. CASE Expire(s)
    <3>1. Event(Nothing, Nothing, Nothing, s) \in EventRow
      BY DEF Event, EventRow
    <3>2. <<Event(Nothing, Nothing, Nothing, s)>> \in Seq(EventRow) /\ <<>> \in Seq(EventRow)
      BY <3>1
    <3> QED
      BY <2>2, <3>2 DEF Expire
  <2>3. CASE Change(s)
    <3>1. PICK status \in {"active", "suspended", "canceled"} :
             Emit(<<Event(s, status, "paid", Nothing)>>)
      BY <2>3 DEF Change
    <3>2. Event(s, status, "paid", Nothing) \in EventRow
      BY SubscriptionsAssumption DEF Event, EventRow
    <3>3. <<Event(s, status, "paid", Nothing)>> \in Seq(EventRow)
      BY <3>2
    <3> QED
      BY <3>1, <3>3
  <2> QED
    BY <2>1, <2>2, <2>3
<1>2. UNCHANGED <<phase, exec, tx, tenant, marker, arrival, processed, raced>>
  BY <1>1 DEF Emit, workerVars
<1>3. Queued
  BY <1>2 DEF EventsInv, ExecInv, Queued
<1>4. /\ events' \in Seq(EventRow) /\ Len(events') <= MaxEvents
      /\ \A n \in DOMAIN events : n \in DOMAIN events' /\ events'[n] = events[n]
  <2>1. events \in Seq(EventRow) /\ events' = events \o new /\ Len(events) + Len(new) <= MaxEvents
    BY <1>1 DEF Emit, EventsInv, EventsTyped
  <2>2. /\ events' \in Seq(EventRow) /\ Len(events') = Len(events) + Len(new)
        /\ \A n \in 1 .. Len(events) : events'[n] = events[n]
    BY <2>1
  <2> QED
    BY <2>1, <2>2
<1>5. Longer
  BY <1>2, <1>4 DEF Longer, EventsInv, EventsTyped, Arrived
<1> QED
  BY <1>3, <1>5, EventsStay

\* The delivery of an event makes its job; nothing was newer than it before, and
\* it has not been applied.
LEMMA WebhookStep ==
    ASSUME EventsInv, UNCHANGED today, NEW n \in DOMAIN events, Webhook(n)
    PROVE  EventsInv'
<1>1. /\ phase[EventJob(n)] = "absent"
      /\ phase' = [j \in Job |-> IF j \in {EventJob(n)} /\ phase[j] = "absent" THEN "queued" ELSE phase[j]]
      /\ arrival' = Append(arrival, n)
      /\ UNCHANGED <<exec, tx, tenant, marker, events, processed, raced>>
  BY DEF Webhook, Enqueue
<1>2. /\ ExecInv /\ EventsTyped /\ EventJobsInv /\ LatestHolds
  BY DEF EventsInv
<1>3. n \in 1 .. MaxEvents /\ EventJob(n) \in Job /\ n \in Nat
  <2>1. n \in 1 .. MaxEvents
    BY <1>2, SubscriptionsAssumption DEF EventsTyped
  <2> QED
    BY <2>1, EventJobAssumption
<1>4. n \notin Arrived /\ n \notin processed
  BY <1>1, <1>2 DEF EventJobsInv, EventsTyped
<1>5. /\ arrival' \in Seq(Nat) /\ Len(arrival') = Len(arrival) + 1
      /\ arrival'[Len(arrival) + 1] = n
      /\ \A i \in 1 .. Len(arrival) : arrival'[i] = arrival[i]
      /\ Len(arrival) \in Nat
      /\ DOMAIN arrival = 1 .. Len(arrival) /\ DOMAIN arrival' = 1 .. Len(arrival) + 1
  <2>1. arrival \in Seq(Nat) /\ arrival' = Append(arrival, n) /\ n \in Nat
    BY <1>1, <1>2, <1>3 DEF EventsTyped
  <2> QED
    BY <2>1
<1>6. Arrived' = Arrived \cup {n}
  BY <1>5 DEF Arrived
<1>7. \A k \in Arrived : Newer(k) \subseteq Newer(k)' /\ Newer(k)' \subseteq Newer(k) \cup {n}
  <2> TAKE k \in Arrived
  <2>1. ASSUME NEW i \in DOMAIN arrival, NEW j \in 1 .. i - 1, arrival[j] = k
        PROVE  arrival[i] \in Newer(k)'
    <3>1. /\ i \in DOMAIN arrival' /\ arrival'[i] = arrival[i] /\ arrival'[j] = k
      BY <1>5, <2>1
    <3> QED
      BY <2>1, <3>1 DEF Newer
  <2>2. ASSUME NEW i \in DOMAIN arrival', NEW j \in 1 .. i - 1, arrival'[j] = k
        PROVE  arrival'[i] \in Newer(k) \cup {n}
    <3>1. CASE i = Len(arrival) + 1
      BY <1>5, <3>1
    <3>2. CASE i # Len(arrival) + 1
      <4>1. i \in DOMAIN arrival /\ arrival'[i] = arrival[i] /\ arrival[j] = k
        BY <1>5, <2>2, <3>2
      <4> QED
        BY <2>2, <4>1 DEF Newer
    <3> QED
      BY <3>1, <3>2
  <2> QED
    BY <2>1, <2>2 DEF Newer
<1>8. /\ phase' = [j \in Job |-> phase'[j]] /\ phase'[EventJob(n)] = "queued"
      /\ \A j \in Job : j # EventJob(n) => phase'[j] = phase[j]
  BY <1>1, <1>3
<1>9. \A k \in Arrived : EventJob(k) # EventJob(n) /\ EventJob(k) \in Job
  <2>1. \A k \in Arrived : k \in 1 .. MaxEvents /\ k # n
    BY <1>2, <1>4, SubscriptionsAssumption DEF EventsTyped
  <2> QED
    BY <2>1, EventJobAssumption DEF EventJob
<1>10. \A k \in Arrived : Handled(k) => Handled(k)'
  BY <1>1, <1>7 DEF Handled
<1>11. EventsTyped'
  BY <1>1, <1>2, <1>5, <1>6, <1>8 DEF EventsTyped
<1>12. ASSUME NEW w \in Worker, exec'[w] # NoExec
       PROVE  /\ exec'[w].job \in Job /\ phase'[exec'[w].job] # "absent"
              /\ At(w, "done")' => Handled(exec[w].job[2])'
              /\ At(w, "applying")' => ApplyInv(w)'
  <2>1. exec[w] # NoExec /\ exec[w].job[2] \in Arrived
    BY <1>1, <1>12, EventOfJob
  <2>2. exec[w].job \in Job /\ phase[exec[w].job] # "absent"
    BY <1>2, <2>1 DEF EventJobsInv
  <2>3. ASSUME At(w, "applying") PROVE ApplyInv(w)'
    <3>1. ApplyInv(w)
      BY <1>2, <2>1, <2>3 DEF EventJobsInv
    <3> QED
      BY <1>1, <1>6, <3>1 DEF ApplyInv
  <2>4. ASSUME At(w, "done") PROVE Handled(exec[w].job[2])'
    <3>1. PICK k \in Arrived : k = exec[w].job[2] /\ Handled(k)
      BY <1>2, <2>1, <2>4 DEF EventJobsInv
    <3>2. Handled(k)' /\ exec'[w].job[2] = k
      BY <1>1, <1>10, <3>1
    <3> QED
      BY <3>2 DEF Handled
  <2> QED
    BY <1>1, <1>8, <2>2, <2>3, <2>4 DEF At
<1>13. EventJobsInv'
  <2>1. \A k \in Arrived' : phase'[EventJob(k)] # "absent"
    BY <1>2, <1>6, <1>8, <1>9 DEF EventJobsInv
  <2>2. \A j \in Job : phase'[j] # "absent" => \E k \in Arrived' : j = EventJob(k)
    BY <1>2, <1>6, <1>8 DEF EventJobsInv
  <2>3. \A k \in Arrived' : phase'[EventJob(k)] = "succeeded" => Handled(k)'
    BY <1>2, <1>6, <1>8, <1>9, <1>10 DEF EventJobsInv
  <2> QED
    BY <1>1, <1>12, <2>1, <2>2, <2>3 DEF EventJobsInv
<1>14. LatestHolds'
  <2>1. \A k \in processed : Latest(k)' => Latest(k)
    BY <1>1, <1>2, <1>7 DEF Latest, EventsTyped
  <2> QED
    BY <1>1, <1>2, <2>1 DEF LatestHolds, Reflects
<1>15. ExecInv'
  BY <1>1, <1>2 DEF ExecInv
<1> QED
  BY <1>11, <1>13, <1>14, <1>15 DEF EventsInv

----------------------------------------------------------------------------
(* The job of an event.                                                    *)

\* Nothing is enqueued or told; one execution goes on, or its event is applied.
LEMMA LoadStep ==
    ASSUME EventsInv, UNCHANGED today, NEW w \in Worker, LoadEvent(w)
    PROVE  EventsInv'
<1>1. PICK n : n = exec[w].job[2]
  OBVIOUS
<1>2. /\ exec[w] # NoExec /\ n \in Arrived /\ n \in DOMAIN events
      /\ exec[w].job \in Job /\ phase[exec[w].job] # "absent"
  BY <1>1, EventOfJob DEF LoadEvent, At, EventsInv, EventJobsInv
<1>3. UNCHANGED <<phase, tenant, marker, events, arrival, processed, raced>>
  BY DEF LoadEvent, queueVars, subscriptionVars
<1>4. ExecInv /\ EventsTyped /\ EventJobsInv /\ LatestHolds
  BY DEF EventsInv
<1>5. EventsTyped' /\ LatestHolds' /\ Arrived' = Arrived
  BY <1>3, <1>4 DEF EventsTyped, LatestHolds, Arrived, Latest, Newer, Reflects
<1>6. \A k : Handled(k)' = Handled(k)
  BY <1>3 DEF Handled, Newer
<1>7. PICK step \in {"done", "applying"} :
         /\ Goto(w, step)
         /\ step = "done" => tx' = tx /\ Handled(n)
         /\ step = "applying" => ApplyInv(w)' /\ \E t : tx' = [tx EXCEPT ![w] = t]
  <2>1. CASE Superseded(n) \/ n \in processed
    <3>1. Handled(n)
      BY <2>1 DEF Superseded, Handled
    <3> QED
      BY <1>1, <2>1, <3>1 DEF LoadEvent
  <2>2. CASE ~(Superseded(n) \/ n \in processed)
    <3>1. PICK t : /\ t = [locks |-> {n}, seen |-> tenant, event |-> n,
                           through |-> {m \in Newer(n) : phase[EventJob(m)] = "succeeded"}]
                   /\ Open(w, t) /\ Goto(w, "applying")
      BY <1>1, <2>2 DEF LoadEvent
    <3>2. /\ tx' = [tx EXCEPT ![w] = t] /\ tx'[w] = t
      BY <1>4, <3>1 DEF Open, ExecInv, Actor
    <3>3. exec'[w].job = exec[w].job
      BY <1>2, <1>4, <3>1 DEF Goto, ExecInv
    <3>4. /\ t.event = n /\ t.seen = tenant
          /\ t.through = {m \in Newer(n) : phase[EventJob(m)] = "succeeded"}
      BY <3>1
    <3>5. events[n].sub # Nothing => \A m \in t.through : events[m].sub # events[n].sub
      BY <2>2, <3>4 DEF Superseded
    <3>6. t.through \subseteq Arrived /\ t.seen \in TenantRow
      BY <1>4, <3>4, NewerArrived DEF EventsTyped
    <3>7. ApplyInv(w)'
      BY <1>1, <1>3, <1>5, <3>2, <3>3, <3>4, <3>5, <3>6 DEF ApplyInv
    <3> QED
      BY <3>1, <3>2, <3>7
  <2> QED
    BY <2>1, <2>2
<1>8. /\ ExecInv'
      /\ exec'[w].job = exec[w].job /\ exec'[w].at = step
      /\ \A v \in Worker : v # w => exec'[v] = exec[v] /\ tx'[v] = tx[v]
  <2>1. PICK t : exec' = [exec EXCEPT ![w].at = step] /\ tx' = [tx EXCEPT ![w] = t]
    <3>1. \E t : tx' = [tx EXCEPT ![w] = t]
      BY <1>4, <1>7 DEF ExecInv
    <3> QED
      BY <1>7, <3>1 DEF Goto
  <2>2. w \in Actor /\ ExecInv
    BY <1>4 DEF Actor
  <2>3. /\ exec'[w] = [job |-> exec[w].job, at |-> step]
        /\ \A v \in Worker : v # w => exec'[v] = exec[v]
    BY <1>2, <2>1, <2>2 DEF ExecInv
  <2>4. \A v \in Worker : v # w => tx'[v] = tx[v]
    BY <2>1, <2>2 DEF ExecInv, Actor
  <2> QED
    BY <2>1, <2>2, <2>3, <2>4 DEF ExecInv
<1>9. ASSUME NEW v \in Worker, exec'[v] # NoExec
      PROVE  /\ exec'[v].job \in Job /\ phase'[exec'[v].job] # "absent"
             /\ At(v, "done")' => Handled(exec[v].job[2])'
             /\ At(v, "applying")' => ApplyInv(v)'
  <2>1. CASE v = w
    <3>1. exec'[w].job[2] = n /\ Handled(exec[w].job[2])' = Handled(n)'
      BY <1>1, <1>8 DEF Handled, Newer
    <3> QED
      BY <1>2, <1>3, <1>6, <1>7, <1>8, <2>1, <3>1 DEF At
  <2>2. CASE v # w
    <3>1. exec'[v] = exec[v] /\ tx'[v] = tx[v] /\ exec[v] # NoExec
      BY <1>8, <1>9, <2>2
    <3>2. ASSUME At(v, "applying") PROVE ApplyInv(v)'
      <4>1. ApplyInv(v)
        BY <1>4, <3>1, <3>2 DEF EventJobsInv
      <4> QED
        BY <1>3, <1>5, <3>1, <4>1 DEF ApplyInv
    <3>3. ASSUME At(v, "done") PROVE Handled(exec[v].job[2])'
      <4>1. Handled(exec[v].job[2])
        BY <1>4, <3>1, <3>3 DEF EventJobsInv
      <4> QED
        BY <1>3, <3>1, <4>1 DEF Handled, Newer
    <3> QED
      BY <1>3, <1>4, <3>1, <3>2, <3>3 DEF EventJobsInv, At
  <2> QED
    BY <2>1, <2>2
<1>10. EventJobsInv'
  BY <1>3, <1>4, <1>5, <1>6, <1>9 DEF EventJobsInv
<1> QED
  BY <1>5, <1>8, <1>10 DEF EventsInv

LEMMA FailStep ==
    ASSUME EventsInv, UNCHANGED today, NEW w \in Worker, FailEvent(w)
    PROVE  EventsInv'
<1>1. /\ exec[w] # NoExec /\ Stop(w) /\ UNCHANGED subscriptionVars
      /\ \E status \in {"queued", "running", "dead", "succeeded"} :
           /\ phase' = [phase EXCEPT ![exec[w].job] = status]
           /\ status = "succeeded" => At(w, "done")
  BY DEF FailEvent, Raise, Report, At
<1>2. Queued
  BY <1>1, StopQueued
<1>3. phase' = [j \in Job |-> phase'[j]]
  BY <1>1 DEF EventsInv, EventsTyped
<1>4. Longer
  BY <1>1, <1>3 DEF Longer, EventsInv, EventsTyped, Arrived, subscriptionVars
<1> QED
  BY <1>2, <1>4, EventsStay

\* What an application leaves of the tenant.
LEMMA ApplyRow ==
    ASSUME EventsInv, NEW w \in Worker, ApplyEvent(w), NEW n, n = exec[w].job[2]
    PROVE  /\ tenant' \in TenantRow
           /\ events[n].sub = Nothing => tenant' = tenant
           /\ events[n].sub # Nothing /\ tenant = tx[w].seen => Reflects(events[n])'
<1>1. /\ exec[w] # NoExec /\ ApplyInv(w)
  BY DEF ApplyEvent, At, EventsInv, EventJobsInv
<1>2. PICK e \in EventRow : e = events[n]
  BY <1>1, EventOfJob
<1>3. PICK seen \in TenantRow : seen = tx[w].seen
  BY <1>1 DEF ApplyInv
<1>4. PICK new : new = Applied(seen, e)
  OBVIOUS
<1>5. /\ new \in TenantRow
      /\ e.sub = Nothing => new = seen
      /\ e.sub # Nothing /\ e.status = "canceled" =>
           new = [status |-> "canceled", plan |-> "free", sub |-> Nothing]
      /\ e.sub # Nothing /\ e.status # "canceled" => new.status = e.status /\ new.sub = e.sub
  BY <1>4, AppliedRow
<1>6. PICK now \in TenantRow : now = tenant
  BY DEF EventsInv, EventsTyped
<1>7. PICK merged : /\ merged = tenant'
                    /\ merged = [f \in DOMAIN now |-> IF new[f] = seen[f] THEN now[f] ELSE new[f]]
  BY <1>1, <1>2, <1>3, <1>4, <1>6 DEF ApplyEvent, ApplyInv
<1>8. /\ merged \in TenantRow
      /\ now = seen => merged = new
      /\ new = seen => merged = now
  BY <1>5, <1>7, MergedRow
<1>9. events' = events
  BY DEF ApplyEvent
<1> QED
  BY <1>2, <1>3, <1>5, <1>6, <1>7, <1>8, <1>9 DEF Reflects

\* Without a race, nothing newer has been applied when the event of a subscription is.
LEMMA ApplyLatest ==
    ASSUME EventsInv, NEW w \in Worker, ApplyEvent(w), ~raced', NEW n, n = exec[w].job[2]
    PROVE  /\ ~raced /\ tenant = tx[w].seen
           /\ events[n].sub # Nothing => Newer(n) \cap processed = {}
<1>1. exec[w] # NoExec /\ ApplyInv(w) /\ tx[w].event = n
  BY DEF ApplyEvent, At, EventsInv, EventJobsInv, ApplyInv
<1>2. /\ ~raced /\ tenant = tx[w].seen
      /\ \A m \in Newer(n) \cap processed : m \in tx[w].through /\ events[m].sub = events[n].sub
  BY <1>1 DEF ApplyEvent
<1> QED
  BY <1>1, <1>2 DEF ApplyInv

LEMMA ApplyStep ==
    ASSUME EventsInv, UNCHANGED today, NEW w \in Worker, ApplyEvent(w)
    PROVE  EventsInv'
<1>1. PICK n : n = exec[w].job[2]
  OBVIOUS
<1>2. /\ exec[w] # NoExec /\ n \in Arrived /\ n \in DOMAIN events /\ ApplyInv(w)
      /\ exec[w].job \in Job /\ phase[exec[w].job] # "absent"
  BY <1>1, EventOfJob DEF ApplyEvent, At, EventsInv, EventJobsInv
<1>3. /\ UNCHANGED <<phase, events, arrival>>
      /\ processed' = processed \cup {n}
      /\ marker' = [s \in Session |-> Closed(s, events[n])]
      /\ Goto(w, "done") /\ Close(w)
  BY <1>1, <1>2 DEF ApplyEvent, ApplyInv, queueVars
<1>4. ExecInv /\ EventsTyped /\ EventJobsInv /\ LatestHolds
  BY DEF EventsInv
<1>5. /\ tenant' \in TenantRow
      /\ events[n].sub = Nothing => tenant' = tenant
      /\ events[n].sub # Nothing /\ tenant = tx[w].seen => Reflects(events[n])'
  BY <1>1, ApplyRow
<1>6. Arrived' = Arrived /\ \A k : Newer(k)' = Newer(k)
  BY <1>3 DEF Arrived, Newer
<1>7. marker' \in [Session -> {"absent", "initial", "settled", "abandoned"}]
  BY <1>3, <1>4 DEF EventsTyped, Closed
<1>8. EventsTyped'
  BY <1>2, <1>3, <1>4, <1>5, <1>6, <1>7 DEF EventsTyped
<1>9. \A k : Handled(k) => Handled(k)'
  BY <1>3, <1>6 DEF Handled
<1>10. /\ ExecInv'
       /\ exec'[w].job = exec[w].job /\ exec'[w].at = "done"
       /\ \A v \in Worker : v # w => exec'[v] = exec[v] /\ tx'[v] = tx[v]
  <2>1. exec' = [exec EXCEPT ![w].at = "done"] /\ tx' = [tx EXCEPT ![w] = NoTx]
    BY <1>3 DEF Goto, Close
  <2>2. w \in Actor /\ ExecInv
    BY <1>4 DEF Actor
  <2>3. /\ exec'[w] = [job |-> exec[w].job, at |-> "done"]
        /\ \A v \in Worker : v # w => exec'[v] = exec[v]
    BY <1>2, <2>1, <2>2 DEF ExecInv
  <2>4. \A v \in Worker : v # w => tx'[v] = tx[v]
    BY <2>1, <2>2 DEF ExecInv, Actor
  <2> QED
    BY <2>1, <2>2, <2>3, <2>4 DEF ExecInv
<1>11. ASSUME NEW v \in Worker, exec'[v] # NoExec
       PROVE  /\ exec'[v].job \in Job /\ phase'[exec'[v].job] # "absent"
              /\ At(v, "done")' => Handled(exec[v].job[2])'
              /\ At(v, "applying")' => ApplyInv(v)'
  <2>1. CASE v = w
    <3>1. exec'[w].job[2] = n /\ Handled(exec[w].job[2])'
      BY <1>1, <1>3, <1>10 DEF Handled
    <3> QED
      BY <1>2, <1>3, <1>10, <2>1, <3>1 DEF At
  <2>2. CASE v # w
    <3>1. exec'[v] = exec[v] /\ tx'[v] = tx[v] /\ exec[v] # NoExec
      BY <1>10, <1>11, <2>2
    <3>2. ASSUME At(v, "applying") PROVE ApplyInv(v)'
      <4>1. ApplyInv(v)
        BY <1>4, <3>1, <3>2 DEF EventJobsInv
      <4> QED
        BY <1>3, <1>6, <3>1, <4>1 DEF ApplyInv
    <3>3. ASSUME At(v, "done") PROVE Handled(exec[v].job[2])'
      <4>1. Handled(exec[v].job[2])
        BY <1>4, <3>1, <3>3 DEF EventJobsInv
      <4> QED
        BY <1>3, <3>1, <4>1 DEF Handled, Newer
    <3> QED
      BY <1>3, <1>4, <3>1, <3>2, <3>3 DEF EventJobsInv, At
  <2> QED
    BY <2>1, <2>2
<1>12. EventJobsInv'
  BY <1>3, <1>4, <1>6, <1>9, <1>11 DEF EventJobsInv
<1>13. ASSUME ~raced', NEW k \in processed', Latest(k)' PROVE Reflects(events[k])'
  <2>1. /\ ~raced /\ tenant = tx[w].seen
        /\ events[n].sub # Nothing => Newer(n) \cap processed = {}
    BY <1>1, <1>13, ApplyLatest
  <2>2. CASE k = n
    BY <1>3, <1>5, <1>13, <2>1, <2>2 DEF Latest, Reflects
  <2>3. CASE k # n
    <3>1. k \in processed /\ k \in Arrived /\ Latest(k)
      BY <1>3, <1>4, <1>6, <1>13, <2>3 DEF Latest, EventsTyped
    <3>2. events[n].sub = Nothing
      <4>1. k \in Newer(n) \/ n \in Newer(k)
        BY <1>2, <1>4, <2>3, <3>1, NewerTotal
      <4>2. n \in Newer(k) => events[n].sub = Nothing
        BY <1>3, <1>6, <1>13 DEF Latest
      <4> QED
        BY <2>1, <3>1, <4>1, <4>2
    <3>3. Reflects(events[k]) /\ tenant' = tenant
      BY <1>4, <1>5, <2>1, <3>1, <3>2 DEF LatestHolds
    <3> QED
      BY <1>3, <3>3 DEF Reflects
  <2> QED
    BY <2>2, <2>3
<1>14. LatestHolds'
  BY <1>13 DEF LatestHolds
<1> QED
  BY <1>8, <1>10, <1>12, <1>14 DEF EventsInv

LEMMA EventsInvStep ==
    ASSUME EventsInv, [SubscriptionsNext /\ UNCHANGED today]_<<workerVars, subscriptionVars, today>>
    PROVE  EventsInv'
<1>1. ASSUME (\E w \in Worker : Finish(w) \/ \E j \in Job : Take(w, j)) \/ Repair \/ Trouble,
             UNCHANGED subscriptionVars, UNCHANGED today
      PROVE  EventsInv'
  <2>1. Queued
    BY <1>1, QueueQueued
  <2>2. phase' = [j \in Job |-> phase'[j]]
    BY <1>1 DEF EventsInv, EventsTyped, Finish, Take, Repair, Trouble, Report, Crash, LoseLease, Reclaim,
                Revive, Queue!Start, Queue!Abandon, Queue!Recover, Queue!Retry, queueVars
  <2>3. Longer
    BY <1>1, <2>2 DEF Longer, EventsInv, EventsTyped, Arrived, subscriptionVars
  <2> QED
    BY <2>1, <2>3, EventsStay
<1>2. CASE UNCHANGED <<workerVars, subscriptionVars, today>>
  <2>1. Queued
    BY <1>2 DEF Queued, EventsInv, ExecInv, workerVars
  <2>2. Longer
    BY <1>2 DEF Longer, EventsInv, EventsTyped, Arrived, subscriptionVars, workerVars
  <2> QED
    BY <2>1, <2>2, EventsStay
<1>3. CASE SubscriptionsNext /\ UNCHANGED today
  BY <1>1, <1>3, CheckoutStep, WebhookStep, ProviderStep, LoadStep, ApplyStep, FailStep
     DEF SubscriptionsNext
<1> QED
  BY <1>2, <1>3

LEMMA EventsInvInit == LoopInit /\ SubscriptionsInit => EventsInv
<1> SUFFICES ASSUME LoopInit, SubscriptionsInit PROVE EventsInv
  OBVIOUS
<1>1. /\ ExecInv /\ phase = [j \in Job |-> "absent"] /\ exec = [w \in Worker |-> NoExec]
  BY ExecInit DEF LoopInit, WorkerInit, Queue!Init
<1>2. /\ arrival = <<>> /\ events = <<>> /\ processed = {}
      /\ tenant = [status |-> "active", plan |-> "free", sub |-> Nothing]
      /\ marker = [s \in Session |-> "absent"]
  BY DEF SubscriptionsInit
<1>3. Arrived = {}
  BY <1>2 DEF Arrived
<1>4. EventsTyped
  BY <1>1, <1>2, <1>3, SubscriptionsAssumption DEF EventsTyped, TenantRow
<1> QED
  BY <1>1, <1>2, <1>3, <1>4 DEF EventsInv, EventJobsInv, LatestHolds

\* When every event has arrived and every job is through, the newest event of a
\* subscription has been applied, and nothing newer that says anything has.
LEMMA EventsInvImplies == EventsInv => NewestWins
<1> SUFFICES ASSUME EventsInv PROVE NewestWins
  OBVIOUS
<1>1. SubscriptionsTypeOK
  BY DEF EventsInv, EventsTyped, EventJobsInv, SubscriptionsTypeOK
<1>2. ASSUME Settled, ~raced, NEW n \in DOMAIN events, Newest(n) PROVE Reflects(events[n])
  <2>1. n \in Arrived
    <3>1. n \in 1 .. MaxEvents
      BY SubscriptionsAssumption DEF EventsInv, EventsTyped
    <3>2. EventJob(n) \in Job /\ phase[EventJob(n)] # "absent"
      BY <1>2, <3>1, EventJobAssumption DEF Settled
    <3>3. PICK k \in Arrived : EventJob(n) = EventJob(k)
      BY <3>2 DEF EventsInv, EventJobsInv
    <3> QED
      BY <3>3 DEF EventJob
  <2>2. Handled(n)
    BY <1>2, <2>1 DEF Settled, EventsInv, EventJobsInv
  <2>3. n \in processed /\ Latest(n)
    BY <1>2, <2>2 DEF Handled, Newest, Latest
  <2> QED
    BY <1>2, <2>3 DEF EventsInv, LatestHolds
<1> QED
  BY <1>1, <1>2 DEF NewestWins

----------------------------------------------------------------------------
(* Theorems.                                                               *)

\* What a behaviour exercises keeps its invariant, and what it does not
\* exercise stands still.
UsageInv == IF work.on = "usage" THEN MeteringInv ELSE MeteredOnce
HostedOnceInv == IF work.on = "renewals" THEN RenewalsInv ELSE ChargedOnce

NoEvents == SubscriptionsTypeOK /\ events = <<>> /\ processed = {}
ToldInv == IF work.on = "subscriptions" THEN EventsInv ELSE NoEvents

LEMMA UsageInvStep ==
    ASSUME UsageInv, [Next]_vars
    PROVE  UsageInv'
<1>1. CASE work.on = "usage" /\ UsageNext /\ work' = work
  BY <1>1, MeteringInvStep DEF UsageInv
<1>2. CASE work.on # "usage" /\ UNCHANGED meteringVars /\ work' = work
  BY <1>2 DEF UsageInv, MeteredOnce, meteringVars
<1>3. CASE UNCHANGED vars
  <2>1. CASE work.on = "usage"
    BY <1>3, <2>1, MeteringInvStep DEF UsageInv, vars
  <2>2. CASE work.on # "usage"
    BY <1>3, <2>2 DEF UsageInv, MeteredOnce, vars, meteringVars
  <2> QED
    BY <2>1, <2>2
<1> QED
  BY <1>1, <1>2, <1>3 DEF Next, RenewalsOnly, SubscriptionsOnly

LEMMA HostedOnceInvStep ==
    ASSUME HostedOnceInv, [Next]_vars
    PROVE  HostedOnceInv'
<1>1. CASE work.on = "renewals" /\ RenewalsNext /\ work' = work
  BY <1>1, RenewalsInvStep DEF HostedOnceInv
<1>2. CASE work.on # "renewals" /\ UNCHANGED renewalVars /\ work' = work
  BY <1>2 DEF HostedOnceInv, ChargedOnce, renewalVars
<1>3. CASE UNCHANGED vars
  <2>1. CASE work.on = "renewals"
    BY <1>3, <2>1, RenewalsInvStep DEF HostedOnceInv, vars
  <2>2. CASE work.on # "renewals"
    BY <1>3, <2>2 DEF HostedOnceInv, ChargedOnce, vars, renewalVars
  <2> QED
    BY <2>1, <2>2
<1> QED
  BY <1>1, <1>2, <1>3 DEF Next, UsageOnly, SubscriptionsOnly

LEMMA ToldInvInit == Init => ToldInv
<1> SUFFICES ASSUME Init PROVE ToldInv
  OBVIOUS
<1>1. EventsInv /\ events = <<>> /\ processed = {}
  BY EventsInvInit DEF Init, SubscriptionsInit
<1> QED
  BY <1>1, EventsInvImplies DEF ToldInv, NoEvents, NewestWins

LEMMA ToldInvStep ==
    ASSUME ToldInv, [Next]_vars
    PROVE  ToldInv'
<1>1. CASE work.on = "subscriptions" /\ work' = work
  <2>1. CASE SubscriptionsNext /\ SubscriptionsOnly
    BY <1>1, <2>1, EventsInvStep DEF ToldInv, SubscriptionsOnly, schedulerVars
  <2>2. CASE UNCHANGED vars
    BY <1>1, <2>2, EventsInvStep DEF ToldInv, vars, schedulerVars
  <2> QED
    BY <1>1, <2>1, <2>2 DEF Next
<1>2. CASE work.on # "subscriptions" /\ work' = work
  <2>1. UNCHANGED subscriptionVars
    BY <1>2 DEF Next, UsageOnly, RenewalsOnly, vars
  <2> QED
    BY <1>2, <2>1 DEF ToldInv, NoEvents, SubscriptionsTypeOK, subscriptionVars
<1> QED
  BY <1>1, <1>2 DEF Next, vars

\* No unit is billed twice: what the provider has taken is what it acknowledged,
\* or that and the segment in flight - report_org_usage, however many workers run
\* it, and whatever answers and leases they lose.
THEOREM UsageIsBilledOnce == Spec => []MeteredOnce
<1>1. Init => UsageInv
  BY MeteringInvInit, MeteringInvImplies DEF Init, UsageInv
<1>2. UsageInv /\ [Next]_vars => UsageInv'
  BY UsageInvStep
<1>3. UsageInv => MeteredOnce
  BY MeteringInvImplies DEF UsageInv
<1> QED
  BY <1>1, <1>2, <1>3, PTL DEF Spec

\* Nobody pays twice: a due date is charged once (charge_renewal), a hosted
\* payment is applied once and settled with it (confirm_redirect_payment) -
\* whatever answers are lost, jobs repeated and rows written back.
THEOREM DueDatesAreChargedOnce == Spec => []ChargedOnce
<1>1. Init => HostedOnceInv
  BY RenewalsInvInit, RenewalsInvImplies DEF Init, HostedOnceInv
<1>2. HostedOnceInv /\ [Next]_vars => HostedOnceInv'
  BY HostedOnceInvStep
<1>3. HostedOnceInv => ChargedOnce
  BY RenewalsInvImplies DEF HostedOnceInv
<1> QED
  BY <1>1, <1>2, <1>3, PTL DEF Spec

\* The newest event wins: when all events have arrived and their jobs are through,
\* the tenant is where the newest one leaves it, whichever executions failed, were
\* repeated or reported late - unless the row was written in a race
\* (apply_subscription_event and its job).
THEOREM NewestEventWins == Spec => []NewestWins
<1>1. Init => ToldInv
  BY ToldInvInit
<1>2. ToldInv /\ [Next]_vars => ToldInv'
  BY ToldInvStep
<1>3. ToldInv => NewestWins
  BY EventsInvImplies DEF ToldInv, NoEvents, NewestWins
<1> QED
  BY <1>1, <1>2, <1>3, PTL DEF Spec

\* No day is passed over (run_worker, enqueue_daily): once every worker takes the
\* day as done and nobody is in the sweep, its jobs are on the queue, for any
\* number of workers, and of sweeps that fail or die.
THEOREM EveryDayIsScheduled == Spec => []DayIsScheduled
<1> DEFINE DailyInv == work.on = "usage" => SweepInv(UsageKinds)
<1>1. Init => DailyInv
  BY SweepInit DEF Init, LoopInit
<1>2. DailyInv /\ [Next]_vars => DailyInv'
  <2> SUFFICES ASSUME DailyInv, [Next]_vars PROVE DailyInv'
    OBVIOUS
  <2>1. CASE work.on # "usage" /\ work' = work
    BY <2>1
  <2>2. CASE work.on = "usage" /\ work' = work /\ SchedulerNext(UsageKinds)
    BY <2>2, SweepSteps
  <2>3. CASE work.on = "usage" /\ work' = work /\ UNCHANGED <<phase, schedulerVars>>
    BY <2>3, SweepStays DEF JobsStay, SweepInv
  <2>4. ASSUME NEW w \in Worker, Freeze(w) \/ CallProvider(w) \/ Acknowledge(w)
        PROVE  UNCHANGED <<phase, schedulerVars>>
    BY <2>4 DEF Freeze, CallProvider, Acknowledge, queueVars
  <2> QED
    BY <2>1, <2>2, <2>3, <2>4 DEF Next, UsageNext, vars, Use, workerVars
<1>3. DailyInv => DayIsScheduled
  BY DEF SweepInv, DayIsScheduled
<1> QED
  BY <1>1, <1>2, <1>3, PTL DEF Spec
=============================================================================
