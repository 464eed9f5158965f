--------------------------- MODULE BackgroundProofs ---------------------------
(***************************************************************************)
(* TLAPS proofs about the work that goes on behind the requests, for any   *)
(* workers, clients, rows and faults.  Mails: those of rules and of        *)
(* invoices implement SendOnce, so the relay accepts a mail at most once.  *)
(* Rows: an event has one delivery, which is not lost; the row of a run    *)
(* tells what its children are; an invoice is stamped sent once.           *)
(* Captures: a capture shows the result of one attempt, published and      *)
(* saved once, and no correction is dropped in silence.  What waits has a  *)
(* job that will look at it.                                               *)
(***************************************************************************)
EXTENDS Background, FiniteSetTheorems, TLAPS

----------------------------------------------------------------------------
(* Executions and jobs.                                                    *)

ExecInv ==
    /\ exec = [w \in Worker |-> exec[w]]
    /\ \A w \in Worker : exec[w] # NoExec =>
         exec[w] = [job |-> exec[w].job, at |-> exec[w].at] /\ exec[w].job \in Job

\* A mail whose jobs may run: its run is stored, its attachment frozen.
InUse(m) ==
    /\ work = "rules" => run[m[1]] # NoRun
    /\ work = "mails" => m \in attached

JobInv ==
    /\ phase = [j \in Job |-> phase[j]]
    /\ \A j \in Job : j[1] = "mail" /\ phase[j] # "absent" => InUse(j[2])
    /\ \A w \in Worker : exec[w] # NoExec /\ exec[w].job[1] = "mail" => InUse(MailOf(w))

----------------------------------------------------------------------------
(* The mails.                                                              *)

\* The worker may have the mail with the relay, or knows what became of it.
Holding(w) == exec[w] # NoExec /\ exec[w].at \in {"smtp", "accepted", "uncertain"}

Closed == {"sending", "unknown", "sent"}

\* At most one holder or thread per mail; it comes with the committed "sending".
MailInv ==
    /\ msg \in [Msg -> MailStatus]
    /\ sends \in [Msg -> {0, 1}]
    /\ adrift \subseteq Msg
    /\ \A m \in Msg : msg[m] \notin Closed => sends[m] = 0
    /\ \A m \in Msg : msg[m] = "sent" => sends[m] = 1
    /\ \A m \in adrift : msg[m] \in {"sending", "unknown"} /\ sends[m] = 0
    /\ \A w \in Worker : Holding(w) =>
         /\ MailOf(w) \in Msg \ adrift
         /\ msg[MailOf(w)] \in {"sending", "unknown"}
         /\ At(w, "smtp") => sends[MailOf(w)] = 0
         /\ At(w, "accepted") => sends[MailOf(w)] = 1
    /\ \A v, w \in Worker : Holding(v) /\ Holding(w) /\ MailOf(v) = MailOf(w) => v = w

----------------------------------------------------------------------------
(* The transactions: what they store is still a move from what is stored. *)

\* A handler's first transaction on a mail.
TakesUp(old, new, next) ==
    \/ old = "queued" /\ new = "sending" /\ next = "smtp"
    \/ /\ next \in {"done", "refused"}
       /\ \/ new = old
          \/ old = "queued" /\ new \in {"blocked", "failed"}
          \/ old = "sending" /\ new = "unknown"

\* A worker's transaction stores status new of its mail.
WorkerWrites(w, new, next) ==
    \/ At(w, "begin") /\ TakesUp(msg[MailOf(w)], new, next)
    \/ (At(w, "accepted") \/ At(w, "uncertain")) /\ new = Outcome(w) /\ next = "done"

\* A client's transaction (re)opens a mail that was never out, or leaves it.
ClientWrites(old, new) ==
    \/ new = old
    \/ old \notin Closed /\ new \in {"queued", "blocked"}

RunMails(r) == {RunMail(r, i) : i \in Index}

RunTx(a) ==
    LET t == tx[a] IN
    /\ t.run \in Run
    /\ t.op \in {"sweep", "retry", "deliver", "report"}
    /\ t.new \in RunRow(firing.mails)
    /\ t.msgs \in [RunMails(t.run) -> MailStatus]
    /\ \A j \in t.jobs : j[1] = "mail" /\ j[2] \in RunMails(t.run)
    /\ IF t.op = "sweep" THEN run[t.run] = NoRun ELSE run[t.run] # NoRun /\ t.run \in t.locks
    /\ t.op = "sweep" => Rule \in t.locks
    /\ IF t.op \in {"sweep", "retry"}
         THEN /\ a \in Client
              /\ \A m \in RunMails(t.run) : ClientWrites(msg[m], t.msgs[m])
         ELSE /\ a \in Worker /\ exec[a] # NoExec /\ MailOf(a) \in RunMails(t.run)
              /\ \A m \in RunMails(t.run) \ {MailOf(a)} : t.msgs[m] = msg[m]
              /\ WorkerWrites(a, t.msgs[MailOf(a)], t.next)

RulesInv ==
    /\ firing \in Firings
    /\ run \in [Run -> RunRow(firing.mails) \cup {NoRun}]
    /\ \A a \in Actor : tx[a] # NoTx => RunTx(a)
    /\ \A a, b \in Actor :
         tx[a] # NoTx /\ tx[b] # NoTx /\ tx[a].run = tx[b].run => a = b

MailTx(a) ==
    LET t == tx[a] IN
    /\ t.mail \in InvMsg
    /\ t.status \in MailStatus
    /\ t.op \in {"send", "delivery", "outcome"}
    /\ IF t.op = "send"
         THEN /\ a \in Client
              /\ Invoice \in t.locks /\ t.mail \notin attached
              /\ ClientWrites(msg[t.mail], t.status) /\ t.status # "absent"
              /\ \A j \in t.jobs : j[1] = "mail" /\ j[2] = t.mail
         ELSE /\ a \in Worker /\ exec[a] # NoExec /\ MailOf(a) = t.mail
              /\ t.mail \in t.locks /\ t.mail \in attached
              /\ WorkerWrites(a, t.status, t.next)
              /\ t.jobs = {}

MailsInv ==
    /\ \A m \in attached : msg[m] # "absent"
    /\ \A a \in Actor : tx[a] # NoTx => MailTx(a)
    /\ \A a, b \in Actor :
         tx[a] # NoTx /\ tx[b] # NoTx /\ tx[a].mail = tx[b].mail => a = b

HolderInv ==
    /\ tx = [a \in Actor |-> tx[a]]
    /\ \A w \in Worker : tx[w] # NoTx => exec[w] # NoExec

OutboxInv ==
    /\ ExecInv /\ JobInv /\ MailInv /\ HolderInv
    /\ work = "rules" => RulesInv
    /\ work = "mails" => MailsInv

----------------------------------------------------------------------------
(* Steps on the mails.                                                     *)

promiseVars == <<[m \in Msg |-> Stage(m)], sends>>

LEMMA InvInit == Init => OutboxInv /\ Promise!Init
<1> SUFFICES ASSUME Init PROVE OutboxInv /\ Promise!Init
  OBVIOUS
<1>1. ExecInv /\ JobInv /\ MailInv /\ HolderInv
  BY DEF Init, WorkerInit, Queue!Init, OutboxInit, ExecInv, JobInv, MailInv, MailStatus, Closed,
         Holding, HolderInv, Actor
<1>2. RulesInv
  BY DEF Init, WorkerInit, AutomationInit, RulesInv
<1>3. MailsInv
  BY DEF Init, WorkerInit, InvoiceMailInit, MailsInv
<1>4. Promise!Init
  BY DEF Init, OutboxInit, Promise!Init, Stage
<1> QED
  BY <1>1, <1>2, <1>3, <1>4 DEF OutboxInv

\* Nobody takes up a mail or moves on with one.
LEMMA QuietMails ==
    ASSUME MailInv, UNCHANGED <<msg, sends, adrift>>,
           \A w \in Worker : Holding(w)' => exec'[w] = exec[w]
    PROVE  MailInv' /\ UNCHANGED promiseVars
<1>1. MailInv'
  BY DEF MailInv, Holding, MailOf, At
<1>2. UNCHANGED promiseVars
  BY DEF promiseVars, Stage
<1> QED
  BY <1>1, <1>2

\* A client's transaction commits.
LEMMA ClientMails ==
    ASSUME MailInv, UNCHANGED <<exec, sends, adrift>>, msg' \in [Msg -> MailStatus],
           \A m \in Msg : ClientWrites(msg[m], msg'[m])
    PROVE  MailInv' /\ UNCHANGED promiseVars
<1>1. \A m \in Msg : msg[m] \in Closed => msg'[m] = msg[m]
  BY DEF ClientWrites
<1>2. \A m \in Msg : msg[m] \notin Closed => msg'[m] \notin Closed
  BY DEF ClientWrites, Closed
<1>3. MailInv'
  BY <1>1, <1>2 DEF MailInv, Holding, MailOf, At, Closed
<1>4. \A m \in Msg : Stage(m)' = Stage(m)
  BY <1>1, <1>2 DEF Stage, Closed
<1> QED
  BY <1>3, <1>4 DEF promiseVars

\* A worker's transaction commits.
LEMMA WorkerMails ==
    ASSUME ExecInv, MailInv, NEW w \in Worker, NEW m \in Msg, MailOf(w) = m, exec[w] # NoExec,
           NEW next, Goto(w, next), UNCHANGED <<sends, adrift>>, msg' \in [Msg -> MailStatus],
           \A x \in Msg : x # m => msg'[x] = msg[x], WorkerWrites(w, msg'[m], next)
    PROVE  MailInv' /\ [Promise!Next]_promiseVars
<1>1. /\ exec'[w] = [job |-> exec[w].job, at |-> next]
      /\ \A v \in Worker : v # w => exec'[v] = exec[v]
  BY DEF ExecInv, Goto
<1>2. \A x \in Msg : x # m => Stage(x)' = Stage(x)
  BY DEF Stage
<1>3. CASE At(w, "begin") /\ msg[m] = "queued" /\ msg'[m] = "sending" /\ next = "smtp"
  <2>1. MailInv'
    BY <1>1, <1>3 DEF MailInv, Holding, MailOf, At, Closed
  <2>2. Stage(m) = "open" /\ Stage(m)' = "committed"
    BY <1>3 DEF Stage
  <2>3. Promise!Commit(m)
    BY <1>2, <2>2 DEF Promise!Commit
  <2> QED
    BY <2>1, <2>3 DEF Promise!Next
<1>4. CASE /\ At(w, "begin") /\ next \in {"done", "refused"}
           /\ \/ msg'[m] = msg[m]
              \/ msg[m] = "queued" /\ msg'[m] \in {"blocked", "failed"}
              \/ msg[m] = "sending" /\ msg'[m] = "unknown"
  <2>1. MailInv'
    BY <1>1, <1>4 DEF MailInv, Holding, MailOf, At, Closed
  <2>2. Stage(m)' = Stage(m) \/ (Stage(m) = "committed" /\ Stage(m)' = "uncertain")
    BY <1>4 DEF Stage
  <2>3. UNCHANGED promiseVars \/ Promise!GiveUp(m)
    BY <1>2, <2>2 DEF Promise!GiveUp, promiseVars
  <2> QED
    BY <2>1, <2>3 DEF Promise!Next
<1>5. CASE (At(w, "accepted") \/ At(w, "uncertain")) /\ msg'[m] = Outcome(w) /\ next = "done"
  <2>1. /\ Holding(w) /\ msg[m] \in {"sending", "unknown"}
        /\ Outcome(w) = "sent" => sends[m] = 1
        /\ Outcome(w) \in {"sent", "unknown"}
    BY <1>5 DEF MailInv, Holding, At, Outcome
  <2>2. MailInv'
    BY <1>1, <1>5, <2>1 DEF MailInv, Holding, MailOf, At, Closed
  <2>3. CASE Outcome(w) = "sent"
    <3>1. Stage(m) \in {"committed", "uncertain"} /\ Stage(m)' = "sent"
      BY <1>5, <2>1, <2>3 DEF Stage
    <3>2. Promise!Confirm(m)
      BY <1>2, <2>1, <2>3, <3>1 DEF Promise!Confirm
    <3> QED
      BY <2>2, <3>2 DEF Promise!Next
  <2>4. CASE Outcome(w) = "unknown"
    <3>1. Stage(m) \in {"committed", "uncertain"} /\ Stage(m)' = "uncertain"
      BY <1>5, <2>1, <2>4 DEF Stage
    <3>2. UNCHANGED promiseVars \/ Promise!GiveUp(m)
      BY <1>2, <3>1 DEF Promise!GiveUp, promiseVars
    <3> QED
      BY <2>2, <3>2 DEF Promise!Next
  <2> QED
    BY <2>1, <2>3, <2>4
<1> QED
  BY <1>3, <1>4, <1>5 DEF WorkerWrites, TakesUp

----------------------------------------------------------------------------
(* Steps around the handlers.                                              *)

\* Every transaction that stays open stays as it is, and so does the handler of
\* a mail that has one.
Steady ==
    /\ tx' = [a \in Actor |-> tx'[a]]
    /\ \A a \in Actor : tx'[a] # NoTx =>
         /\ tx'[a] = tx[a]
         /\ a \in Worker => exec'[a] # NoExec
         /\ a \in Worker /\ work \in {"rules", "mails"} => exec'[a] = exec[a]

\* Nothing of a rule or an invoice is stored, and nothing is taken back.
Unwritten ==
    /\ UNCHANGED <<work, msg>>
    /\ work = "rules" => UNCHANGED <<run, firing>>
    /\ work = "mails" => UNCHANGED attached

LEMMA SteadyTx ==
    ASSUME OutboxInv, Steady, Unwritten
    PROVE  HolderInv' /\ (work = "rules" => RulesInv') /\ (work = "mails" => MailsInv')
<1>1. ASSUME work = "rules" PROVE RulesInv'
  <2>1. RulesInv /\ UNCHANGED <<run, firing, msg>>
    BY <1>1 DEF OutboxInv, Unwritten
  <2>2. ASSUME NEW a \in Actor, tx'[a] # NoTx PROVE RunTx(a)'
    <3>1. tx'[a] = tx[a] /\ RunTx(a) /\ (a \in Worker => exec'[a] = exec[a])
      BY <1>1, <2>1, <2>2 DEF Steady, RulesInv
    <3> QED
      BY <2>1, <3>1 DEF RunTx, RunMails, Index, WorkerWrites, MailOf, At, Outcome
  <2> QED
    BY <2>1, <2>2 DEF RulesInv, Steady
<1>2. ASSUME work = "mails" PROVE MailsInv'
  <2>1. MailsInv /\ UNCHANGED <<attached, msg>>
    BY <1>2 DEF OutboxInv, Unwritten
  <2>2. ASSUME NEW a \in Actor, tx'[a] # NoTx PROVE MailTx(a)'
    <3>1. tx'[a] = tx[a] /\ MailTx(a) /\ (a \in Worker => exec'[a] = exec[a])
      BY <1>2, <2>1, <2>2 DEF Steady, MailsInv
    <3> QED
      BY <2>1, <3>1 DEF MailTx, WorkerWrites, MailOf, At, Outcome
  <2> QED
    BY <2>1, <2>2 DEF MailsInv, Steady
<1>3. HolderInv'
  BY DEF HolderInv, Steady, Actor
<1> QED
  BY <1>1, <1>2, <1>3

\* Jobs are queued and worked at as before.
LEMMA SameJobs ==
    ASSUME JobInv, Unwritten,
           phase' = [j \in Job |-> phase'[j]],
           \A j \in Job : phase'[j] # "absent" => phase[j] # "absent" \/ (j[1] = "mail" => InUse(j[2])),
           \A w \in Worker : exec'[w] # NoExec =>
              \/ exec[w] # NoExec /\ exec'[w].job = exec[w].job
              \/ exec'[w].job \in Job /\ phase[exec'[w].job] # "absent"
    PROVE  JobInv'
<1>1. \A m : InUse(m) => InUse(m)'
  BY DEF InUse, Unwritten
<1> QED
  BY <1>1 DEF JobInv, MailOf

\* What a step of a handler, the queue or the relay does to the executions.
Moves(w, step) ==
    /\ exec[w] # NoExec
    /\ Goto(w, step)

LEMMA MoveExec ==
    ASSUME ExecInv, NEW w \in Worker, NEW step \in Step, Moves(w, step)
    PROVE  /\ ExecInv' /\ exec'[w] # NoExec
           /\ exec'[w] = [job |-> exec[w].job, at |-> step]
           /\ \A v \in Worker : v # w => exec'[v] = exec[v]
BY ActorAssumption DEF ExecInv, Moves, Goto

\* An execution moves on without a transaction, and without a mail.
LEMMA MoveStep ==
    ASSUME OutboxInv, NEW w \in Worker, NEW step \in Step, Moves(w, step),
           work \notin {"rules", "mails"} \/ tx[w] = NoTx,
           step \notin {"smtp", "accepted", "uncertain"},
           UNCHANGED <<phase, tx, sends, adrift>>, Unwritten
    PROVE  OutboxInv' /\ UNCHANGED promiseVars
<1>1. /\ ExecInv' /\ exec'[w] # NoExec
      /\ exec'[w] = [job |-> exec[w].job, at |-> step]
      /\ \A v \in Worker : v # w => exec'[v] = exec[v]
  BY MoveExec DEF OutboxInv
<1>2. Steady
  BY <1>1 DEF Steady, OutboxInv, HolderInv, Moves, Actor, ExecInv
<1>3. JobInv'
  BY <1>1, SameJobs DEF OutboxInv, JobInv, Moves
<1>4. MailInv' /\ UNCHANGED promiseVars
  BY <1>1, QuietMails DEF OutboxInv, Holding, Unwritten
<1> QED
  BY <1>1, <1>2, <1>3, <1>4, SteadyTx DEF OutboxInv, Steady, Unwritten

\* An execution ends, and its transaction is over; the queue may hear of it.
LEMMA StopMails ==
    ASSUME OutboxInv, NEW w \in Worker, exec[w] # NoExec, Stop(w), Unwritten,
           phase' = phase \/ \E status : phase' = [phase EXCEPT ![exec[w].job] = status]
    PROVE  /\ ExecInv' /\ JobInv' /\ Steady
           /\ exec'[w] = NoExec
           /\ \A v \in Worker : v # w => exec'[v] = exec[v]
<1>1. /\ exec' = [exec EXCEPT ![w] = NoExec]
      /\ tx' = [tx EXCEPT ![w] = NoTx]
  BY DEF Stop, Close
<1>2. ExecInv' /\ exec'[w] = NoExec /\ \A v \in Worker : v # w => exec'[v] = exec[v]
  BY <1>1 DEF OutboxInv, ExecInv
<1>3. Steady
  BY <1>1, <1>2 DEF Steady, OutboxInv, HolderInv, Actor
<1>4. exec[w].job \in Job /\ (exec[w].job[1] = "mail" => InUse(exec[w].job[2]))
  BY DEF OutboxInv, ExecInv, JobInv, MailOf
<1>5. /\ phase' = [j \in Job |-> phase'[j]]
      /\ \A j \in Job : j # exec[w].job => phase'[j] = phase[j]
  BY <1>4 DEF OutboxInv, JobInv
<1>6. JobInv'
  BY <1>2, <1>4, <1>5, SameJobs DEF OutboxInv
<1> QED
  BY <1>2, <1>3, <1>6

LEMMA StopStep ==
    ASSUME OutboxInv, NEW w \in Worker, exec[w] # NoExec, Stop(w), Unwritten,
           phase' = phase \/ \E status : phase' = [phase EXCEPT ![exec[w].job] = status],
           UNCHANGED <<sends, adrift>>
    PROVE  OutboxInv' /\ UNCHANGED promiseVars
<1>1. /\ ExecInv' /\ JobInv' /\ Steady
      /\ exec'[w] = NoExec
      /\ \A v \in Worker : v # w => exec'[v] = exec[v]
  BY StopMails
<1>2. MailInv' /\ UNCHANGED promiseVars
  BY <1>1, QuietMails DEF OutboxInv, Holding, Unwritten
<1> QED
  BY <1>1, <1>2, SteadyTx DEF OutboxInv, Steady, Unwritten

\* A handler is cancelled: the thread it leaves behind keeps the mail.
LEMMA BreakStep ==
    ASSUME OutboxInv, NEW w \in Worker, Break(w), Unwritten
    PROVE  OutboxInv' /\ UNCHANGED promiseVars
<1>1. exec[w] # NoExec /\ Stop(w) /\ UNCHANGED sends
      /\ \E status : phase' = [phase EXCEPT ![exec[w].job] = status]
  BY DEF Break, Raise, Report
<1>2. /\ ExecInv' /\ JobInv' /\ Steady
      /\ exec'[w] = NoExec
      /\ \A v \in Worker : v # w => exec'[v] = exec[v]
  BY <1>1, StopMails
<1>3. MailInv'
  <2>1. CASE At(w, "smtp")
    <3>1. adrift' = adrift \cup {MailOf(w)} /\ Holding(w)
      BY <2>1 DEF Break, Holding, At
    <3> QED
      BY <1>1, <1>2, <2>1, <3>1 DEF OutboxInv, MailInv, Unwritten, Holding, MailOf, At
  <2>2. CASE ~At(w, "smtp")
    <3>1. adrift' = adrift
      BY <2>2 DEF Break
    <3> QED
      BY <1>1, <1>2, <3>1, QuietMails DEF OutboxInv, Unwritten, Holding
  <2> QED
    BY <2>1, <2>2
<1>4. UNCHANGED promiseVars
  BY <1>1 DEF promiseVars, Stage, Unwritten
<1> QED
  BY <1>2, <1>3, <1>4, SteadyTx DEF OutboxInv, Steady, Unwritten

\* The relay answers, or does not.
LEMMA RelayStep ==
    ASSUME OutboxInv, NEW w \in Worker, SmtpAccept(w) \/ SmtpError(w), Unwritten
    PROVE  OutboxInv' /\ [Promise!Next]_promiseVars
<1> DEFINE m == MailOf(w)
<1>1. PICK step \in {"accepted", "uncertain"} :
         /\ Moves(w, step)
         /\ \/ sends' = [sends EXCEPT ![m] = @ + 1]
            \/ step = "uncertain" /\ sends' = sends
  BY DEF SmtpAccept, SmtpError, Moves, At, Accepted, mailVars
<1>2. /\ ExecInv' /\ exec'[w] # NoExec
      /\ exec'[w] = [job |-> exec[w].job, at |-> step]
      /\ \A v \in Worker : v # w => exec'[v] = exec[v]
  <2>1. step \in Step
    BY DEF Step
  <2> QED
    BY <1>1, <2>1, MoveExec DEF OutboxInv
<1>3. At(w, "smtp") /\ Holding(w) /\ UNCHANGED <<tx, phase, adrift>>
  BY DEF SmtpAccept, SmtpError, Holding, At, queueVars, mailVars
<1>4. m \in Msg /\ sends[m] = 0 /\ msg[m] \in {"sending", "unknown"}
  BY <1>3 DEF OutboxInv, MailInv
<1>5. work \in {"rules", "mails"} => tx[w] = NoTx
  <2>1. ASSUME work = "rules", tx[w] # NoTx PROVE FALSE
    <3>1. RunTx(w) /\ w \notin Client
      BY <2>1, ActorAssumption DEF OutboxInv, RulesInv, Actor
    <3> QED
      BY <1>3, <3>1 DEF RunTx, WorkerWrites, At
  <2>2. ASSUME work = "mails", tx[w] # NoTx PROVE FALSE
    <3>1. MailTx(w) /\ w \notin Client
      BY <2>2, ActorAssumption DEF OutboxInv, MailsInv, Actor
    <3> QED
      BY <1>3, <3>1 DEF MailTx, WorkerWrites, At
  <2> QED
    BY <2>1, <2>2
<1>6. Steady
  BY <1>2, <1>3, <1>5 DEF Steady, OutboxInv, HolderInv, Actor, ExecInv
<1>7. JobInv'
  BY <1>2, <1>3, SameJobs DEF OutboxInv, JobInv, Holding
<1>8. CASE sends' = [sends EXCEPT ![m] = @ + 1]
  <2>1. sends' = [sends EXCEPT ![m] = 1]
    BY <1>4, <1>8 DEF OutboxInv, MailInv
  <2>2. MailInv'
    BY <1>1, <1>2, <1>3, <1>4, <2>1
       DEF OutboxInv, MailInv, Unwritten, Holding, MailOf, At, Closed
  <2>3. Promise!Accept(m)
    <3>1. Stage(m) \in {"committed", "uncertain"}
      BY <1>4 DEF Stage
    <3>2. \A x \in Msg : Stage(x)' = Stage(x)
      BY DEF Stage, Unwritten
    <3> QED
      BY <1>4, <2>1, <3>1, <3>2 DEF Promise!Accept
  <2> QED
    BY <1>2, <1>4, <1>6, <1>7, <2>2, <2>3, SteadyTx DEF OutboxInv, Unwritten, Promise!Next
<1>9. CASE step = "uncertain" /\ sends' = sends
  <2>1. MailInv'
    BY <1>1, <1>2, <1>3, <1>4, <1>9
       DEF OutboxInv, MailInv, Unwritten, Holding, MailOf, At, Closed
  <2>2. UNCHANGED promiseVars
    BY <1>9 DEF promiseVars, Stage, Unwritten
  <2> QED
    BY <1>2, <1>6, <1>7, <2>1, <2>2, SteadyTx DEF OutboxInv, Unwritten
<1> QED
  BY <1>1, <1>8, <1>9

\* The thread of a cancelled handler gets through, or does not.
LEMMA LandStep ==
    ASSUME OutboxInv, NEW m \in Msg, Land(m), Unwritten
    PROVE  OutboxInv' /\ [Promise!Next]_promiseVars
<1>1. /\ m \in adrift /\ adrift' = adrift \ {m}
      /\ UNCHANGED <<exec, tx, phase>>
      /\ sends' = [sends EXCEPT ![m] = @ + 1] \/ sends' = sends
  BY DEF Land, workerVars, Accepted
<1>2. sends[m] = 0 /\ msg[m] \in {"sending", "unknown"}
  BY <1>1 DEF OutboxInv, MailInv
<1>3. ExecInv' /\ JobInv' /\ Steady
  BY <1>1, SameJobs DEF OutboxInv, ExecInv, JobInv, Steady, HolderInv, Actor
<1>4. sends' = [sends EXCEPT ![m] = 1] \/ sends' = sends
  BY <1>1, <1>2 DEF OutboxInv, MailInv
<1>5. MailInv'
  BY <1>1, <1>2, <1>4 DEF OutboxInv, MailInv, Unwritten, Holding, MailOf, At, Closed
<1>6. Promise!Accept(m) \/ UNCHANGED promiseVars
  <2>1. Stage(m) \in {"committed", "uncertain"}
    BY <1>2 DEF Stage
  <2>2. \A x \in Msg : Stage(x)' = Stage(x)
    BY DEF Stage, Unwritten
  <2> QED
    BY <1>2, <1>4, <2>1, <2>2 DEF Promise!Accept, promiseVars
<1> QED
  BY <1>3, <1>5, <1>6, SteadyTx DEF OutboxInv, Unwritten, Promise!Next

\* A worker takes up a job.
LEMMA TakeStep ==
    ASSUME OutboxInv, NEW w \in Worker, NEW j \in Job, Take(w, j), UNCHANGED mailVars, Unwritten
    PROVE  OutboxInv' /\ UNCHANGED promiseVars
<1>1. /\ exec' = [exec EXCEPT ![w] = [job |-> j, at |-> "begin"]]
      /\ exec[w] = NoExec /\ tx' = tx
      /\ phase[j] = "queued" /\ phase' = [phase EXCEPT ![j] = "running"]
  BY DEF Take, Queue!Start
<1>2. /\ ExecInv' /\ exec'[w] = [job |-> j, at |-> "begin"] /\ exec'[w] # NoExec
      /\ \A v \in Worker : v # w => exec'[v] = exec[v]
  <2>1. [job |-> j, at |-> "begin"] \in [job : Job, at : Step]
    BY DEF Step
  <2> QED
    BY <1>1, <2>1, ActorAssumption DEF OutboxInv, ExecInv
<1>3. JobInv'
  <2>1. /\ phase' = [i \in Job |-> phase'[i]]
        /\ \A i \in Job : phase'[i] # "absent" => phase[i] # "absent"
    BY <1>1 DEF OutboxInv, JobInv
  <2>2. ASSUME NEW v \in Worker, exec'[v] # NoExec
        PROVE  \/ exec[v] # NoExec /\ exec'[v].job = exec[v].job
               \/ exec'[v].job \in Job /\ phase[exec'[v].job] # "absent"
    <3>1. CASE v = w
      BY <1>1, <1>2, <3>1
    <3>2. CASE v # w
      BY <1>2, <2>2, <3>2
    <3> QED
      BY <3>1, <3>2
  <2> QED
    BY <2>1, <2>2, SameJobs DEF OutboxInv
<1>4. Steady
  BY <1>1, <1>2 DEF Steady, OutboxInv, HolderInv, Actor
<1>5. MailInv' /\ UNCHANGED promiseVars
  BY <1>2, QuietMails DEF OutboxInv, Holding, mailVars
<1> QED
  BY <1>2, <1>3, <1>4, <1>5, SteadyTx DEF OutboxInv, Unwritten

\* The queue takes a job away from a worker, recovers or revives one.
LEMMA QueueStep ==
    ASSUME OutboxInv, UNCHANGED <<exec, tx>>, UNCHANGED <<sends, adrift>>, Unwritten,
           phase' = [j \in Job |-> phase'[j]],
           \A j \in Job : phase[j] = "absent" => phase'[j] = "absent"
    PROVE  OutboxInv' /\ UNCHANGED promiseVars
<1>1. ExecInv' /\ JobInv' /\ Steady
  BY SameJobs DEF OutboxInv, ExecInv, JobInv, Steady, HolderInv, Actor
<1>2. MailInv' /\ UNCHANGED promiseVars
  BY QuietMails DEF OutboxInv, Unwritten
<1> QED
  BY <1>1, <1>2, SteadyTx DEF OutboxInv, Unwritten

LEMMA SurroundingsStep ==
    ASSUME OutboxInv, Surroundings, UNCHANGED handlerVars
    PROVE  OutboxInv' /\ [Promise!Next]_promiseVars
<1>1. UNCHANGED <<work, run, firing, attached>>
  BY DEF handlerVars, automationVars, invoiceMailVars
<1>2. UNCHANGED msg
  BY DEF Surroundings, mailVars, SmtpAccept, SmtpError, Break, Land, Toggle
<1>3. Unwritten
  BY <1>1, <1>2 DEF Unwritten
<1>4. ASSUME NEW w \in Worker, SmtpAccept(w) \/ SmtpError(w) \/ Break(w)
      PROVE  OutboxInv' /\ [Promise!Next]_promiseVars
  BY <1>3, <1>4, RelayStep, BreakStep
<1>5. ASSUME NEW m \in Msg, Land(m) PROVE OutboxInv' /\ [Promise!Next]_promiseVars
  BY <1>3, <1>5, LandStep
<1>6. ASSUME NEW w \in Worker, UNCHANGED mailVars, Finish(w) \/ Refuse(w) \/ Crash(w)
      PROVE  OutboxInv' /\ [Promise!Next]_promiseVars
  <2>1. Stop(w) /\ exec[w] # NoExec
    BY <1>6 DEF Finish, Refuse, Crash, Raise, At
  <2>2. phase' = phase \/ \E status : phase' = [phase EXCEPT ![exec[w].job] = status]
    BY <1>6 DEF Finish, Refuse, Crash, Raise, Report, Queue!Abandon, queueVars
  <2> QED
    BY <1>3, <1>6, <2>1, <2>2, StopStep DEF mailVars
<1>7. ASSUME NEW w \in Worker, NEW j \in Job, Take(w, j), UNCHANGED mailVars
      PROVE  OutboxInv' /\ [Promise!Next]_promiseVars
  BY <1>3, <1>7, TakeStep
<1>8. ASSUME NEW j \in Job, Reclaim(j) \/ Revive(j), UNCHANGED mailVars
      PROVE  OutboxInv' /\ [Promise!Next]_promiseVars
  <2>1. UNCHANGED <<exec, tx>> /\ UNCHANGED <<sends, adrift>>
    BY <1>8 DEF Reclaim, Revive, mailVars
  <2>2. /\ \A i \in Job : phase[i] = "absent" => phase'[i] = "absent"
        /\ phase' = [i \in Job |-> phase'[i]]
    BY <1>8 DEF Reclaim, Revive, Queue!Recover, Queue!Retry, OutboxInv, JobInv
  <2> QED
    BY <1>3, <2>1, <2>2, QueueStep
<1>9. ASSUME (\E w \in Worker : LoseLease(w) /\ UNCHANGED mailVars) \/ Toggle
      PROVE  OutboxInv' /\ [Promise!Next]_promiseVars
  <2>1. UNCHANGED <<exec, tx>> /\ UNCHANGED <<sends, adrift>> /\ phase' = phase
    BY <1>9 DEF LoseLease, Queue!Abandon, Toggle, mailVars, queueVars
  <2> QED
    BY <1>3, <2>1, QueueStep DEF OutboxInv, JobInv
<1> QED
  BY <1>4, <1>5, <1>6, <1>7, <1>8, <1>9 DEF Surroundings, Serve, Repair, Trouble

----------------------------------------------------------------------------
(* Rules.                                                                  *)

LEMMA RunMailsKnown ==
    ASSUME firing \in Firings, NEW r \in Run
    PROVE  /\ firing.mails \in Nat /\ Index = 1 .. firing.mails /\ NoRun \notin RunRow(firing.mails)
           /\ RunMails(r) \subseteq Msg
           /\ \A m \in RunMails(r) : m[1] = r /\ m[2] \in Index /\ m = RunMail(r, m[2])
BY HandlerAssumption DEF Index, RunMails, RunMail

LEMMA SavedRow ==
    ASSUME firing \in Firings, NEW mails \in [Index -> MailStatus],
           NEW note \in {"none", "done", "blocked"}, NEW gen \in [Index -> Nat]
    PROVE  Saved(mails, note, gen) \in RunRow(firing.mails)
<1> DEFINE mirrored == [i \in DOMAIN mails |-> Mirror(mails[i])]
<1>1. mirrored \in [Index -> MailStatus \cup {"done"}]
  BY DEF Mirror
<1>2. State(Children(mirrored, note)) \in {"pending", "blocked", "unknown", "ok"}
  BY DEF State
<1> QED
  BY <1>1, <1>2 DEF Saved, RunRow, Index

LEMMA PerformedWrites ==
    ASSUME firing \in Firings, msg \in [Msg -> MailStatus], NEW r \in Run,
           NEW op, NEW locks, NEW note \in {"planned", "none", "done", "blocked"},
           NEW gen \in [Index -> Nat], NEW t \in Performed(op, locks, r, note, gen)
    PROVE  /\ t.op = op /\ t.locks = locks /\ t.run = r
           /\ t.new \in RunRow(firing.mails)
           /\ t.msgs \in [RunMails(r) -> MailStatus]
           /\ \A j \in t.jobs : j[1] = "mail" /\ j[2] \in RunMails(r)
           /\ \A m \in RunMails(r) : ClientWrites(msg[m], t.msgs[m])
<1> DEFINE p == Prepared(r, gen)
           mails == [i \in Index |-> p[i].status]
           gens == [i \in Index |-> p[i].gen]
<1>1. PICK outcome \in NoteOutcomes(note) :
         t = Write(op, locks, r, Saved(mails, outcome, gens), mails,
                   UNION {p[i].job : i \in Index},
                   IF note # "done" /\ outcome = "done" THEN 1 ELSE 0, "done")
  BY DEF Performed
<1>2. ASSUME NEW i \in Index
      PROVE  /\ p[i].gen \in Nat
             /\ ClientWrites(msg[RunMail(r, i)], p[i].status)
             /\ p[i].status \in MailStatus
             /\ \A j \in p[i].job : j[1] = "mail" /\ j[2] = RunMail(r, i)
  <2>1. RunMail(r, i) \in Msg
    BY RunMailsKnown DEF RunMails
  <2>2. CASE Underway(r, i, gen[i])
    BY <2>1, <2>2 DEF Prepared, ClientWrites
  <2>3. CASE ~Underway(r, i, gen[i])
    <3>1. Generation(r, i, gen[i]) \in Nat
      BY DEF Generation
    <3>2. msg[RunMail(r, i)] \notin Closed
      BY <2>3 DEF Underway, Closed
    <3> QED
      BY <2>3, <3>1, <3>2 DEF Prepared, ClientWrites, MailStatus, MailJob
  <2> QED
    BY <2>2, <2>3
<1> HIDE DEF p
<1>3. mails \in [Index -> MailStatus] /\ gens \in [Index -> Nat]
  BY <1>2
<1>4. outcome \in {"none", "done", "blocked"}
  BY DEF NoteOutcomes
<1>5. Saved(mails, outcome, gens) \in RunRow(firing.mails)
  BY <1>3, <1>4, SavedRow
<1>6. /\ t.op = op /\ t.locks = locks /\ t.run = r /\ t.new = Saved(mails, outcome, gens)
      /\ t.msgs = [m \in RunMails(r) |-> mails[m[2]]]
      /\ t.jobs = UNION {p[i].job : i \in Index}
  BY <1>1 DEF Write, RunMails
<1>7. \A m \in RunMails(r) : t.msgs[m] \in MailStatus /\ ClientWrites(msg[m], t.msgs[m])
  BY <1>2, <1>6, RunMailsKnown
<1>8. \A j \in t.jobs : j[1] = "mail" /\ j[2] \in RunMails(r)
  BY <1>2, <1>6 DEF RunMails
<1> QED
  BY <1>5, <1>6, <1>7, <1>8

\* A transaction on a run begins: no other one is open on that run.
LEMMA OpenRun ==
    ASSUME OutboxInv, work = "rules", NEW a \in Actor, NEW t, Open(a, t),
           UNCHANGED <<phase, exec, work>>, UNCHANGED mailVars, UNCHANGED automationVars,
           a \in Worker => exec[a] # NoExec,
           tx'[a] = t => RunTx(a)',
           \A b \in Actor : b # a /\ tx[b] # NoTx => tx[b].run # t.run
    PROVE  OutboxInv' /\ UNCHANGED promiseVars
<1>1. UNCHANGED <<msg, sends, adrift>> /\ UNCHANGED <<run, firing>>
  BY DEF mailVars, automationVars
<1>2. /\ tx' = [b \in Actor |-> tx'[b]] /\ tx'[a] = t
      /\ \A b \in Actor : b # a => tx'[b] = tx[b]
  BY DEF Open, OutboxInv, HolderInv
<1>3. ExecInv' /\ JobInv' /\ HolderInv'
  BY <1>1, <1>2 DEF OutboxInv, ExecInv, JobInv, InUse, MailOf, HolderInv, Actor
<1>4. MailInv' /\ UNCHANGED promiseVars
  BY <1>1, QuietMails DEF OutboxInv
<1>5. RulesInv'
  <2>1. RulesInv
    BY DEF OutboxInv
  <2>2. ASSUME NEW b \in Actor, b # a, tx'[b] # NoTx PROVE RunTx(b)'
    <3>1. tx'[b] = tx[b] /\ RunTx(b)
      BY <1>2, <2>1, <2>2 DEF RulesInv
    <3> QED
      BY <1>1, <3>1 DEF RunTx, RunMails, Index, WorkerWrites, MailOf, At, Outcome
  <2>3. RunTx(a)'
    BY <1>2
  <2>4. ASSUME NEW b \in Actor, NEW c \in Actor, tx'[b] # NoTx, tx'[c] # NoTx,
               tx'[b].run = tx'[c].run
        PROVE  b = c
    BY <1>2, <2>1, <2>4 DEF RulesInv
  <2> QED
    BY <1>1, <2>1, <2>2, <2>3, <2>4 DEF RulesInv
<1> QED
  BY <1>3, <1>4, <1>5 DEF OutboxInv

\* Who holds the lock of a stored run is alone on it.
LEMMA RunAlone ==
    ASSUME RulesInv, NEW a \in Actor, NEW t, Open(a, t), t.run \in t.locks,
           run[t.run] # NoRun
    PROVE  \A b \in Actor : b # a /\ tx[b] # NoTx => tx[b].run # t.run
BY DEF RulesInv, RunTx, Open, Locked

LEMMA SweepStep ==
    ASSUME OutboxInv, work = "rules", NEW c \in Client, Sweep(c), UNCHANGED work
    PROVE  OutboxInv' /\ UNCHANGED promiseVars
<1> DEFINE note == IF firing.note THEN "planned" ELSE "none"
           gen == [i \in Index |-> 0]
<1>1. PICK r \in Run : /\ Unused(r)
                       /\ \E t \in Performed("sweep", SweepLocks, r, note, gen) : Open(c, t)
  BY DEF Sweep
<1>2. PICK t \in Performed("sweep", SweepLocks, r, note, gen) : Open(c, t)
  BY <1>1
<1>3. /\ t.op = "sweep" /\ t.locks = {Rule} /\ t.run = r
      /\ t.new \in RunRow(firing.mails)
      /\ t.msgs \in [RunMails(r) -> MailStatus]
      /\ \A j \in t.jobs : j[1] = "mail" /\ j[2] \in RunMails(r)
      /\ \A m \in RunMails(r) : ClientWrites(msg[m], t.msgs[m])
  <2>1. note \in {"planned", "none", "done", "blocked"} /\ gen \in [Index -> Nat]
    OBVIOUS
  <2>2. firing \in Firings /\ msg \in [Msg -> MailStatus]
    BY DEF OutboxInv, RulesInv, MailInv
  <2> HIDE DEF note, gen
  <2> QED
    BY <1>2, <2>1, <2>2, PerformedWrites DEF SweepLocks
<1>4. /\ UNCHANGED <<phase, exec, work>> /\ UNCHANGED mailVars /\ UNCHANGED automationVars
      /\ c \in Actor /\ c \notin Worker
  BY ActorAssumption DEF Sweep, queueVars, Actor
<1>5. run[r] = NoRun
  BY <1>1 DEF Unused
<1>6. ASSUME tx'[c] = t PROVE RunTx(c)'
  <2>1. UNCHANGED <<run, msg, firing>> /\ RunMails(r)' = RunMails(r)
    BY <1>4 DEF automationVars, mailVars, RunMails, Index
  <2> QED
    BY <1>3, <1>5, <1>6, <2>1 DEF RunTx
<1>7. \A b \in Actor : b # c /\ tx[b] # NoTx => tx[b].run # t.run
  BY <1>1, <1>3, <1>5 DEF Unused, OutboxInv, RulesInv, RunTx
<1> QED
  BY <1>2, <1>4, <1>6, <1>7, OpenRun

LEMMA RetryStep ==
    ASSUME OutboxInv, work = "rules", NEW c \in Client, NEW r \in Run, Retry(c, r),
           UNCHANGED work
    PROVE  OutboxInv' /\ UNCHANGED promiseVars
<1>1. firing \in Firings /\ msg \in [Msg -> MailStatus] /\ RulesInv
  BY DEF OutboxInv, RulesInv, MailInv
<1>2. run[r] # NoRun /\ run[r].note \in {"none", "done", "blocked"} /\ run[r].gen \in [Index -> Nat]
  BY <1>1 DEF Retry, Runs, RulesInv, RunRow, Index
<1> DEFINE note == run[r].note
           gen == run[r].gen
<1>3. PICK t \in Performed("retry", {r}, r, note, gen) : Open(c, t)
  BY DEF Retry, RunLocks
<1>4. /\ t.op = "retry" /\ t.locks = {r} /\ t.run = r
      /\ t.new \in RunRow(firing.mails)
      /\ t.msgs \in [RunMails(r) -> MailStatus]
      /\ \A j \in t.jobs : j[1] = "mail" /\ j[2] \in RunMails(r)
      /\ \A m \in RunMails(r) : ClientWrites(msg[m], t.msgs[m])
  <2>1. note \in {"none", "done", "blocked"} /\ gen \in [Index -> Nat]
    BY <1>2
  <2> HIDE DEF note, gen
  <2> QED
    BY <1>1, <1>3, <2>1, PerformedWrites
<1>5. /\ UNCHANGED <<phase, exec, work>> /\ UNCHANGED mailVars /\ UNCHANGED automationVars
      /\ c \in Actor /\ c \notin Worker
  BY ActorAssumption DEF Retry, queueVars, Actor
<1>6. ASSUME tx'[c] = t PROVE RunTx(c)'
  <2>1. UNCHANGED <<run, msg, firing>> /\ RunMails(r)' = RunMails(r)
    BY <1>5 DEF automationVars, mailVars, RunMails, Index
  <2> QED
    BY <1>2, <1>4, <1>6, <2>1 DEF RunTx
<1>7. \A b \in Actor : b # c /\ tx[b] # NoTx => tx[b].run # t.run
  BY <1>1, <1>2, <1>3, <1>4, <1>5, RunAlone
<1> QED
  BY <1>3, <1>5, <1>6, <1>7, OpenRun

\* A handler's transaction on its mail, under the lock of the run.
LEMMA HandlerOpens ==
    ASSUME OutboxInv, work = "rules", NEW w \in Worker, NEW r \in Run, NEW m \in RunMails(r),
           m = MailOf(w), exec[w] # NoExec, run[r] # NoRun,
           NEW op \in {"deliver", "report"}, NEW locks, r \in locks,
           NEW status \in MailStatus, NEW next, WorkerWrites(w, status, next),
           Open(w, Recorded(op, locks, m, status, next)),
           UNCHANGED <<phase, exec, work>>, UNCHANGED mailVars, UNCHANGED automationVars
    PROVE  OutboxInv' /\ UNCHANGED promiseVars
<1>1. PICK t : t = Recorded(op, locks, m, status, next)
  OBVIOUS
<1>2. /\ t.op = op /\ t.locks = locks /\ t.run = r /\ t.next = next /\ t.jobs = {}
      /\ t.new \in RunRow(firing.mails)
      /\ t.msgs \in [RunMails(r) -> MailStatus]
      /\ t.msgs[m] = status
      /\ \A x \in RunMails(r) \ {m} : t.msgs[x] = msg[x]
  <2>1. RulesInv /\ msg \in [Msg -> MailStatus]
    BY DEF OutboxInv, MailInv
  <2> DEFINE mails == [Mails(r) EXCEPT ![m[2]] = status]
  <2>2. firing \in Firings /\ m[1] = r /\ m[2] \in Index /\ m = RunMail(r, m[2])
    BY <2>1, RunMailsKnown DEF RulesInv
  <2>3. /\ mails \in [Index -> MailStatus] /\ mails[m[2]] = status
        /\ \A i \in Index : i # m[2] => mails[i] = msg[RunMail(r, i)]
    BY <2>1, <2>2, RunMailsKnown DEF Mails, RunMails
  <2>4. run[r].note \in {"none", "done", "blocked"} /\ run[r].gen \in [Index -> Nat]
    BY <2>1, <2>2, RunMailsKnown DEF RulesInv, RunRow
  <2> HIDE DEF mails
  <2>5. Saved(mails, run[r].note, run[r].gen) \in RunRow(firing.mails)
    BY <2>2, <2>3, <2>4, SavedRow
  <2>6. /\ t.op = op /\ t.locks = locks /\ t.run = r /\ t.next = next /\ t.jobs = {}
        /\ t.new = Saved(mails, run[r].note, run[r].gen)
        /\ t.msgs = [x \in RunMails(r) |-> mails[x[2]]]
    BY <1>1, <2>2, <2>3 DEF Recorded, Write, RunMails, mails
  <2>7. ASSUME NEW x \in RunMails(r)
        PROVE  t.msgs[x] = IF x = m THEN status ELSE msg[x]
    <3>1. x[2] \in Index /\ x = RunMail(r, x[2])
      BY <2>2, RunMailsKnown
    <3> QED
      BY <2>2, <2>3, <2>6, <3>1
  <2>8. \A x \in RunMails(r) : msg[x] \in MailStatus
    BY <2>1, <2>2, RunMailsKnown
  <2> QED
    BY <2>5, <2>6, <2>7, <2>8
<1>3. Open(w, t) /\ w \in Actor
  BY <1>1 DEF Actor
<1>4. ASSUME tx'[w] = t PROVE RunTx(w)'
  <2>1. UNCHANGED <<run, msg, firing, exec>> /\ RunMails(r)' = RunMails(r)
    BY DEF automationVars, mailVars, RunMails, Index
  <2>2. WorkerWrites(w, status, next)'
    BY <2>1 DEF WorkerWrites, MailOf, At, Outcome
  <2> QED
    BY <1>2, <1>4, <2>1, <2>2 DEF RunTx, MailOf
<1>5. \A b \in Actor : b # w /\ tx[b] # NoTx => tx[b].run # t.run
  BY <1>2, <1>3, RunAlone DEF OutboxInv
<1> QED
  BY <1>3, <1>4, <1>5, OpenRun

\* The two transactions of `deliver`.
LEMMA DeliverStep ==
    ASSUME OutboxInv, work = "rules", NEW w \in Worker, Attempt(w) \/ Record(w), UNCHANGED work
    PROVE  OutboxInv' /\ UNCHANGED promiseVars
<1>1. /\ exec[w] # NoExec /\ exec[w].job[1] = "mail" /\ MailOf(w) \in Run \X Index
      /\ UNCHANGED <<phase, exec, work>> /\ UNCHANGED mailVars /\ UNCHANGED automationVars
  BY DEF Attempt, Record, OnRunMail, queueVars
<1>2. PICK r \in Run : r = MailOf(w)[1]
  BY <1>1
<1>3. PICK m \in RunMails(r) : m = MailOf(w)
  BY <1>1, <1>2 DEF RunMails, RunMail
<1>4. run[r] # NoRun /\ m[1] = r
  BY <1>1, <1>2, <1>3 DEF OutboxInv, JobInv, InUse
<1>5. msg[m] \in MailStatus
  BY RunMailsKnown DEF OutboxInv, MailInv, RulesInv
<1>6. CASE Attempt(w)
  <2>1. Decision(msg[m]) \in MailStatus
    BY <1>5 DEF Decision, MailStatus
  <2>2. PICK status \in MailStatus : status = Decision(msg[m])
    BY <2>1
  <2>3. PICK next \in {"smtp", "done"} :
           next = IF status = "sending" /\ msg[m] = "queued" THEN "smtp" ELSE "done"
    OBVIOUS
  <2>4. Open(w, Recorded("deliver", {r, m}, m, status, next)) /\ At(w, "begin")
    BY <1>3, <1>4, <1>6, <2>2, <2>3 DEF Attempt, DeliverLocks
  <2>5. TakesUp(msg[m], status, next)
    BY <1>5, <2>2, <2>3 DEF Decision, TakesUp, MailStatus
  <2>6. WorkerWrites(w, status, next)
    BY <1>3, <2>4, <2>5 DEF WorkerWrites
  <2> QED
    BY <1>1, <1>3, <1>4, <2>4, <2>6, HandlerOpens
<1>7. CASE Record(w)
  <2>1. PICK status \in MailStatus : status = Outcome(w)
    BY DEF Outcome, MailStatus
  <2>2. /\ Open(w, Recorded("report", {r}, m, status, "done"))
        /\ At(w, "accepted") \/ At(w, "uncertain")
    BY <1>3, <1>4, <1>7, <2>1 DEF Record, Reported
  <2>3. WorkerWrites(w, status, "done")
    BY <2>1, <2>2 DEF WorkerWrites
  <2> QED
    BY <1>1, <1>3, <1>4, <2>2, <2>3, HandlerOpens
<1> QED
  BY <1>6, <1>7

\* A transaction on a run commits.
LEMMA CommitRunStep ==
    ASSUME OutboxInv, work = "rules", NEW a \in Actor, CommitRun(a), UNCHANGED work
    PROVE  OutboxInv' /\ [Promise!Next]_promiseVars
<1>1. PICK t : t = tx[a]
  OBVIOUS
<1>2. PICK r \in Run : r = t.run
  BY <1>1 DEF CommitRun, OutboxInv, RulesInv, RunTx
<1>3. /\ RulesInv /\ MailInv /\ firing \in Firings
      /\ tx[a] # NoTx /\ RunTx(a)
      /\ t.new \in RunRow(firing.mails) /\ t.new # NoRun
      /\ t.msgs \in [RunMails(r) -> MailStatus] /\ RunMails(r) \subseteq Msg
  BY <1>1, <1>2, RunMailsKnown DEF CommitRun, OutboxInv, RulesInv, RunTx
<1>4. /\ run' = [run EXCEPT ![r] = t.new]
      /\ msg' = [m \in Msg |-> IF m \in RunMails(r) THEN t.msgs[m] ELSE msg[m]]
      /\ phase' = [j \in Job |-> IF j \in t.jobs /\ phase[j] = "absent" THEN "queued" ELSE phase[j]]
      /\ IF a \in Worker THEN Goto(a, t.next) ELSE UNCHANGED exec
      /\ tx' = [tx EXCEPT ![a] = NoTx]
      /\ UNCHANGED <<sends, adrift, firing>>
  BY <1>1, <1>2, <1>3 DEF CommitRun, Enqueue, Close
<1>5. msg' \in [Msg -> MailStatus]
  BY <1>3, <1>4 DEF MailInv
<1>6. /\ run' \in [Run -> RunRow(firing.mails) \cup {NoRun}]
      /\ run'[r] # NoRun /\ \A s \in Run : s # r => run'[s] = run[s]
  BY <1>3, <1>4 DEF RulesInv
<1>7. /\ tx' = [b \in Actor |-> tx'[b]] /\ tx'[a] = NoTx
      /\ \A b \in Actor : b # a => tx'[b] = tx[b]
  BY <1>4 DEF OutboxInv, HolderInv
<1>8. a \in Worker => exec[a] # NoExec /\ a \notin Client /\ t.next \in Step
  BY <1>1, <1>3, ActorAssumption DEF OutboxInv, HolderInv, RunTx, WorkerWrites, TakesUp, Step
<1>9. /\ ExecInv' /\ \A v \in Worker : v # a => exec'[v] = exec[v]
      /\ a \in Worker => exec'[a].job = exec[a].job /\ exec'[a] # NoExec
  <2>1. CASE a \in Worker
    <3>1. PICK w \in Worker, next \in Step : w = a /\ next = t.next
      BY <1>8, <2>1
    <3>2. Moves(w, next) /\ ExecInv
      BY <1>4, <1>8, <3>1 DEF OutboxInv, Moves
    <3>3. /\ ExecInv' /\ exec'[w] # NoExec
          /\ exec'[w] = [job |-> exec[w].job, at |-> next]
          /\ \A v \in Worker : v # w => exec'[v] = exec[v]
      BY <3>2, MoveExec
    <3> QED
      BY <3>1, <3>3
  <2>2. CASE a \notin Worker
    BY <1>4, <2>2 DEF OutboxInv, ExecInv
  <2> QED
    BY <2>1, <2>2
<1>10. JobInv'
  <2>1. \A m : InUse(m) => InUse(m)'
    <3> SUFFICES ASSUME NEW m, run[m[1]] # NoRun PROVE run'[m[1]] # NoRun
      BY DEF InUse
    <3>1. m[1] = r => run'[m[1]] # NoRun
      BY <1>6
    <3>2. m[1] # r => run'[m[1]] = run[m[1]]
      BY <1>4
    <3> QED
      BY <3>1, <3>2
  <2>2. \A j \in t.jobs : j[1] = "mail" => InUse(j[2])'
    BY <1>1, <1>2, <1>3, <1>6, RunMailsKnown DEF RunTx, InUse
  <2>3. \A j \in Job : phase'[j] # "absent" => phase[j] # "absent" \/ j \in t.jobs
    BY <1>4
  <2>4. phase' = [j \in Job |-> phase'[j]]
    BY <1>4
  <2>5. ASSUME NEW w \in Worker, exec'[w] # NoExec, exec'[w].job[1] = "mail"
        PROVE  InUse(MailOf(w))'
    <3>1. exec[w] # NoExec /\ exec'[w].job = exec[w].job
      BY <1>8, <1>9, <2>5
    <3>2. PICK m : m = exec[w].job[2]
      OBVIOUS
    <3>3. InUse(m)'
      BY <2>1, <2>5, <3>1, <3>2 DEF OutboxInv, JobInv, MailOf
    <3> QED
      BY <3>1, <3>2, <3>3 DEF MailOf, InUse
  <2>6. \A j \in Job : j[1] = "mail" /\ phase'[j] # "absent" => InUse(j[2])'
    BY <2>1, <2>2, <2>3 DEF OutboxInv, JobInv
  <2> QED
    BY <2>4, <2>5, <2>6 DEF JobInv
<1>11. HolderInv'
  BY <1>7, <1>9 DEF OutboxInv, HolderInv, Actor
<1>12. MailInv' /\ [Promise!Next]_promiseVars
  <2>1. CASE t.op \in {"sweep", "retry"}
    <3>1. UNCHANGED exec
      BY <1>1, <1>3, <1>4, <2>1, ActorAssumption DEF RunTx
    <3>2. \A m \in Msg : ClientWrites(msg[m], msg'[m])
      BY <1>1, <1>2, <1>3, <1>4, <2>1 DEF RunTx, ClientWrites
    <3> QED
      BY <1>3, <1>4, <1>5, <3>1, <3>2, ClientMails
  <2>2. CASE t.op \in {"deliver", "report"}
    <3>1. PICK w \in Worker : w = a
      BY <1>1, <1>3, <2>2 DEF RunTx
    <3>2. PICK m \in RunMails(r) : m = MailOf(w)
      BY <1>1, <1>2, <1>3, <2>2, <3>1 DEF RunTx
    <3>3. PICK next : next = t.next
      OBVIOUS
    <3>4. /\ exec[w] # NoExec /\ Goto(w, next) /\ m \in Msg
          /\ \A x \in Msg : x # m => msg'[x] = msg[x]
          /\ WorkerWrites(w, msg'[m], next)
      BY <1>1, <1>2, <1>3, <1>4, <2>2, <3>1, <3>2, <3>3 DEF RunTx
    <3> QED
      BY <1>3, <1>4, <1>5, <3>1, <3>2, <3>4, WorkerMails DEF OutboxInv
  <2> QED
    BY <1>1, <1>3, <2>1, <2>2 DEF RunTx
<1>13. RulesInv'
  <2>1. ASSUME NEW b \in Actor, tx'[b] # NoTx PROVE RunTx(b)'
    <3>1. b # a /\ tx'[b] = tx[b] /\ RunTx(b) /\ tx[b].run # r
      BY <1>1, <1>2, <1>3, <1>7, <2>1 DEF RulesInv
    <3>2. PICK s \in Run : s = tx[b].run
      BY <3>1 DEF RunTx
    <3>3. run'[s] = run[s] /\ RunMails(s)' = RunMails(s) /\ firing' = firing
      BY <1>4, <1>6, <3>1, <3>2 DEF RunMails, Index
    <3>4. \A m \in RunMails(s) : msg'[m] = msg[m]
      BY <1>3, <1>4, <3>1, <3>2, RunMailsKnown
    <3>5. b \in Worker => exec'[b] = exec[b]
      BY <1>9, <3>1
    <3> QED
      BY <3>1, <3>2, <3>3, <3>4, <3>5 DEF RunTx, WorkerWrites, MailOf, At, Outcome
  <2> QED
    BY <1>3, <1>4, <1>6, <1>7, <2>1 DEF RulesInv
<1> QED
  BY <1>9, <1>10, <1>11, <1>12, <1>13 DEF OutboxInv

\* The rule is switched off or on.
LEMMA SetStatusStep ==
    ASSUME OutboxInv, work = "rules", SetStatus, UNCHANGED work
    PROVE  OutboxInv' /\ UNCHANGED promiseVars
<1>1. /\ UNCHANGED <<exec, tx>> /\ UNCHANGED <<sends, adrift>>
      /\ phase' = phase /\ UNCHANGED <<msg, run, firing>>
  BY DEF SetStatus, queueVars, mailVars
<1>2. Unwritten
  BY <1>1 DEF Unwritten
<1> QED
  BY <1>1, <1>2, QueueStep DEF OutboxInv, JobInv

LEMMA RulesStep ==
    ASSUME OutboxInv, work = "rules", AutomationNext, UNCHANGED work
    PROVE  OutboxInv' /\ [Promise!Next]_promiseVars
BY SweepStep, RetryStep, DeliverStep, CommitRunStep, SetStatusStep DEF AutomationNext

----------------------------------------------------------------------------
(* Invoice mails.                                                          *)

\* A transaction on a mail begins: no other one is open on that mail.
LEMMA OpenMail ==
    ASSUME OutboxInv, work = "mails", NEW a \in Actor, NEW t, Open(a, t),
           UNCHANGED <<phase, exec, work, attached>>, UNCHANGED mailVars,
           a \in Worker => exec[a] # NoExec,
           tx'[a] = t => MailTx(a)',
           \A b \in Actor : b # a /\ tx[b] # NoTx => tx[b].mail # t.mail
    PROVE  OutboxInv' /\ UNCHANGED promiseVars
<1>1. UNCHANGED <<msg, sends, adrift>> /\ UNCHANGED attached
  BY DEF mailVars
<1>2. /\ tx' = [b \in Actor |-> tx'[b]] /\ tx'[a] = t
      /\ \A b \in Actor : b # a => tx'[b] = tx[b]
  BY DEF Open, OutboxInv, HolderInv
<1>3. ExecInv' /\ JobInv' /\ HolderInv'
  BY <1>1, <1>2 DEF OutboxInv, ExecInv, JobInv, InUse, MailOf, HolderInv, Actor
<1>4. MailInv' /\ UNCHANGED promiseVars
  BY <1>1, QuietMails DEF OutboxInv
<1>5. MailsInv'
  <2>1. MailsInv
    BY DEF OutboxInv
  <2>2. ASSUME NEW b \in Actor, b # a, tx'[b] # NoTx PROVE MailTx(b)'
    <3>1. tx'[b] = tx[b] /\ MailTx(b)
      BY <1>2, <2>1, <2>2 DEF MailsInv
    <3> QED
      BY <1>1, <3>1 DEF MailTx, WorkerWrites, MailOf, At, Outcome
  <2>3. MailTx(a)'
    BY <1>2
  <2>4. ASSUME NEW b \in Actor, NEW c \in Actor, tx'[b] # NoTx, tx'[c] # NoTx,
               tx'[b].mail = tx'[c].mail
        PROVE  b = c
    BY <1>2, <2>1, <2>4 DEF MailsInv
  <2> QED
    BY <1>1, <2>1, <2>2, <2>3, <2>4 DEF MailsInv
<1> QED
  BY <1>3, <1>4, <1>5 DEF OutboxInv

\* `send_invoice`: requests exclude each other, and no worker has the mail yet.
LEMMA SendStep ==
    ASSUME OutboxInv, work = "mails", NEW c \in Client, NEW m \in InvMsg, Send(c, m),
           UNCHANGED work
    PROVE  OutboxInv' /\ UNCHANGED promiseVars
<1>1. PICK t : t = Update("send", {Invoice}, m, IF relay THEN "queued" ELSE "blocked",
                          IF relay THEN {MailJob(m, 0)} ELSE {}, FALSE, "done")
  OBVIOUS
<1>2. /\ t.op = "send" /\ t.locks = {Invoice} /\ t.mail = m
      /\ t.status \in {"queued", "blocked"} /\ t.jobs \subseteq {MailJob(m, 0)}
  BY <1>1 DEF Update
<1>3. /\ Open(c, t) /\ c \in Actor /\ c \notin Worker
      /\ UNCHANGED <<phase, exec, work, attached>> /\ UNCHANGED mailVars
  BY <1>1, ActorAssumption DEF Send, queueVars, invoiceMailVars, Actor
<1>4. MailsInv /\ m \in Msg
  BY HandlerAssumption DEF OutboxInv
<1>5. m \notin attached /\ msg[m] \notin Closed
  BY <1>4 DEF Send, Queueable, MailsInv, Closed
<1>6. ASSUME tx'[c] = t PROVE MailTx(c)'
  <2>1. UNCHANGED <<msg, attached>>
    BY <1>3 DEF mailVars
  <2>2. \A j \in t.jobs : j[1] = "mail" /\ j[2] = m
    BY <1>2 DEF MailJob
  <2>3. ClientWrites(msg[m], t.status) /\ t.status \in MailStatus /\ t.status # "absent"
    BY <1>2, <1>5 DEF ClientWrites, MailStatus
  <2> QED
    BY <1>2, <1>3, <1>5, <1>6, <2>1, <2>2, <2>3 DEF MailTx
<1>7. \A b \in Actor : b # c /\ tx[b] # NoTx => tx[b].mail # t.mail
  BY <1>2, <1>3, <1>4, <1>5 DEF MailsInv, MailTx, Open, Locked
<1> QED
  BY <1>3, <1>6, <1>7, OpenMail

\* The two transactions of `deliver`, under the lock of the mail.
LEMMA PostStep ==
    ASSUME OutboxInv, work = "mails", NEW w \in Worker, Deliver(w) \/ Conclude(w),
           UNCHANGED work
    PROVE  OutboxInv' /\ UNCHANGED promiseVars
<1>1. /\ exec[w] # NoExec /\ exec[w].job[1] = "mail" /\ MailOf(w) \in InvMsg
      /\ UNCHANGED <<phase, exec, work, attached>> /\ UNCHANGED mailVars
      /\ w \in Actor
  BY DEF Deliver, Conclude, OnInvoiceMail, queueVars, invoiceMailVars, Actor
<1>2. PICK m \in InvMsg : m = MailOf(w)
  BY <1>1
<1>3. MailsInv /\ m \in attached /\ msg[m] \in MailStatus
  BY <1>1, <1>2, HandlerAssumption DEF OutboxInv, JobInv, InUse, MailInv
<1>4. \E t : /\ Open(w, t)
             /\ t.op \in {"delivery", "outcome"} /\ m \in t.locks /\ t.mail = m
             /\ t.status \in MailStatus /\ t.jobs = {}
             /\ WorkerWrites(w, t.status, t.next)
  <2>1. CASE Deliver(w)
    <3>1. PICK status \in Verdicts(msg[m]) :
             Open(w, Update("delivery", {m}, m, status, {}, FALSE, After(msg[m], status)))
      BY <1>2, <2>1 DEF Deliver
    <3>2. PICK t : t = Update("delivery", {m}, m, status, {}, FALSE, After(msg[m], status))
      OBVIOUS
    <3>3. /\ t.op = "delivery" /\ t.locks = {m} /\ t.mail = m /\ t.status = status
          /\ t.jobs = {} /\ t.next = After(msg[m], status)
      BY <3>2 DEF Update
    <3>4. status \in MailStatus /\ TakesUp(msg[m], status, After(msg[m], status))
      BY <1>3 DEF Verdicts, TakesUp, After, MailStatus
    <3>5. WorkerWrites(w, t.status, t.next)
      BY <1>2, <2>1, <3>3, <3>4 DEF WorkerWrites, Deliver
    <3> QED
      BY <3>1, <3>2, <3>3, <3>4, <3>5
  <2>2. CASE Conclude(w)
    <3>1. PICK t :
             /\ Open(w, t)
             /\ t = Update("outcome", StampLocks(w, m), m, Outcome(w), {}, Stamps(w), "done")
      BY <1>2, <2>2 DEF Conclude
    <3>2. /\ t.op = "outcome" /\ m \in t.locks /\ t.mail = m /\ t.status = Outcome(w)
          /\ t.jobs = {} /\ t.next = "done"
      BY <3>1 DEF Update, StampLocks
    <3>3. Outcome(w) \in MailStatus
      BY DEF Outcome, MailStatus
    <3>4. WorkerWrites(w, t.status, t.next)
      BY <2>2, <3>2 DEF WorkerWrites, Conclude
    <3> QED
      BY <3>1, <3>2, <3>3, <3>4
  <2> QED
    BY <2>1, <2>2
<1>5. PICK t : /\ Open(w, t)
              /\ t.op \in {"delivery", "outcome"} /\ m \in t.locks /\ t.mail = m
              /\ t.status \in MailStatus /\ t.jobs = {}
              /\ WorkerWrites(w, t.status, t.next)
  BY <1>4
<1>6. ASSUME tx'[w] = t PROVE MailTx(w)'
  <2>1. UNCHANGED <<msg, attached, exec>>
    BY <1>1 DEF mailVars
  <2>2. WorkerWrites(w, t.status, t.next)'
    BY <1>5, <2>1 DEF WorkerWrites, MailOf, At, Outcome
  <2> QED
    BY <1>1, <1>2, <1>3, <1>5, <1>6, <2>1, <2>2 DEF MailTx, MailOf
<1>7. \A b \in Actor : b # w /\ tx[b] # NoTx => tx[b].mail # t.mail
  BY <1>3, <1>5 DEF MailsInv, MailTx, Open, Locked
<1> QED
  BY <1>1, <1>5, <1>6, <1>7, OpenMail

\* A transaction on a mail commits.
LEMMA CommitMailStep ==
    ASSUME OutboxInv, work = "mails", NEW a \in Actor, CommitMail(a), UNCHANGED work
    PROVE  OutboxInv' /\ [Promise!Next]_promiseVars
<1>1. PICK t : t = tx[a]
  OBVIOUS
<1>2. PICK m \in InvMsg : m = t.mail
  BY <1>1 DEF CommitMail, OutboxInv, MailsInv, MailTx
<1>3. /\ MailsInv /\ MailInv /\ tx[a] # NoTx /\ MailTx(a)
      /\ m \in Msg /\ t.status \in MailStatus
  BY <1>1, <1>2, HandlerAssumption DEF CommitMail, OutboxInv, MailsInv, MailTx
<1>4. /\ msg' = [msg EXCEPT ![m] = t.status]
      /\ attached' = attached \cup {j[2] : j \in t.jobs}
      /\ phase' = [j \in Job |-> IF j \in t.jobs /\ phase[j] = "absent" THEN "queued" ELSE phase[j]]
      /\ IF a \in Worker THEN Goto(a, t.next) ELSE UNCHANGED exec
      /\ tx' = [tx EXCEPT ![a] = NoTx]
      /\ UNCHANGED <<sends, adrift>>
  BY <1>1, <1>2 DEF CommitMail, Enqueue, Close
<1>5. /\ msg' \in [Msg -> MailStatus] /\ msg'[m] = t.status
      /\ \A x \in Msg : x # m => msg'[x] = msg[x]
  BY <1>3, <1>4 DEF MailInv
<1>6. \A j \in t.jobs : j[1] = "mail" /\ j[2] = m
  BY <1>1, <1>2, <1>3 DEF MailTx
<1>7. /\ tx' = [b \in Actor |-> tx'[b]] /\ tx'[a] = NoTx
      /\ \A b \in Actor : b # a => tx'[b] = tx[b]
  BY <1>4 DEF OutboxInv, HolderInv
<1>8. a \in Worker => exec[a] # NoExec /\ a \notin Client /\ t.next \in Step
  BY <1>1, <1>3, ActorAssumption DEF OutboxInv, HolderInv, MailTx, WorkerWrites, TakesUp, Step
<1>9. /\ ExecInv' /\ \A v \in Worker : v # a => exec'[v] = exec[v]
      /\ a \in Worker => exec'[a].job = exec[a].job /\ exec'[a] # NoExec
  <2>1. CASE a \in Worker
    <3>1. PICK w \in Worker, next \in Step : w = a /\ next = t.next
      BY <1>8, <2>1
    <3>2. Moves(w, next) /\ ExecInv
      BY <1>4, <1>8, <3>1 DEF OutboxInv, Moves
    <3>3. /\ ExecInv' /\ exec'[w] # NoExec
          /\ exec'[w] = [job |-> exec[w].job, at |-> next]
          /\ \A v \in Worker : v # w => exec'[v] = exec[v]
      BY <3>2, MoveExec
    <3> QED
      BY <3>1, <3>3
  <2>2. CASE a \notin Worker
    BY <1>4, <2>2 DEF OutboxInv, ExecInv
  <2> QED
    BY <2>1, <2>2
<1>10. JobInv'
  <2>1. \A x : InUse(x) => InUse(x)'
    BY <1>4 DEF InUse
  <2>2. \A j \in t.jobs : InUse(j[2])'
    BY <1>4 DEF InUse
  <2>3. ASSUME NEW w \in Worker, exec'[w] # NoExec, exec'[w].job[1] = "mail"
        PROVE  InUse(MailOf(w))'
    <3>1. exec[w] # NoExec /\ exec'[w].job = exec[w].job
      BY <1>8, <1>9, <2>3
    <3>2. PICK x : x = exec[w].job[2]
      OBVIOUS
    <3>3. InUse(x)'
      BY <2>1, <2>3, <3>1, <3>2 DEF OutboxInv, JobInv, MailOf
    <3> QED
      BY <3>1, <3>2, <3>3 DEF MailOf, InUse
  <2>4. \A j \in Job : j[1] = "mail" /\ phase'[j] # "absent" => InUse(j[2])'
    BY <1>4, <2>1, <2>2 DEF OutboxInv, JobInv
  <2>5. phase' = [j \in Job |-> phase'[j]]
    BY <1>4
  <2> QED
    BY <2>3, <2>4, <2>5 DEF JobInv
<1>11. HolderInv'
  BY <1>7, <1>9 DEF OutboxInv, HolderInv, Actor
<1>12. MailInv' /\ [Promise!Next]_promiseVars
  <2>1. CASE t.op = "send"
    <3>1. UNCHANGED exec
      BY <1>1, <1>3, <1>4, <2>1, ActorAssumption DEF MailTx
    <3>2. \A x \in Msg : ClientWrites(msg[x], msg'[x])
      BY <1>1, <1>2, <1>3, <1>5, <2>1 DEF MailTx, ClientWrites
    <3> QED
      BY <1>3, <1>4, <1>5, <3>1, <3>2, ClientMails
  <2>2. CASE t.op # "send"
    <3>1. PICK w \in Worker : w = a
      BY <1>1, <1>3, <2>2 DEF MailTx
    <3>2. PICK next : next = t.next
      OBVIOUS
    <3>3. /\ exec[w] # NoExec /\ Goto(w, next) /\ MailOf(w) = m
          /\ WorkerWrites(w, msg'[m], next)
      BY <1>1, <1>2, <1>3, <1>4, <1>5, <2>2, <3>1, <3>2 DEF MailTx
    <3> QED
      BY <1>3, <1>4, <1>5, <3>1, <3>3, WorkerMails DEF OutboxInv
  <2> QED
    BY <2>1, <2>2
<1>13. MailsInv'
  <2>1. ASSUME NEW b \in Actor, tx'[b] # NoTx PROVE MailTx(b)'
    <3>1. b # a /\ tx'[b] = tx[b] /\ MailTx(b) /\ tx[b].mail # m
      BY <1>1, <1>2, <1>3, <1>7, <2>1 DEF MailsInv
    <3>2. PICK x \in InvMsg : x = tx[b].mail
      BY <3>1 DEF MailTx
    <3>3. msg'[x] = msg[x] /\ (x \in attached' <=> x \in attached)
      BY <1>4, <1>5, <1>6, <3>1, <3>2, HandlerAssumption
    <3>4. b \in Worker => exec'[b] = exec[b]
      BY <1>9, <3>1
    <3> QED
      BY <3>1, <3>2, <3>3, <3>4 DEF MailTx, WorkerWrites, MailOf, At, Outcome
  <2>2. ASSUME NEW x \in attached' PROVE msg'[x] # "absent"
    <3>1. CASE x \in attached /\ x # m
      BY <1>3, <1>4, <3>1 DEF MailsInv, MailInv
    <3>2. CASE x = m
      <4>1. t.status # "absent"
        BY <1>1, <1>2, <1>3 DEF MailTx, MailsInv, WorkerWrites, TakesUp, Outcome
      <4> QED
        BY <1>5, <3>2, <4>1
    <3> QED
      BY <1>4, <1>6, <3>1, <3>2
  <2> QED
    BY <1>3, <1>7, <2>1, <2>2 DEF MailsInv
<1> QED
  BY <1>9, <1>10, <1>11, <1>12, <1>13 DEF OutboxInv

LEMMA MailsStep ==
    ASSUME OutboxInv, work = "mails", InvoiceMailNext, UNCHANGED work
    PROVE  OutboxInv' /\ [Promise!Next]_promiseVars
<1>1. ASSUME Reclassify PROVE OutboxInv' /\ UNCHANGED promiseVars
  <2>1. /\ UNCHANGED <<exec, tx>> /\ UNCHANGED <<sends, adrift>>
        /\ phase' = phase /\ UNCHANGED <<msg, attached>>
    BY <1>1 DEF Reclassify, queueVars, mailVars
  <2>2. Unwritten
    BY <2>1 DEF Unwritten
  <2> QED
    BY <2>1, <2>2, QueueStep DEF OutboxInv, JobInv
<1> QED
  BY <1>1, SendStep, PostStep, CommitMailStep DEF InvoiceMailNext

----------------------------------------------------------------------------
(* The handlers that send no mail.                                         *)

LEMMA OtherStep ==
    ASSUME OutboxInv, work \notin {"rules", "mails"}, UNCHANGED work, UNCHANGED mailVars,
           ExecInv', HolderInv', phase' = [j \in Job |-> phase'[j]],
           \A w \in Worker : Holding(w)' => exec'[w] = exec[w]
    PROVE  OutboxInv' /\ UNCHANGED promiseVars
<1>1. MailInv' /\ UNCHANGED promiseVars
  BY QuietMails DEF OutboxInv, mailVars
<1>2. JobInv'
  BY DEF JobInv, InUse
<1> QED
  BY <1>1, <1>2 DEF OutboxInv

\* The handler of another job moves on; its transaction, if any, may be over.
LEMMA OtherMove ==
    ASSUME OutboxInv, work \notin {"rules", "mails"}, UNCHANGED work, UNCHANGED mailVars,
           NEW w \in Worker, NEW step \in Step \ {"smtp", "accepted", "uncertain"},
           Moves(w, step), tx' = tx \/ Close(w), phase' = [j \in Job |-> phase'[j]]
    PROVE  OutboxInv' /\ UNCHANGED promiseVars
<1>1. /\ ExecInv' /\ exec'[w] # NoExec
      /\ exec'[w] = [job |-> exec[w].job, at |-> step]
      /\ \A v \in Worker : v # w => exec'[v] = exec[v]
  BY MoveExec DEF OutboxInv
<1>2. HolderInv'
  BY <1>1 DEF OutboxInv, HolderInv, Close, Actor
<1>3. \A v \in Worker : Holding(v)' => exec'[v] = exec[v]
  BY <1>1 DEF Holding
<1> QED
  BY <1>1, <1>2, <1>3, OtherStep

\* A transaction begins or ends.
LEMMA OtherTx ==
    ASSUME OutboxInv, work \notin {"rules", "mails"}, UNCHANGED work, UNCHANGED mailVars,
           UNCHANGED exec, phase' = [j \in Job |-> phase'[j]], NEW a \in Actor,
           a \in Worker => exec[a] # NoExec,
           tx' = tx \/ \E t : tx' = [tx EXCEPT ![a] = t]
    PROVE  OutboxInv' /\ UNCHANGED promiseVars
<1>1. ExecInv'
  BY DEF OutboxInv, ExecInv
<1>2. HolderInv'
  BY DEF OutboxInv, HolderInv, Actor
<1> QED
  BY <1>1, <1>2, OtherStep DEF Holding

LEMMA CapturesStep ==
    ASSUME OutboxInv, work = "captures", CaptureNext, UNCHANGED work
    PROVE  OutboxInv' /\ UNCHANGED promiseVars
<1>1. phase' = [j \in Job |-> phase'[j]]
  BY DEF OutboxInv, JobInv, CaptureNext, Extract, Progress, Publish, Skip, Admit, Correct,
         SaveInvoice, Reread, CommitCapture, Enqueue, queueVars
<1>2. UNCHANGED mailVars
  BY DEF CaptureNext, Extract, Progress, Publish, Skip, Admit, Correct, SaveInvoice, Reread,
         CommitCapture
<1>3. ASSUME NEW w \in Worker, Extract(w) \/ Skip(w) PROVE OutboxInv' /\ UNCHANGED promiseVars
  <2>1. PICK step \in {"parsing", "done"} : Moves(w, step)
    BY <1>3 DEF Extract, Skip, Moves, At
  <2>2. step \in Step \ {"smtp", "accepted", "uncertain"} /\ tx' = tx
    BY <1>3 DEF Extract, Skip, Step
  <2> QED
    BY <1>1, <1>2, <2>1, <2>2, OtherMove
<1>4. ASSUME NEW w \in Worker, Progress(w) \/ Publish(w)
      PROVE  OutboxInv' /\ UNCHANGED promiseVars
  <2>1. UNCHANGED exec /\ exec[w] # NoExec /\ w \in Actor
    BY <1>4 DEF Progress, Publish, At, Actor
  <2>2. tx' = tx \/ \E t : tx' = [tx EXCEPT ![w] = t]
    BY <1>4 DEF Progress, Publish, Open
  <2> QED
    BY <1>1, <1>2, <2>1, <2>2, OtherTx
<1>5. ASSUME NEW c \in Client,
             Admit(c) \/ Correct(c) \/ SaveInvoice(c) \/ \E ask \in BOOLEAN : Reread(c, ask)
      PROVE  OutboxInv' /\ UNCHANGED promiseVars
  <2>1. UNCHANGED exec /\ c \notin Worker /\ c \in Actor
    BY <1>5, ActorAssumption DEF Admit, Correct, SaveInvoice, Reread, Actor
  <2>2. tx' = tx \/ \E t : tx' = [tx EXCEPT ![c] = t]
    BY <1>5 DEF Admit, Correct, SaveInvoice, Reread, Open
  <2> QED
    BY <1>1, <1>2, <2>1, <2>2, OtherTx
<1>6. ASSUME NEW a \in Actor, CommitCapture(a) PROVE OutboxInv' /\ UNCHANGED promiseVars
  <2>1. CASE a \in Worker
    <3>1. Moves(a, "done") /\ Close(a)
      BY <1>6, <2>1 DEF CommitCapture, Moves, OutboxInv, HolderInv
    <3>2. "done" \in Step \ {"smtp", "accepted", "uncertain"}
      BY DEF Step
    <3> QED
      BY <1>1, <1>2, <2>1, <3>1, <3>2, OtherMove
  <2>2. CASE a \notin Worker
    BY <1>1, <1>2, <1>6, <2>2, OtherTx DEF CommitCapture, Close
  <2> QED
    BY <2>1, <2>2
<1> QED
  BY <1>3, <1>4, <1>5, <1>6 DEF CaptureNext

LEMMA HooksStep ==
    ASSUME OutboxInv, work = "hooks", WebhooksNext, UNCHANGED work
    PROVE  OutboxInv' /\ UNCHANGED promiseVars
<1>1. phase' = [j \in Job |-> phase'[j]]
  BY DEF OutboxInv, JobInv, WebhooksNext, CommitEmit, RollbackEmit, Emit, Drop, Post, Delivered,
         Failed, EndLoudly, Raise, Report, Switch, Enqueue, queueVars
<1>2. UNCHANGED mailVars
  BY DEF WebhooksNext, CommitEmit, RollbackEmit, Emit, Drop, Post, Delivered, Failed, Switch
<1>3. ASSUME NEW w \in Worker, Drop(w) \/ Post(w) \/ Delivered(w)
      PROVE  OutboxInv' /\ UNCHANGED promiseVars
  <2>1. PICK step \in {"done", "answered", "failing"} : Moves(w, step)
    BY <1>3 DEF Drop, Post, Delivered, Moves, At
  <2>2. step \in Step \ {"smtp", "accepted", "uncertain"} /\ tx' = tx
    BY <1>3 DEF Drop, Post, Delivered, Step
  <2> QED
    BY <1>1, <1>2, <2>1, <2>2, OtherMove
<1>4. ASSUME NEW w \in Worker, Failed(w) PROVE OutboxInv' /\ UNCHANGED promiseVars
  <2>1. exec[w] # NoExec /\ Stop(w) /\ UNCHANGED <<sends, adrift>> /\ Unwritten
        /\ \E status : phase' = [phase EXCEPT ![exec[w].job] = status]
    BY <1>2, <1>4 DEF Failed, EndLoudly, Raise, Report, At, mailVars, Unwritten
  <2> QED
    BY <2>1, StopStep
<1>5. ASSUME NEW c \in Client, CommitEmit(c) \/ RollbackEmit(c) \/ \E e \in Event : Emit(c, e)
      PROVE  OutboxInv' /\ UNCHANGED promiseVars
  <2>1. UNCHANGED exec /\ c \notin Worker /\ c \in Actor
    BY <1>5, ActorAssumption DEF CommitEmit, RollbackEmit, Emit, Actor
  <2>2. tx' = tx \/ \E t : tx' = [tx EXCEPT ![c] = t]
    BY <1>5 DEF CommitEmit, RollbackEmit, Emit, Open, Close
  <2> QED
    BY <1>1, <1>2, <2>1, <2>2, OtherTx
<1>6. ASSUME Switch PROVE OutboxInv' /\ UNCHANGED promiseVars
  <2>1. UNCHANGED <<exec, tx>>
    BY <1>6 DEF Switch
  <2> QED
    BY <1>1, <1>2, <2>1, OtherStep DEF OutboxInv, ExecInv, HolderInv, Holding
<1> QED
  BY <1>3, <1>4, <1>5, <1>6 DEF WebhooksNext

----------------------------------------------------------------------------
(* Every step.                                                             *)

LEMMA InvStep ==
    ASSUME OutboxInv, [Next]_vars
    PROVE  OutboxInv' /\ [Promise!Next]_promiseVars
<1>1. CASE Surroundings /\ UNCHANGED handlerVars
  BY <1>1, SurroundingsStep
<1>2. CASE \/ work = "rules" /\ AutomationNext /\ RulesOnly
           \/ work = "mails" /\ InvoiceMailNext /\ MailsOnly
           \/ work = "captures" /\ CaptureNext /\ CapturesOnly
           \/ work = "hooks" /\ WebhooksNext /\ HooksOnly
  <2>1. UNCHANGED work
    BY <1>2 DEF RulesOnly, MailsOnly, CapturesOnly, HooksOnly
  <2> QED
    BY <1>2, <2>1, RulesStep, MailsStep, CapturesStep, HooksStep
<1>3. CASE UNCHANGED vars
  <2>1. /\ UNCHANGED <<exec, tx>> /\ UNCHANGED <<sends, adrift>> /\ phase' = phase
        /\ UNCHANGED <<work, msg, run, firing, attached>>
    BY <1>3 DEF vars, workerVars, mailVars, automationVars, invoiceMailVars
  <2>2. Unwritten
    BY <2>1 DEF Unwritten
  <2> QED
    BY <2>1, <2>2, QueueStep DEF OutboxInv, JobInv
<1> QED
  BY <1>1, <1>2, <1>3 DEF Next

\* The outbox keeps its promise (deliver, record_outcome): for any workers,
\* clients, runs, mails, crashes, deadlines and lost leases, a mail leaves at
\* most once, after its intent was committed, and "sent" is only said, for good,
\* of a mail the relay accepted.
THEOREM SendOnceCorrect == Spec => ImplementsSendOnce
<1>1. Init => OutboxInv /\ Promise!Init
  BY InvInit
<1>2. OutboxInv /\ [Next]_vars => OutboxInv' /\ [Promise!Next]_promiseVars
  BY InvStep
<1> QED
  BY <1>1, <1>2, PTL DEF Spec, ImplementsSendOnce, Promise!Spec, promiseVars

----------------------------------------------------------------------------
(* The inductive invariant of the webhooks.                                *)

Told(e) == received[e] > 0 \/ e \in skipped

\* An open `emit` holds the key, which has no row yet.
EmitTx(a) ==
    LET t == tx[a] IN
    /\ a \in Client
    /\ t.event \in Event /\ t.row \in Delivery
    /\ t.locks = {t.event}
    /\ RowsOf(t.event) = {}

\* A row and its job are committed together; who is past the call was answered.
HookInv ==
    /\ delivery \in [Event -> [Delivery -> {"absent", "pending", "delivered", "failed"}]]
    /\ received \in [Event -> Nat]
    /\ \A e \in Event : \A c, d \in RowsOf(e) : c = d
    /\ \A a \in Actor : tx[a] # NoTx => EmitTx(a)
    /\ \A a, b \in Actor :
         tx[a] # NoTx /\ tx[b] # NoTx /\ tx[a].event = tx[b].event => a = b
    /\ \A j \in Job : phase[j] # "absent" =>
         \E e \in Event, d \in Delivery : j = HookJob(e, d) /\ delivery[e][d] # "absent"
    /\ \A w \in Worker : exec[w] # NoExec =>
         /\ phase[exec[w].job] # "absent"
         /\ At(w, "answered") => received[EventOf(w)] > 0
         /\ At(w, "done") => Told(EventOf(w))
    /\ \A e \in Event, d \in Delivery : phase[HookJob(e, d)] = "succeeded" => Told(e)

\* Behaviours that do not exercise webhooks have no hook job.
NoHooks ==
    /\ \A e \in Event : \A d \in Delivery : delivery[e][d] = "absent"
    /\ \A j \in Job : j[1] = "hook" => phase[j] = "absent"
    /\ \A w \in Worker : exec[w] # NoExec => phase[exec[w].job] # "absent"
    /\ work = "captures" =>
         \A a \in Actor : tx[a] # NoTx => \A j \in tx[a].jobs : j[1] = "extract"

HooksInv == IF work = "hooks" THEN HookInv ELSE NoHooks

----------------------------------------------------------------------------
(* What happens around the handlers.                                       *)

\* Executions end, are waited for, or begin at a queued job; jobs succeed by a
\* report; transactions stay as they are or are over.
Around ==
    /\ \A w \in Worker :
         \/ exec'[w] = NoExec
         \/ exec[w] # NoExec /\ exec'[w].job = exec[w].job
              /\ \/ exec'[w].at = exec[w].at
                 \/ exec[w].at = "smtp" /\ exec'[w].at \in {"accepted", "uncertain"}
         \/ /\ exec[w] = NoExec
            /\ exec'[w].at = "begin" /\ exec'[w].job \in Job /\ phase[exec'[w].job] = "queued"
    /\ phase' = [j \in Job |-> phase'[j]]
    /\ \A j \in Job : phase'[j] = "absent" <=> phase[j] = "absent"
    /\ \A j \in Job : phase'[j] = "succeeded" =>
         phase[j] = "succeeded" \/ \E w \in Worker : At(w, "done") /\ exec[w].job = j
    /\ \A a \in Actor : tx'[a] \in {NoTx, tx[a]}

\* An execution ends, and its job is reported, or abandoned.
LEMMA StopAround ==
    ASSUME OutboxInv, NEW w \in Worker, exec[w] # NoExec, Stop(w),
           \/ phase' = phase
           \/ \E status \in {"queued", "dead", "succeeded"} :
                /\ phase' = [phase EXCEPT ![exec[w].job] = status]
                /\ status = "succeeded" => At(w, "done"),
           phase[exec[w].job] # "absent"
    PROVE  Around
<1>1. /\ exec[w].job \in Job /\ phase = [j \in Job |-> phase[j]]
      /\ exec = [v \in Worker |-> exec[v]] /\ tx = [a \in Actor |-> tx[a]]
  BY DEF OutboxInv, ExecInv, JobInv, HolderInv
<1>2. exec'[w] = NoExec /\ \A v \in Worker : v # w => exec'[v] = exec[v]
  BY <1>1 DEF Stop
<1>3. \A a \in Actor : tx'[a] \in {NoTx, tx[a]}
  BY <1>1 DEF Stop, Close
<1>4. CASE phase' = phase
  BY <1>1, <1>2, <1>3, <1>4 DEF Around
<1>5. ASSUME NEW status \in {"queued", "dead", "succeeded"}, status = "succeeded" => At(w, "done"),
             phase' = [phase EXCEPT ![exec[w].job] = status]
      PROVE  Around
  <2>1. phase' = [j \in Job |-> phase'[j]] /\ phase'[exec[w].job] = status
        /\ \A j \in Job : j # exec[w].job => phase'[j] = phase[j]
    BY <1>1, <1>5
  <2>2. \A j \in Job : phase'[j] = "absent" <=> phase[j] = "absent"
    BY <2>1
  <2>3. \A j \in Job : phase'[j] = "succeeded" =>
          phase[j] = "succeeded" \/ \E v \in Worker : At(v, "done") /\ exec[v].job = j
    BY <1>5, <2>1
  <2> QED
    BY <1>2, <1>3, <2>1, <2>2, <2>3 DEF Around
<1> QED
  BY <1>4, <1>5

LEMMA SurroundingsAround ==
    ASSUME OutboxInv, Surroundings,
           \A w \in Worker : exec[w] # NoExec => phase[exec[w].job] # "absent"
    PROVE  Around
<1> USE DEF OutboxInv
<1>1. /\ phase = [j \in Job |-> phase[j]]
      /\ exec = [v \in Worker |-> exec[v]] /\ tx = [a \in Actor |-> tx[a]]
  BY DEF ExecInv, JobInv, HolderInv
<1>2. ASSUME NEW w \in Worker, SmtpAccept(w) \/ SmtpError(w) PROVE Around
  <2>1. PICK step \in {"accepted", "uncertain"} : Goto(w, step)
    BY <1>2 DEF SmtpAccept, SmtpError
  <2>2. exec[w] # NoExec /\ exec[w].at = "smtp" /\ UNCHANGED <<tx, phase>>
    BY <1>2 DEF SmtpAccept, SmtpError, At, queueVars
  <2>3. exec'[w].job = exec[w].job /\ exec'[w].at = step /\ \A v \in Worker : v # w => exec'[v] = exec[v]
    BY <1>1, <2>1, <2>2 DEF Goto, ExecInv
  <2>4. \A v \in Worker : \/ exec'[v] = NoExec
                          \/ exec[v] # NoExec /\ exec'[v].job = exec[v].job
                               /\ \/ exec'[v].at = exec[v].at
                                  \/ exec[v].at = "smtp" /\ exec'[v].at \in {"accepted", "uncertain"}
    BY <2>2, <2>3
  <2> QED
    BY <1>1, <2>2, <2>4 DEF Around
<1>3. ASSUME NEW w \in Worker, Finish(w) \/ Refuse(w) \/ Crash(w) \/ Break(w) PROVE Around
  <2>1. Stop(w) /\ exec[w] # NoExec
    BY <1>3 DEF Finish, Refuse, Crash, Break, Raise, At
  <2>2. \/ phase' = phase
        \/ \E status \in {"queued", "dead", "succeeded"} :
                /\ phase' = [phase EXCEPT ![exec[w].job] = status]
                /\ status = "succeeded" => At(w, "done")
    BY <1>3 DEF Finish, Refuse, Crash, Break, Raise, Report, Queue!Abandon, queueVars
  <2> QED
    BY <2>1, <2>2, StopAround
<1>4. ASSUME NEW w \in Worker, NEW j \in Job, Take(w, j) PROVE Around
  <2>1. /\ exec' = [exec EXCEPT ![w] = [job |-> j, at |-> "begin"]]
        /\ exec[w] = NoExec /\ tx' = tx
        /\ phase[j] = "queued" /\ phase' = [phase EXCEPT ![j] = "running"]
    BY <1>4 DEF Take, Queue!Start
  <2>2. \A v \in Worker : v # w => exec'[v] = exec[v]
    BY <1>1, <2>1
  <2>3. exec'[w].at = "begin" /\ exec'[w].job = j
    BY <1>1, <2>1
  <2>4. \A v \in Worker :
          \/ exec'[v] = NoExec
          \/ exec[v] # NoExec /\ exec'[v].job = exec[v].job /\ exec'[v].at = exec[v].at
          \/ /\ exec[v] = NoExec
             /\ exec'[v].at = "begin" /\ exec'[v].job \in Job /\ phase[exec'[v].job] = "queued"
    BY <2>1, <2>2, <2>3
  <2>5. /\ phase' = [i \in Job |-> phase'[i]]
        /\ \A i \in Job : i # j => phase'[i] = phase[i]
        /\ phase'[j] = "running"
    BY <1>1, <2>1
  <2> QED
    BY <1>1, <2>1, <2>4, <2>5 DEF Around
<1>5. ASSUME NEW j \in Job, Reclaim(j) \/ Revive(j) PROVE Around
  <2>1. UNCHANGED <<exec, tx>>
    BY <1>5 DEF Reclaim, Revive
  <2>2. /\ \A i \in Job : phase[i] = "absent" <=> phase'[i] = "absent"
        /\ \A i \in Job : phase'[i] = "succeeded" => phase[i] = "succeeded"
        /\ phase' = [i \in Job |-> phase'[i]]
    BY <1>1, <1>5 DEF Reclaim, Revive, Queue!Recover, Queue!Retry
  <2> QED
    BY <1>1, <2>1, <2>2 DEF Around
<1>6. ASSUME \/ \E w \in Worker : LoseLease(w)
             \/ \E m \in Msg : Land(m)
             \/ Toggle
      PROVE  Around
  <2>1. UNCHANGED <<exec, tx, phase>>
    BY <1>6 DEF LoseLease, Queue!Abandon, Land, Toggle, workerVars, queueVars
  <2> QED
    BY <1>1, <2>1 DEF Around
<1> QED
  BY <1>2, <1>3, <1>4, <1>5, <1>6 DEF Surroundings, Serve, Repair, Trouble

----------------------------------------------------------------------------
(* Webhooks.                                                               *)

\* The job of a row is the job of an execution on it.
LEMMA RowOfHook ==
    ASSUME HookInv, OutboxInv, NEW w \in Worker, exec[w] # NoExec
    PROVE  /\ EventOf(w) \in Event /\ RowOf(w) \in Delivery
           /\ exec[w].job = HookJob(EventOf(w), RowOf(w))
           /\ delivery[EventOf(w)][RowOf(w)] # "absent"
<1>1. PICK e \in Event, d \in Delivery : exec[w].job = HookJob(e, d) /\ delivery[e][d] # "absent"
  BY DEF HookInv, OutboxInv, ExecInv
<1> QED
  BY <1>1 DEF HookJob, EventOf, RowOf

\* Jobs, executions and transactions, when no event is noted.
LEMMA HooksAround ==
    ASSUME HookInv, OutboxInv, Around, UNCHANGED webhookVars
    PROVE  HookInv'
<1>1. UNCHANGED <<delivery, received, skipped>>
  BY DEF webhookVars
<1>2. \A e : RowsOf(e)' = RowsOf(e) /\ (Told(e) => Told(e)')
  BY <1>1 DEF RowsOf, Told
<1>3. ASSUME NEW w \in Worker, exec'[w] # NoExec
      PROVE  /\ phase'[exec'[w].job] # "absent"
             /\ At(w, "answered")' => received'[EventOf(w)'] > 0
             /\ At(w, "done")' => Told(EventOf(w))'
  <2>1. CASE /\ exec[w] # NoExec /\ exec'[w].job = exec[w].job
             /\ exec'[w].at \in {exec[w].at, "accepted", "uncertain"}
    BY <1>1, <1>2, <2>1 DEF HookInv, OutboxInv, ExecInv, Around, At, EventOf
  <2>2. CASE exec'[w].at = "begin" /\ exec'[w].job \in Job /\ phase[exec'[w].job] = "queued"
    BY <2>2 DEF Around, At
  <2> QED
    BY <1>3, <2>1, <2>2 DEF Around
<1>4. ASSUME NEW e \in Event, NEW d \in Delivery, phase'[HookJob(e, d)] = "succeeded"
      PROVE  Told(e)'
  <2>1. HookJob(e, d) \in Job
    BY WebhooksAssumption
  <2>2. CASE phase[HookJob(e, d)] = "succeeded"
    BY <1>2, <2>2 DEF HookInv
  <2>3. ASSUME NEW w \in Worker, At(w, "done"), exec[w].job = HookJob(e, d) PROVE Told(e)'
    BY <1>2, <2>3 DEF HookInv, At, EventOf, HookJob
  <2> QED
    BY <1>4, <2>1, <2>2, <2>3 DEF Around
<1>5. \A a \in Actor : tx'[a] # NoTx => tx'[a] = tx[a] /\ EmitTx(a)'
  <2> SUFFICES ASSUME NEW a \in Actor, tx'[a] # NoTx PROVE tx'[a] = tx[a] /\ EmitTx(a)'
    OBVIOUS
  <2>1. tx'[a] = tx[a] /\ EmitTx(a)
    BY DEF Around, HookInv
  <2> QED
    BY <1>2, <2>1 DEF EmitTx
<1>6. \A j \in Job : phase'[j] # "absent" =>
        \E e \in Event, d \in Delivery : j = HookJob(e, d) /\ delivery'[e][d] # "absent"
  BY <1>1 DEF Around, HookInv
<1> QED
  BY <1>1, <1>2, <1>3, <1>4, <1>5, <1>6 DEF HookInv

LEMMA EmitStep ==
    ASSUME HookInv, OutboxInv, NEW c \in Client, NEW e \in Event, Emit(c, e)
    PROVE  HookInv'
<1>1. PICK d \in Delivery : Open(c, [op |-> "emit", locks |-> KeyLocks(e), event |-> e, row |-> d])
  BY DEF Emit
<1> DEFINE t == [op |-> "emit", locks |-> KeyLocks(e), event |-> e, row |-> d]
<1>2. t.event = e /\ t.row = d /\ t.locks = {e}
  BY DEF KeyLocks
<1>3. Open(c, t) /\ c \in Actor /\ UNCHANGED <<phase, exec, delivery, received, skipped>>
  BY <1>1 DEF Emit, Actor, queueVars, webhookVars
<1> HIDE DEF t
<1>4. tx'[c] = t /\ \A a \in Actor : a # c => tx'[a] = tx[a]
  BY <1>3 DEF Open, OutboxInv, HolderInv
<1>5. \A a \in Actor : tx[a] # NoTx => tx[a].event # e
  BY <1>2, <1>3 DEF Open, Locked, HookInv, EmitTx
<1>6. \A x : RowsOf(x)' = RowsOf(x) /\ (Told(x) => Told(x)')
  BY <1>3 DEF RowsOf, Told
<1>7. \A a \in Actor : tx'[a] # NoTx => EmitTx(a)'
  BY <1>2, <1>4, <1>6 DEF HookInv, EmitTx, Emit
<1>8. \A a, b \in Actor : tx'[a] # NoTx /\ tx'[b] # NoTx /\ tx'[a].event = tx'[b].event => a = b
  BY <1>2, <1>4, <1>5 DEF HookInv
<1> QED
  BY <1>3, <1>6, <1>7, <1>8 DEF HookInv, At, EventOf

LEMMA RollbackEmitStep ==
    ASSUME HookInv, OutboxInv, NEW c \in Client, RollbackEmit(c)
    PROVE  HookInv'
<1>1. Around
  BY DEF RollbackEmit, Close, Around, queueVars, OutboxInv, HolderInv, JobInv
<1> QED
  BY <1>1, HooksAround DEF RollbackEmit

\* The row of a new key and its job.
LEMMA CommitEmitStep ==
    ASSUME HookInv, OutboxInv, NEW c \in Client, CommitEmit(c)
    PROVE  HookInv'
<1>1. PICK e \in Event, d \in Delivery : e = tx[c].event /\ d = tx[c].row /\ RowsOf(e) = {}
  BY DEF CommitEmit, HookInv, EmitTx, Actor
<1>2. /\ delivery' = [delivery EXCEPT ![e][d] = "pending"]
      /\ UNCHANGED <<exec, received, skipped>> /\ tx[c] # NoTx /\ c \in Actor
      /\ tx' = [tx EXCEPT ![c] = NoTx]
  BY <1>1 DEF CommitEmit, Close, Actor
<1>3. /\ delivery' \in [Event -> [Delivery -> {"absent", "pending", "delivered", "failed"}]]
      /\ delivery'[e][d] = "pending"
      /\ \A x \in Delivery : x # d => delivery'[e][x] = "absent"
      /\ \A x \in Event : x # e => delivery'[x] = delivery[x]
  BY <1>1, <1>2 DEF HookInv, RowsOf
<1>4. RowsOf(e)' = {d} /\ \A x \in Event : x # e => RowsOf(x)' = RowsOf(x)
  BY <1>3 DEF RowsOf
<1>5. \A a \in Actor : tx'[a] # NoTx => a # c /\ tx'[a] = tx[a] /\ tx[a].event # e
  BY <1>1, <1>2 DEF HookInv, OutboxInv, HolderInv
<1>6. \A a \in Actor : tx'[a] # NoTx => EmitTx(a)'
  BY <1>4, <1>5 DEF HookInv, EmitTx
<1>7. /\ \A j \in Job : phase'[j] \in {phase[j], "queued"}
      /\ \A j \in Job : phase'[j] # phase[j] => j = HookJob(e, d)
      /\ \A j \in Job : phase[j] # "absent" => phase'[j] = phase[j]
  BY <1>1 DEF CommitEmit, Enqueue
<1>8. \A j \in Job : phase'[j] # "absent" =>
        \E x \in Event, y \in Delivery : j = HookJob(x, y) /\ delivery'[x][y] # "absent"
  <2> TAKE j \in Job
  <2>1. CASE phase'[j] # phase[j]
    BY <1>3, <1>7, <2>1
  <2>2. CASE phase'[j] = phase[j] /\ phase[j] # "absent"
    <3>1. PICK x \in Event, y \in Delivery : j = HookJob(x, y) /\ delivery[x][y] # "absent"
      BY <2>2 DEF HookInv
    <3>2. x # e
      BY <1>1, <3>1 DEF RowsOf
    <3> QED
      BY <1>3, <3>1, <3>2
  <2> QED
    BY <2>1, <2>2
<1>9. \A x \in Event, y \in Delivery : phase'[HookJob(x, y)] = "succeeded" => Told(x)'
  BY <1>2, <1>7, WebhooksAssumption DEF HookInv, Told
<1>10. \A w \in Worker : exec'[w] # NoExec =>
         /\ phase'[exec'[w].job] # "absent"
         /\ At(w, "answered")' => received'[EventOf(w)'] > 0
         /\ At(w, "done")' => Told(EventOf(w))'
  BY <1>2, <1>7 DEF HookInv, OutboxInv, ExecInv, At, EventOf, Told
<1> QED
  BY <1>2, <1>3, <1>4, <1>5, <1>6, <1>8, <1>9, <1>10 DEF HookInv

\* A worker notes an outcome on its row, and its execution moves on or ends.
LEMMA NoteStep ==
    ASSUME HookInv, OutboxInv, NEW w \in Worker, exec[w] # NoExec,
           NEW status \in {"pending", "delivered", "failed"},
           delivery' = delivery \/ Note(w, status),
           received' \in [Event -> Nat],
           \A e \in Event : received[e] > 0 => received'[e] > 0,
           skipped \subseteq skipped',
           \A a \in Actor : tx'[a] \in {NoTx, tx[a]},
           \A j \in Job : phase'[j] \in {phase[j], "queued", "dead"},
           \A j \in Job : phase[j] = "absent" <=> phase'[j] = "absent",
           \A v \in Worker : v # w => exec'[v] = exec[v],
           \/ exec'[w] = NoExec
           \/ /\ exec'[w].job = exec[w].job
              /\ exec'[w].at = "answered" => received'[EventOf(w)] > 0
              /\ exec'[w].at = "done" => Told(EventOf(w))'
    PROVE  HookInv'
<1>1. PICK e \in Event, d \in Delivery :
         e = EventOf(w) /\ d = RowOf(w) /\ delivery[e][d] # "absent"
  BY RowOfHook
<1>2. /\ delivery' \in [Event -> [Delivery -> {"absent", "pending", "delivered", "failed"}]]
      /\ \A x \in Event : \A y \in Delivery : delivery'[x][y] = "absent" <=> delivery[x][y] = "absent"
  <2>1. CASE delivery' = delivery
    BY <2>1 DEF HookInv
  <2>2. CASE delivery' = [delivery EXCEPT ![e][d] = status]
    <3>1. /\ \A x \in Event : x # e => delivery'[x] = delivery[x]
          /\ \A y \in Delivery : delivery'[e][y] = IF y = d THEN status ELSE delivery[e][y]
      BY <2>2 DEF HookInv
    <3>2. delivery' \in [Event -> [Delivery -> {"absent", "pending", "delivered", "failed"}]]
      BY <2>2 DEF HookInv
    <3> QED
      BY <1>1, <3>1, <3>2
  <2> QED
    BY <1>1, <2>1, <2>2 DEF Note
<1>3. \A x \in Event : RowsOf(x)' = RowsOf(x) /\ (Told(x) => Told(x)')
  <2> TAKE x \in Event
  <2>1. RowsOf(x)' = RowsOf(x)
    BY <1>2 DEF RowsOf
  <2>2. Told(x) => Told(x)'
    BY DEF Told
  <2> QED
    BY <2>1, <2>2
<1>4. \A a \in Actor : tx'[a] # NoTx => tx'[a] = tx[a] /\ EmitTx(a)'
  <2> SUFFICES ASSUME NEW a \in Actor, tx'[a] # NoTx PROVE tx'[a] = tx[a] /\ EmitTx(a)'
    OBVIOUS
  <2>1. tx'[a] = tx[a] /\ EmitTx(a)
    BY DEF HookInv
  <2> QED
    BY <1>3, <2>1 DEF EmitTx
<1>5. \A j \in Job : phase'[j] # "absent" =>
        \E x \in Event, y \in Delivery : j = HookJob(x, y) /\ delivery'[x][y] # "absent"
  BY <1>2 DEF HookInv
<1>6. \A x \in Event, y \in Delivery : phase'[HookJob(x, y)] = "succeeded" => Told(x)'
  BY <1>3, WebhooksAssumption DEF HookInv
<1>7. ASSUME NEW v \in Worker, exec'[v] # NoExec
      PROVE  /\ phase'[exec'[v].job] # "absent"
             /\ At(v, "answered")' => received'[EventOf(v)'] > 0
             /\ At(v, "done")' => Told(EventOf(v))'
  <2>1. CASE v # w
    <3>1. exec'[v] = exec[v] /\ exec[v] # NoExec /\ EventOf(v) \in Event
      BY <1>7, <2>1, RowOfHook
    <3> QED
      BY <1>3, <3>1 DEF HookInv, OutboxInv, ExecInv, At, EventOf
  <2>2. CASE v = w
    BY <1>7, <2>2 DEF HookInv, OutboxInv, ExecInv, At, EventOf
  <2> QED
    BY <2>1, <2>2
<1> QED
  BY <1>2, <1>3, <1>4, <1>5, <1>6, <1>7 DEF HookInv

\* A worker moves on, or ends with a failure.
LEMMA WorkerHooks ==
    ASSUME HookInv, OutboxInv, NEW w \in Worker, Drop(w) \/ Post(w) \/ Delivered(w) \/ Failed(w)
    PROVE  HookInv'
<1>1. /\ EventOf(w) \in Event /\ exec[w] # NoExec /\ exec[w].job \in Job
      /\ ExecInv /\ received \in [Event -> Nat] /\ phase = [j \in Job |-> phase[j]]
      /\ tx = [a \in Actor |-> tx[a]]
  BY RowOfHook DEF Drop, Post, Delivered, Failed, At, OutboxInv, ExecInv, HookInv, JobInv, HolderInv
<1>2. ASSUME NEW step \in Step, Goto(w, step)
      PROVE  exec'[w].job = exec[w].job /\ exec'[w].at = step
             /\ \A v \in Worker : v # w => exec'[v] = exec[v]
  <2>1. Moves(w, step)
    BY <1>1, <1>2 DEF Moves
  <2>2. exec'[w] = [job |-> exec[w].job, at |-> step] /\ \A v \in Worker : v # w => exec'[v] = exec[v]
    BY <1>1, <2>1, MoveExec
  <2> QED
    BY <2>2
<1>3. CASE Drop(w)
  <2>1. /\ Goto(w, "done") /\ Note(w, "failed") /\ skipped' = skipped \cup {EventOf(w)}
        /\ UNCHANGED <<received, phase, tx>>
    BY <1>3 DEF Drop, queueVars
  <2>2. exec'[w].job = exec[w].job /\ exec'[w].at = "done"
        /\ \A v \in Worker : v # w => exec'[v] = exec[v]
    BY <1>2, <2>1 DEF Step
  <2>3. Told(EventOf(w))'
    <3>1. EventOf(w)' = EventOf(w)
      BY <2>2 DEF EventOf
    <3> QED
      BY <2>1, <3>1 DEF Told
  <2>4. EventOf(w) \in skipped'
    BY <2>1
  <2> QED
    BY <1>1, <2>1, <2>2, <2>3, NoteStep
<1>4. CASE Post(w)
  <2>1. /\ UNCHANGED <<delivery, skipped, phase, tx>>
        /\ \/ /\ Goto(w, "answered") \/ Goto(w, "failing")
              /\ received' = [received EXCEPT ![EventOf(w)] = @ + 1]
           \/ Goto(w, "failing") /\ UNCHANGED received
    BY <1>4 DEF Post, queueVars
  <2>2. /\ exec'[w].job = exec[w].job
        /\ \/ exec'[w].at \in {"answered", "failing"} /\ received' = [received EXCEPT ![EventOf(w)] = @ + 1]
           \/ exec'[w].at = "failing" /\ UNCHANGED received
        /\ \A v \in Worker : v # w => exec'[v] = exec[v]
    BY <1>2, <2>1 DEF Step
  <2>3. /\ received' \in [Event -> Nat] /\ \A e \in Event : received[e] > 0 => received'[e] > 0
        /\ exec'[w].at = "answered" => received'[EventOf(w)] > 0
    BY <1>1, <2>2
  <2>4. exec'[w].at # "done"
    BY <2>2
  <2> QED
    BY <1>1, <2>1, <2>2, <2>3, <2>4, NoteStep
<1>5. CASE Delivered(w)
  <2>1. /\ Goto(w, "done") /\ Note(w, "delivered") /\ At(w, "answered")
        /\ UNCHANGED <<received, skipped, phase, tx>>
    BY <1>5 DEF Delivered, queueVars
  <2>2. exec'[w].job = exec[w].job /\ exec'[w].at = "done"
        /\ \A v \in Worker : v # w => exec'[v] = exec[v]
    BY <1>2, <2>1 DEF Step
  <2>3. Told(EventOf(w))'
    <3>1. EventOf(w)' = EventOf(w) /\ received[EventOf(w)] > 0
      BY <1>1, <2>1, <2>2 DEF EventOf, HookInv
    <3> QED
      BY <2>1, <3>1 DEF Told
  <2> QED
    BY <1>1, <2>1, <2>2, <2>3, NoteStep
<1>6. CASE Failed(w)
  <2>1. /\ Stop(w) /\ Note(w, "failed") /\ UNCHANGED <<received, skipped>>
        /\ phase' = [phase EXCEPT ![exec[w].job] =
                       IF tries[exec[w].job] < MaxAttempts THEN "queued" ELSE "dead"]
    BY <1>6 DEF Failed, EndLoudly, Raise, Report
  <2>2. exec'[w] = NoExec /\ \A v \in Worker : v # w => exec'[v] = exec[v]
    BY <1>1, <2>1 DEF Stop, ExecInv
  <2>3. \A a \in Actor : tx'[a] \in {NoTx, tx[a]}
    BY <1>1, <2>1 DEF Stop, Close
  <2>4. phase[exec[w].job] # "absent"
    BY <1>1 DEF HookInv
  <2>5. /\ \A j \in Job : phase'[j] \in {phase[j], "queued", "dead"}
        /\ \A j \in Job : phase[j] = "absent" <=> phase'[j] = "absent"
    BY <1>1, <2>1, <2>4
  <2> QED
    BY <1>1, <2>1, <2>2, <2>3, <2>5, NoteStep
<1> QED
  BY <1>3, <1>4, <1>5, <1>6

LEMMA SwitchStep ==
    ASSUME HookInv, Switch
    PROVE  HookInv'
BY DEF Switch, queueVars, HookInv, RowsOf, EmitTx, Told, At, EventOf

----------------------------------------------------------------------------
(* Behaviours without webhooks.                                            *)

\* Executions go on, and jobs of another kind are queued.
LEMMA OtherJobs ==
    ASSUME NoHooks, OutboxInv, UNCHANGED work, UNCHANGED delivery,
           \A w \in Worker : \/ exec'[w] = exec[w]
                             \/ exec[w] # NoExec /\ exec'[w].job = exec[w].job,
           \A j \in Job : phase'[j] # phase[j] => phase[j] = "absent" /\ phase'[j] = "queued" /\ j[1] # "hook",
           work = "captures" => \A a \in Actor : tx'[a] # NoTx => \A j \in tx'[a].jobs : j[1] = "extract"
    PROVE  NoHooks'
<1>1. \A j \in Job : phase[j] # "absent" => phase'[j] # "absent"
  OBVIOUS
<1> QED
  BY <1>1 DEF NoHooks, OutboxInv, ExecInv

LEMMA NoHooksAround ==
    ASSUME NoHooks, OutboxInv, Around, UNCHANGED <<work, delivery>>
    PROVE  NoHooks'
<1>1. \A w \in Worker : exec'[w] # NoExec => phase'[exec'[w].job] # "absent"
  BY DEF NoHooks, OutboxInv, ExecInv, Around
<1>2. \A a \in Actor : tx'[a] # NoTx => tx'[a] = tx[a]
  BY DEF Around
<1>3. \A j \in Job : j[1] = "hook" => phase'[j] = "absent"
  BY DEF NoHooks, Around
<1> QED
  BY <1>1, <1>2, <1>3 DEF NoHooks

LEMMA RulesHooks ==
    ASSUME NoHooks, OutboxInv, work = "rules", AutomationNext, RulesOnly
    PROVE  NoHooks'
<1>1. UNCHANGED <<work, delivery>>
  BY DEF RulesOnly, webhookVars
<1>2. ASSUME UNCHANGED <<exec, phase>> PROVE NoHooks'
  BY <1>1, <1>2, OtherJobs
<1>3. ASSUME NEW a \in Actor, CommitRun(a) PROVE NoHooks'
  <2>1. RunTx(a)
    BY <1>3 DEF OutboxInv, RulesInv, CommitRun
  <2>2. \A j \in tx[a].jobs : j[1] # "hook"
    BY <2>1 DEF RunTx
  <2>3. \A j \in Job : phase'[j] # phase[j] => phase[j] = "absent" /\ phase'[j] = "queued" /\ j[1] # "hook"
    BY <1>3, <2>2 DEF CommitRun, Enqueue
  <2>4. \A w \in Worker : exec'[w] = exec[w] \/ (exec[w] # NoExec /\ exec'[w].job = exec[w].job)
    <3>1. CASE a \in Worker
      <4>1. Goto(a, tx[a].next) /\ exec[a] # NoExec /\ ExecInv
        BY <1>3, <3>1 DEF CommitRun, OutboxInv, HolderInv
      <4> QED
        BY <3>1, <4>1 DEF Goto, ExecInv
    <3>2. CASE a \notin Worker
      BY <1>3, <3>2 DEF CommitRun
    <3> QED
      BY <3>1, <3>2
  <2> QED
    BY <1>1, <2>3, <2>4, OtherJobs
<1> QED
  BY <1>2, <1>3 DEF AutomationNext, Sweep, Retry, Attempt, Record, SetStatus, queueVars

LEMMA MailsHooks ==
    ASSUME NoHooks, OutboxInv, work = "mails", InvoiceMailNext, MailsOnly
    PROVE  NoHooks'
<1>1. UNCHANGED <<work, delivery>>
  BY DEF MailsOnly, webhookVars
<1>2. ASSUME UNCHANGED <<exec, phase>> PROVE NoHooks'
  BY <1>1, <1>2, OtherJobs
<1>3. ASSUME NEW a \in Actor, CommitMail(a) PROVE NoHooks'
  <2>1. MailTx(a)
    BY <1>3 DEF OutboxInv, MailsInv, CommitMail
  <2>2. \A j \in tx[a].jobs : j[1] # "hook"
    BY <2>1 DEF MailTx
  <2>3. \A j \in Job : phase'[j] # phase[j] => phase[j] = "absent" /\ phase'[j] = "queued" /\ j[1] # "hook"
    BY <1>3, <2>2 DEF CommitMail, Enqueue
  <2>4. \A w \in Worker : exec'[w] = exec[w] \/ (exec[w] # NoExec /\ exec'[w].job = exec[w].job)
    <3>1. CASE a \in Worker
      <4>1. Goto(a, tx[a].next) /\ exec[a] # NoExec /\ ExecInv
        BY <1>3, <3>1 DEF CommitMail, OutboxInv, HolderInv
      <4> QED
        BY <3>1, <4>1 DEF Goto, ExecInv
    <3>2. CASE a \notin Worker
      BY <1>3, <3>2 DEF CommitMail
    <3> QED
      BY <3>1, <3>2
  <2> QED
    BY <1>1, <2>3, <2>4, OtherJobs
<1> QED
  BY <1>2, <1>3 DEF InvoiceMailNext, Send, Deliver, Conclude, Reclassify, queueVars

LEMMA CapturesHooks ==
    ASSUME NoHooks, OutboxInv, work = "captures", CaptureNext, CapturesOnly
    PROVE  NoHooks'
<1>1. UNCHANGED <<work, delivery>>
  BY DEF CapturesOnly, webhookVars
<1>2. tx = [a \in Actor |-> tx[a]] /\ exec = [w \in Worker |-> exec[w]]
      /\ \A a \in Actor : tx[a] # NoTx => \A j \in tx[a].jobs : j[1] = "extract"
  BY DEF OutboxInv, HolderInv, ExecInv, NoHooks
<1>3. ASSUME NEW a \in Actor, NEW t, Open(a, t), \A j \in t.jobs : j[1] = "extract",
             UNCHANGED <<exec, phase>>
      PROVE  NoHooks'
  <2>1. \A b \in Actor : tx'[b] # NoTx => \A j \in tx'[b].jobs : j[1] = "extract"
    BY <1>2, <1>3 DEF Open
  <2> QED
    BY <1>1, <1>3, <2>1, OtherJobs
<1>4. ASSUME NEW w \in Worker, Extract(w) \/ Progress(w) \/ Skip(w) PROVE NoHooks'
  <2>1. UNCHANGED <<tx, phase>>
    BY <1>4 DEF Extract, Progress, Skip, queueVars
  <2>2. exec' = exec \/ (exec[w] # NoExec /\ \E step : Goto(w, step))
    BY <1>4 DEF Extract, Progress, Skip, At
  <2>3. \A v \in Worker : exec'[v] = exec[v] \/ (exec[v] # NoExec /\ exec'[v].job = exec[v].job)
    BY <1>2, <2>2 DEF Goto, OutboxInv, ExecInv
  <2> QED
    BY <1>1, <1>2, <2>1, <2>3, OtherJobs
<1>5. ASSUME NEW w \in Worker, Publish(w) PROVE NoHooks'
  <2>1. PICK row : Open(w, Change("publish", PublishLocks, row, 0, {}))
    BY <1>5 DEF Publish
  <2>2. Change("publish", PublishLocks, row, 0, {}).jobs = {}
    BY DEF Change
  <2> QED
    BY <1>3, <1>5, <2>1, <2>2 DEF Publish, Actor, queueVars
<1>6. ASSUME NEW c \in Client, Correct(c) \/ SaveInvoice(c) \/ \E ask \in BOOLEAN : Reread(c, ask)
      PROVE  NoHooks'
  <2>1. PICK op, locks, row, discarded, jobs :
           Open(c, Change(op, locks, row, discarded, jobs)) /\ \A j \in jobs : j[1] = "extract"
    BY <1>6 DEF Correct, SaveInvoice, Reread, AttemptJob
  <2>2. Change(op, locks, row, discarded, jobs).jobs = jobs
    BY DEF Change
  <2>3. UNCHANGED <<exec, phase>>
    BY <1>6 DEF Correct, SaveInvoice, Reread, queueVars
  <2> QED
    BY <1>3, <2>1, <2>2, <2>3 DEF Actor
<1>7. ASSUME NEW c \in Client, Admit(c) PROVE NoHooks'
  <2>1. \A j \in Job : phase'[j] # phase[j] => phase[j] = "absent" /\ phase'[j] = "queued" /\ j[1] # "hook"
    BY <1>7 DEF Admit, Enqueue, AttemptJob
  <2>2. UNCHANGED <<exec, tx>>
    BY <1>7 DEF Admit
  <2> QED
    BY <1>1, <1>2, <2>1, <2>2, OtherJobs
<1>8. ASSUME NEW a \in Actor, CommitCapture(a) PROVE NoHooks'
  <2>1. tx[a] # NoTx /\ Enqueue(tx[a].jobs) /\ Close(a)
    BY <1>8 DEF CommitCapture
  <2>2. \A j \in Job : phase'[j] # phase[j] => phase[j] = "absent" /\ phase'[j] = "queued" /\ j[1] # "hook"
    BY <1>2, <2>1 DEF Enqueue
  <2>3. \A w \in Worker : exec'[w] = exec[w] \/ (exec[w] # NoExec /\ exec'[w].job = exec[w].job)
    <3>1. CASE a \in Worker
      <4>1. Goto(a, "done") /\ exec[a] # NoExec /\ ExecInv
        BY <1>8, <2>1, <3>1 DEF CommitCapture, OutboxInv, HolderInv
      <4> QED
        BY <3>1, <4>1 DEF Goto, ExecInv
    <3>2. CASE a \notin Worker
      BY <1>8, <3>2 DEF CommitCapture
    <3> QED
      BY <3>1, <3>2
  <2>4. \A b \in Actor : tx'[b] # NoTx => \A j \in tx'[b].jobs : j[1] = "extract"
    BY <1>2, <2>1 DEF Close
  <2> QED
    BY <1>1, <2>2, <2>3, <2>4, OtherJobs
<1> QED
  BY <1>4, <1>5, <1>6, <1>7, <1>8 DEF CaptureNext

----------------------------------------------------------------------------
(* Every step, and the theorem.                                            *)

LEMMA HooksInit == Init => HooksInv
<1> SUFFICES ASSUME Init PROVE HooksInv
  OBVIOUS
<1>1. /\ phase = [j \in Job |-> "absent"] /\ exec = [w \in Worker |-> NoExec]
      /\ tx = [a \in Actor |-> NoTx]
      /\ delivery = [e \in Event |-> [d \in Delivery |-> "absent"]]
      /\ received = [e \in Event |-> 0]
  BY DEF Init, WorkerInit, Queue!Init, WebhooksInit
<1>2. NoHooks
  BY <1>1 DEF NoHooks
<1>3. \A e \in Event : RowsOf(e) = {}
  BY <1>1 DEF RowsOf
<1>4. HookInv
  BY <1>1, <1>3, WebhooksAssumption DEF HookInv
<1> QED
  BY <1>2, <1>4 DEF HooksInv

LEMMA HooksInvStep ==
    ASSUME OutboxInv, HooksInv, [Next]_vars
    PROVE  HooksInv'
<1>1. CASE Surroundings /\ UNCHANGED handlerVars
  <2>1. UNCHANGED <<work, delivery>> /\ UNCHANGED webhookVars
    BY <1>1 DEF handlerVars, webhookVars
  <2>2. Around
    BY <1>1, SurroundingsAround DEF HooksInv, HookInv, NoHooks
  <2> QED
    BY <2>1, <2>2, HooksAround, NoHooksAround DEF HooksInv
<1>2. CASE work = "rules" /\ AutomationNext /\ RulesOnly
  BY <1>2, RulesHooks DEF HooksInv, RulesOnly
<1>3. CASE work = "mails" /\ InvoiceMailNext /\ MailsOnly
  BY <1>3, MailsHooks DEF HooksInv, MailsOnly
<1>4. CASE work = "captures" /\ CaptureNext /\ CapturesOnly
  BY <1>4, CapturesHooks DEF HooksInv, CapturesOnly
<1>5. CASE work = "hooks" /\ WebhooksNext /\ HooksOnly
  <2>1. HookInv /\ work' = work
    BY <1>5 DEF HooksInv, HooksOnly
  <2>2. HookInv'
    BY <1>5, <2>1, EmitStep, CommitEmitStep, RollbackEmitStep, WorkerHooks, SwitchStep
       DEF WebhooksNext
  <2> QED
    BY <1>5, <2>1, <2>2 DEF HooksInv
<1>6. CASE UNCHANGED vars
  <2>1. /\ UNCHANGED <<work, delivery, phase, exec, tx>> /\ UNCHANGED webhookVars
    BY <1>6 DEF vars, workerVars, webhookVars
  <2>2. Around
    BY <2>1 DEF Around, OutboxInv, JobInv
  <2> QED
    BY <2>1, <2>2, HooksAround, NoHooksAround DEF HooksInv
<1> QED
  BY <1>1, <1>2, <1>3, <1>4, <1>5, <1>6 DEF Next

\* An event gets one delivery for an endpoint, however emits overlap and repeat,
\* and a job that succeeded has delivered it, or dropped it for an endpoint that
\* is switched off, whichever of two executions reports last (emit, deliver).
THEOREM EventsKeptCorrect == Spec => []EventsKept
<1>1. Init => OutboxInv /\ HooksInv
  BY InvInit, HooksInit
<1>2. OutboxInv /\ HooksInv /\ [Next]_vars => OutboxInv' /\ HooksInv'
  BY InvStep, HooksInvStep
<1>3. ASSUME HooksInv PROVE EventsKept
  <2>1. OneDeliveryPerKey
    <3> SUFFICES ASSUME NEW e \in Event PROVE Cardinality(RowsOf(e)) <= 1
      BY DEF OneDeliveryPerKey
    <3>1. \A c, d \in RowsOf(e) : c = d
      BY <1>3 DEF HooksInv, HookInv, NoHooks, RowsOf
    <3>2. CASE RowsOf(e) = {}
      BY <3>2, FS_EmptySet
    <3>3. CASE RowsOf(e) # {}
      <4>1. PICK d : RowsOf(e) = {d}
        BY <3>1, <3>3
      <4>2. Cardinality(RowsOf(e)) = 1
        BY <4>1, FS_Singleton
      <4> QED
        BY <4>2
    <3> QED
      BY <3>2, <3>3
  <2>2. NothingLost
    <3> SUFFICES ASSUME NEW e \in Event, NEW d \in Delivery, phase[HookJob(e, d)] = "succeeded"
                 PROVE  received[e] > 0 \/ e \in skipped
      BY DEF NothingLost
    <3>1. CASE work = "hooks"
      BY <1>3, <3>1 DEF HooksInv, HookInv, Told
    <3>2. CASE work # "hooks"
      <4>1. HookJob(e, d) \in Job /\ HookJob(e, d)[1] = "hook"
        BY WebhooksAssumption DEF HookJob
      <4> QED
        BY <1>3, <3>2, <4>1 DEF HooksInv, NoHooks
    <3> QED
      BY <3>1, <3>2
  <2> QED
    BY <2>1, <2>2 DEF EventsKept
<1> QED
  BY <1>1, <1>2, <1>3, PTL DEF Spec

----------------------------------------------------------------------------
(* The inductive invariant of the runs.                                    *)

DoneBefore(r) == run[r] # NoRun /\ run[r].note = "done"

\* The row that a transaction will store agrees with the messages it will store.
Agrees(t) ==
    /\ \A i \in Index : t.new.mail[i] = Mirror(t.msgs[RunMail(t.run, i)])
    /\ t.new.status = State(Children(t.new.mail, t.new.note))

\* What a transaction will store of a run agrees with the messages it will store
\* and with the effect it has; it leaves a run that is through as it is.  An open
\* sweep has found nothing that keeps the rule from firing, and that stays so.
Tells(a) ==
    LET t == tx[a] IN
    /\ Agrees(t)
    /\ t.effect = IF t.new.note = "done" /\ ~DoneBefore(t.run) THEN 1 ELSE 0
    /\ DoneBefore(t.run) => t.new.note = "done"
    /\ t.op # "sweep" /\ run[t.run].status = "ok" => t.new.status = "ok"
    /\ t.op = "sweep" => ~Suppressed

RunInv ==
    /\ FiresOnce /\ RunTellsTruth
    /\ direct = [r \in Run |-> IF DoneBefore(r) THEN 1 ELSE 0]
    /\ \A a \in Actor : tx[a] # NoTx => Tells(a)
    /\ \A a, b \in Actor :
         tx[a] # NoTx /\ tx[b] # NoTx /\ tx[a].op = "sweep" /\ tx[b].op = "sweep" => a = b

RunsInv == IF work = "rules" THEN RunInv ELSE \A r \in Run : run[r] = NoRun

----------------------------------------------------------------------------
(* What a transaction on a run is about to store.                          *)

Stores(t, op, locks, r, note, gen, mails, jobs, effect, next) ==
    t = Write(op, locks, r, Saved(mails, note, gen), mails, jobs, effect, next)

LEMMA SavedTells ==
    ASSUME firing \in Firings, NEW mails \in [Index -> MailStatus],
           NEW note, NEW gen, NEW t,
           NEW r \in Run, NEW op, NEW locks, NEW jobs, NEW effect, NEW next,
           Stores(t, op, locks, r, note, gen, mails, jobs, effect, next)
    PROVE  /\ t.op = op /\ t.locks = locks /\ t.run = r /\ t.effect = effect
           /\ t.new.note = note /\ Agrees(t)
<1>1. /\ t.op = op /\ t.locks = locks /\ t.run = r /\ t.effect = effect
      /\ t.new = Saved(mails, note, gen)
      /\ t.msgs = [m \in RunMails(r) |-> mails[m[2]]]
  BY DEF Stores, Write, RunMails
<1>2. /\ t.new.note = note /\ t.new.mail = [i \in Index |-> Mirror(mails[i])]
      /\ t.new.status = State(Children(t.new.mail, t.new.note))
  BY <1>1 DEF Saved
<1>3. \A i \in Index : t.msgs[RunMail(r, i)] = mails[i]
  <2> TAKE i \in Index
  <2>1. RunMail(r, i) \in RunMails(r) /\ RunMail(r, i)[2] = i
    BY DEF RunMails, RunMail
  <2> QED
    BY <1>1, <2>1
<1> QED
  BY <1>1, <1>2, <1>3 DEF Agrees

Mirrors(t, mails) ==
    /\ t.new.mail \in [Index -> MailStatus \cup {"done"}]
    /\ \A i \in Index : t.new.mail[i] = Mirror(mails[i])

LEMMA SavedMails ==
    ASSUME firing \in Firings, NEW mails \in [Index -> MailStatus],
           NEW note, NEW gen, NEW t,
           NEW r \in Run, NEW op, NEW locks, NEW jobs, NEW effect, NEW next,
           Stores(t, op, locks, r, note, gen, mails, jobs, effect, next)
    PROVE  Mirrors(t, mails)
<1>1. t.new.mail = [i \in Index |-> Mirror(mails[i])]
  BY DEF Stores, Write, Saved
<1>2. \A i \in Index : Mirror(mails[i]) \in MailStatus \cup {"done"}
  BY DEF Mirror
<1> QED
  BY <1>1, <1>2 DEF Mirrors

LEMMA PerformedTells ==
    ASSUME firing \in Firings, msg \in [Msg -> MailStatus], NEW r \in Run,
           NEW op, NEW locks, NEW note \in {"planned", "none", "done", "blocked"},
           NEW gen \in [Index -> Nat], NEW t \in Performed(op, locks, r, note, gen)
    PROVE  /\ t.op = op /\ t.locks = locks /\ t.run = r
           /\ Agrees(t)
           /\ t.effect = IF note # "done" /\ t.new.note = "done" THEN 1 ELSE 0
           /\ note = "done" => t.new.note = "done"
<1> DEFINE p == Prepared(r, gen)
           mails == [i \in Index |-> p[i].status]
           gens == [i \in Index |-> p[i].gen]
           jobs == UNION {p[i].job : i \in Index}
<1>1. PICK outcome \in NoteOutcomes(note) :
         t = Write(op, locks, r, Saved(mails, outcome, gens), mails, jobs,
                   IF note # "done" /\ outcome = "done" THEN 1 ELSE 0, "done")
  BY DEF Performed
<1>2. mails \in [Index -> MailStatus]
  <2> SUFFICES ASSUME NEW i \in Index PROVE p[i].status \in MailStatus
    OBVIOUS
  <2>1. msg[RunMail(r, i)] \in MailStatus
    BY RunMailsKnown DEF RunMails
  <2>2. CASE Underway(r, i, gen[i])
    BY <2>1, <2>2 DEF Prepared
  <2>3. CASE ~Underway(r, i, gen[i])
    BY <2>3 DEF Prepared, MailStatus
  <2> QED
    BY <2>2, <2>3
<1>3. note = "done" => outcome = "done"
  BY DEF NoteOutcomes
<1>4. PICK gs, js, effect, next :
         /\ Stores(t, op, locks, r, outcome, gs, mails, js, effect, next)
         /\ effect = IF note # "done" /\ outcome = "done" THEN 1 ELSE 0
  BY <1>1 DEF Stores
<1> HIDE DEF p, mails, gens, jobs
<1>5. /\ t.op = op /\ t.locks = locks /\ t.run = r /\ t.effect = effect
      /\ t.new.note = outcome
      /\ Agrees(t)
  BY <1>2, <1>4, SavedTells
<1> QED
  BY <1>3, <1>4, <1>5

\* A run that is through has no mail that a handler would still decide about.
LEMMA ThroughMails ==
    ASSUME RunInv, NEW r \in Run, run[r] # NoRun, run[r].status = "ok",
           run[r].mail \in [Index -> MailStatus \cup {"done"}], NEW i \in Index
    PROVE  msg[RunMail(r, i)] \notin {"unknown", "sending", "queued", "blocked"}
<1> DEFINE children == Children(run[r].mail, run[r].note)
<1>1. run[r].mail[i] = Mirror(msg[RunMail(r, i)]) /\ State(children) = "ok"
  BY DEF RunInv, RunTellsTruth, Runs
<1>2. run[r].mail[i] \in children
  BY DEF Children
<1> HIDE DEF children
<1>3. children \cap {"unknown", "sending", "queued"} = {} /\ "blocked" \notin children
  <2>1. "unknown" \notin children
    BY <1>1 DEF State
  <2>2. children \cap {"sending", "queued"} = {}
    BY <1>1, <2>1 DEF State
  <2>3. "blocked" \notin children
    BY <1>1, <2>1, <2>2 DEF State
  <2> QED
    BY <2>1, <2>2, <2>3
<1> QED
  BY <1>1, <1>2, <1>3 DEF Mirror

----------------------------------------------------------------------------
(* Runs.                                                                   *)

\* The rows and their transactions, when nothing is stored.
LEMMA RunsStay ==
    ASSUME RunInv, UNCHANGED <<run, direct, firing, msg>>,
           \A a \in Actor : tx'[a] # NoTx => tx'[a] = tx[a]
    PROVE  RunInv'
<1>1. ASSUME NEW a \in Actor, tx'[a] # NoTx PROVE tx'[a] = tx[a] /\ Tells(a)'
  <2>1. tx'[a] = tx[a] /\ Tells(a)
    BY <1>1 DEF RunInv
  <2> QED
    BY <2>1 DEF Tells, Agrees, Index, DoneBefore, Suppressed, Runs
<1>2. FiresOnce' /\ RunTellsTruth'
  BY DEF RunInv, FiresOnce, RunTellsTruth, Runs, Index
<1>3. \A r : DoneBefore(r)' = DoneBefore(r)
  BY DEF DoneBefore
<1> QED
  BY <1>1, <1>2, <1>3 DEF RunInv

\* A transaction on a run begins.
LEMMA RunOpens ==
    ASSUME RunInv, OutboxInv, NEW a \in Actor, NEW t, Open(a, t),
           UNCHANGED <<run, direct, firing, msg>>,
           tx'[a] = t => Tells(a)',
           t.op = "sweep" => \A b \in Actor : tx[b] # NoTx => tx[b].op # "sweep"
    PROVE  RunInv'
<1>1. tx'[a] = t /\ \A b \in Actor : b # a => tx'[b] = tx[b]
  BY DEF Open, OutboxInv, HolderInv
<1>2. ASSUME NEW b \in Actor, b # a, tx'[b] # NoTx PROVE Tells(b)'
  <2>1. tx'[b] = tx[b] /\ Tells(b)
    BY <1>1, <1>2 DEF RunInv
  <2> QED
    BY <2>1 DEF Tells, Agrees, Index, DoneBefore, Suppressed, Runs
<1>3. FiresOnce' /\ RunTellsTruth'
  BY DEF RunInv, FiresOnce, RunTellsTruth, Runs, Index
<1>4. \A r : DoneBefore(r)' = DoneBefore(r)
  BY DEF DoneBefore
<1>5. \A b, c \in Actor :
        tx'[b] # NoTx /\ tx'[c] # NoTx /\ tx'[b].op = "sweep" /\ tx'[c].op = "sweep" => b = c
  BY <1>1 DEF RunInv
<1> QED
  BY <1>1, <1>2, <1>3, <1>4, <1>5 DEF RunInv

LEMMA SweepOpens ==
    ASSUME RunInv, OutboxInv, work = "rules", NEW c \in Client, Sweep(c)
    PROVE  RunInv'
<1> DEFINE note == IF firing.note THEN "planned" ELSE "none"
           gen == [i \in Index |-> 0]
<1>1. PICK r \in Run : /\ Unused(r)
                       /\ \E t \in Performed("sweep", SweepLocks, r, note, gen) : Open(c, t)
  BY DEF Sweep
<1>2. PICK t \in Performed("sweep", SweepLocks, r, note, gen) : Open(c, t)
  BY <1>1
<1>3. /\ t.op = "sweep" /\ t.locks = {Rule} /\ t.run = r
      /\ Agrees(t)
      /\ t.effect = IF note # "done" /\ t.new.note = "done" THEN 1 ELSE 0
  <2>1. note \in {"planned", "none", "done", "blocked"} /\ gen \in [Index -> Nat]
    OBVIOUS
  <2>2. firing \in Firings /\ msg \in [Msg -> MailStatus]
    BY DEF OutboxInv, RulesInv, MailInv
  <2> HIDE DEF note, gen
  <2> QED
    BY <1>2, <2>1, <2>2, PerformedTells DEF SweepLocks
<1>4. UNCHANGED <<run, direct, firing, msg>> /\ c \in Actor /\ ~Suppressed
  BY DEF Sweep, automationVars, mailVars, Actor
<1>5. ASSUME tx'[c] = t PROVE Tells(c)'
  <2>1. run[r] = NoRun
    BY <1>1 DEF Unused
  <2> QED
    BY <1>3, <1>4, <1>5, <2>1 DEF Tells, Agrees, Index, DoneBefore, Suppressed, Runs
<1>6. \A b \in Actor : tx[b] # NoTx => tx[b].op # "sweep"
  BY <1>2, <1>3 DEF Open, Locked, OutboxInv, RulesInv, RunTx
<1> QED
  BY <1>2, <1>4, <1>5, <1>6, RunOpens

LEMMA RetryOpens ==
    ASSUME RunInv, OutboxInv, work = "rules", NEW c \in Client, NEW r \in Run, Retry(c, r)
    PROVE  RunInv'
<1>1. firing \in Firings /\ msg \in [Msg -> MailStatus] /\ RulesInv
  BY DEF OutboxInv, RulesInv, MailInv
<1>2. /\ run[r] # NoRun /\ run[r].note \in {"none", "done", "blocked"}
      /\ run[r].gen \in [Index -> Nat] /\ run[r].status # "ok"
  BY <1>1 DEF Retry, Runs, RulesInv, RunRow, Index
<1> DEFINE note == run[r].note
           gen == run[r].gen
<1>3. PICK t \in Performed("retry", {r}, r, note, gen) : Open(c, t)
  BY DEF Retry, RunLocks
<1>4. /\ t.op = "retry" /\ t.run = r
      /\ Agrees(t)
      /\ t.effect = IF note # "done" /\ t.new.note = "done" THEN 1 ELSE 0
      /\ note = "done" => t.new.note = "done"
  <2>1. note \in {"planned", "none", "done", "blocked"} /\ gen \in [Index -> Nat]
    BY <1>2
  <2> HIDE DEF note, gen
  <2> QED
    BY <1>1, <1>3, <2>1, PerformedTells
<1>5. UNCHANGED <<run, direct, firing, msg>> /\ c \in Actor
  BY DEF Retry, automationVars, mailVars, Actor
<1>6. ASSUME tx'[c] = t PROVE Tells(c)'
  BY <1>2, <1>4, <1>5, <1>6 DEF Tells, Agrees, Index, DoneBefore
<1> QED
  BY <1>3, <1>4, <1>5, <1>6, RunOpens

\* The two transactions of `deliver` change one mail of a run that waits for it.
Rewrites(a, op, locks, r, i, status, next) ==
    /\ Open(a, Recorded(op, locks, RunMail(r, i), status, next))
    /\ msg[RunMail(r, i)] \notin {"unknown", "sending", "queued", "blocked"}
           => status = msg[RunMail(r, i)]

Rewritten(a, op, locks, r, i, status, next) ==
    \E mails, gen, jobs, t :
       /\ mails \in [Index -> MailStatus]
       /\ Stores(t, op, locks, r, run[r].note, gen, mails, jobs, 0, next)
       /\ Open(a, t)
       /\ mails[i] = status
       /\ \A k \in Index : k # i => mails[k] = msg[RunMail(r, k)]

LEMMA RecordedStores ==
    ASSUME msg \in [Msg -> MailStatus], firing \in Firings,
           NEW a \in Actor, NEW op, NEW locks, NEW r \in Run, NEW i \in Index,
           NEW status \in MailStatus, NEW next, Rewrites(a, op, locks, r, i, status, next)
    PROVE  Rewritten(a, op, locks, r, i, status, next)
<1> DEFINE mails == [Mails(r) EXCEPT ![i] = status]
           t == Recorded(op, locks, RunMail(r, i), status, next)
<1>1. RunMail(r, i)[1] = r /\ RunMail(r, i)[2] = i
  BY DEF RunMail
<1>2. /\ mails \in [Index -> MailStatus] /\ mails[i] = status
      /\ \A k \in Index : k # i => mails[k] = msg[RunMail(r, k)]
  BY RunMailsKnown DEF Mails, RunMails
<1>3. Stores(t, op, locks, r, run[r].note, run[r].gen, mails, {}, 0, next)
  BY <1>1 DEF Recorded, Stores
<1>4. Open(a, t)
  BY DEF Rewrites
<1> HIDE DEF mails, t
<1> QED
  BY <1>2, <1>3, <1>4 DEF Rewritten

LEMMA RecordedOpens ==
    ASSUME RunInv, OutboxInv, work = "rules", NEW w \in Worker, NEW r \in Run, NEW i \in Index,
           run[r] # NoRun, NEW op \in {"deliver", "report"}, NEW locks,
           NEW status \in MailStatus, NEW next, Rewrites(w, op, locks, r, i, status, next),
           UNCHANGED <<run, direct, firing, msg>>
    PROVE  RunInv'
<1>1. /\ firing \in Firings /\ msg \in [Msg -> MailStatus] /\ RulesInv /\ w \in Actor
      /\ run[r] \in RunRow(firing.mails)
  BY DEF OutboxInv, RulesInv, MailInv, Actor
<1>2. PICK mails, gen, jobs, t :
         /\ mails \in [Index -> MailStatus]
         /\ Stores(t, op, locks, r, run[r].note, gen, mails, jobs, 0, next)
         /\ Open(w, t)
         /\ mails[i] = status
         /\ \A k \in Index : k # i => mails[k] = msg[RunMail(r, k)]
  <2>1. Rewritten(w, op, locks, r, i, status, next)
    BY <1>1, RecordedStores
  <2> QED
    BY <2>1 DEF Rewritten
<1>3. PICK note, effect : /\ note = run[r].note /\ effect = 0
                          /\ Stores(t, op, locks, r, note, gen, mails, jobs, effect, next)
  BY <1>2
<1>4. /\ t.op = op /\ t.run = r /\ t.effect = effect /\ t.new.note = note /\ Agrees(t)
  BY <1>1, <1>2, <1>3, SavedTells
<1>5. /\ t.new.mail \in [Index -> MailStatus \cup {"done"}]
      /\ \A k \in Index : t.new.mail[k] = Mirror(mails[k])
  <2>1. Mirrors(t, mails)
    BY <1>1, <1>2, <1>3, SavedMails
  <2> QED
    BY <2>1 DEF Mirrors
<1>6. ASSUME run[r].status = "ok" PROVE t.new.status = "ok"
  <2>1. run[r].mail \in [Index -> MailStatus \cup {"done"}]
    BY <1>1 DEF RunRow, Index
  <2>2. \A k \in Index : mails[k] = msg[RunMail(r, k)]
    BY <1>2, <1>6, <2>1, ThroughMails DEF Rewrites
  <2>3. \A k \in Index : run[r].mail[k] = Mirror(msg[RunMail(r, k)])
    BY DEF RunInv, RunTellsTruth, Runs
  <2>4. t.new.mail = run[r].mail
    BY <1>5, <2>1, <2>2, <2>3
  <2>5. run[r].status = State(Children(run[r].mail, run[r].note))
    BY DEF RunInv, RunTellsTruth, Runs
  <2> QED
    BY <1>3, <1>4, <1>6, <2>4, <2>5 DEF Agrees
<1>7. ASSUME tx'[w] = t PROVE Tells(w)'
  BY <1>3, <1>4, <1>6, <1>7 DEF Tells, Agrees, Index, DoneBefore
<1> QED
  BY <1>1, <1>2, <1>4, <1>7, RunOpens

LEMMA DeliverOpens ==
    ASSUME RunInv, OutboxInv, work = "rules", NEW w \in Worker, Attempt(w) \/ Record(w)
    PROVE  RunInv'
<1>1. PICK r \in Run, i \in Index : MailOf(w) = RunMail(r, i)
  BY DEF Attempt, Record, OnRunMail, RunMail
<1>2. /\ RunMail(r, i)[1] = r /\ msg \in [Msg -> MailStatus] /\ RunMail(r, i) \in Msg
  BY RunMailsKnown DEF RunMail, RunMails, OutboxInv, MailInv, RulesInv
<1>3. run[r] # NoRun
  <2>1. run[MailOf(w)[1]] # NoRun
    BY DEF Attempt, Record, OnRunMail, OutboxInv, JobInv, InUse
  <2> QED
    BY <1>1, <1>2, <2>1
<1>4. UNCHANGED <<run, direct, firing, msg>>
  BY DEF Attempt, Record, automationVars, mailVars
<1>5. CASE Attempt(w)
  <2>1. PICK status \in MailStatus : status = Decision(msg[RunMail(r, i)])
    BY <1>2 DEF Decision, MailStatus
  <2>2. \E locks, next : Rewrites(w, "deliver", locks, r, i, status, next)
    <3>1. \E locks, next : Open(w, Recorded("deliver", locks, RunMail(r, i), status, next))
      BY <1>1, <1>5, <2>1 DEF Attempt
    <3> QED
      BY <2>1, <3>1 DEF Rewrites, Decision
  <2> QED
    BY <1>3, <1>4, <2>2, RecordedOpens
<1>6. CASE Record(w)
  <2>1. msg[RunMail(r, i)] \in {"sending", "unknown"}
    BY <1>1, <1>6 DEF Record, OutboxInv, MailInv, Holding, At
  <2>2. PICK status \in MailStatus : status = Outcome(w)
    BY DEF Outcome, MailStatus
  <2>3. \E locks, next : Rewrites(w, "report", locks, r, i, status, next)
    <3>1. \E locks, next : Open(w, Recorded("report", locks, RunMail(r, i), status, next))
      BY <1>1, <1>6, <2>2 DEF Record, Reported
    <3> QED
      BY <2>1, <3>1 DEF Rewrites
  <2> QED
    BY <1>3, <1>4, <2>3, RecordedOpens
<1> QED
  BY <1>5, <1>6

LEMMA RunCommits ==
    ASSUME RunInv, OutboxInv, work = "rules", NEW a \in Actor, CommitRun(a)
    PROVE  RunInv'
<1>1. PICK t : t = tx[a]
  OBVIOUS
<1>2. PICK r \in Run : r = t.run
  BY <1>1 DEF CommitRun, OutboxInv, RulesInv, RunTx
<1>3. /\ RulesInv /\ MailInv /\ firing \in Firings
      /\ tx[a] # NoTx /\ RunTx(a) /\ Tells(a)
      /\ t.new \in RunRow(firing.mails) /\ t.new # NoRun
      /\ t.msgs \in [RunMails(r) -> MailStatus]
      /\ run \in [Run -> RunRow(firing.mails) \cup {NoRun}]
      /\ \A s \in Run : RunMails(s) \subseteq Msg
  BY <1>1, <1>2, RunMailsKnown DEF CommitRun, OutboxInv, RulesInv, RunTx, RunInv
<1>4. /\ run' = [run EXCEPT ![r] = t.new]
      /\ msg' = [m \in Msg |-> IF m \in RunMails(r) THEN t.msgs[m] ELSE msg[m]]
      /\ direct' = [direct EXCEPT ![r] = @ + t.effect]
      /\ tx' = [tx EXCEPT ![a] = NoTx]
      /\ firing' = firing
  BY <1>1, <1>2, <1>3 DEF CommitRun, Close
<1>5. run'[r] = t.new /\ \A s \in Run : s # r => run'[s] = run[s]
  BY <1>3, <1>4
<1>6. /\ \A i \in Index : msg'[RunMail(r, i)] = t.msgs[RunMail(r, i)]
      /\ \A s \in Run : s # r => \A i \in Index : msg'[RunMail(s, i)] = msg[RunMail(s, i)]
  BY <1>3, <1>4 DEF RunMails, RunMail
<1>7. ASSUME NEW b \in Actor, tx'[b] # NoTx
      PROVE  b # a /\ tx'[b] = tx[b] /\ Tells(b) /\ RunTx(b) /\ tx[b].run \in Run \ {r}
  <2>1. b # a /\ tx'[b] = tx[b] /\ tx[b] # NoTx
    BY <1>4, <1>7 DEF OutboxInv, HolderInv
  <2> QED
    BY <1>1, <1>2, <1>3, <2>1 DEF RulesInv, RunInv, RunTx
<1>8. RunTellsTruth'
  <2> SUFFICES ASSUME NEW s \in Run, run'[s] # NoRun
               PROVE  /\ \A i \in Index' : run'[s].mail[i] = Mirror(msg'[RunMail(s, i)])
                      /\ run'[s].status = State(Children(run'[s].mail, run'[s].note))
    BY DEF RunTellsTruth, Runs
  <2>1. Index' = Index
    BY <1>4 DEF Index
  <2>2. CASE s = r
    BY <1>1, <1>2, <1>3, <1>5, <1>6, <2>1, <2>2 DEF Tells, Agrees
  <2>3. CASE s # r
    BY <1>5, <1>6, <2>1, <2>3 DEF RunInv, RunTellsTruth, Runs
  <2> QED
    BY <2>2, <2>3
<1>9. direct' = [s \in Run |-> IF DoneBefore(s)' THEN 1 ELSE 0]
  <2>1. \A s \in Run : s # r => DoneBefore(s)' = DoneBefore(s)
    BY <1>5 DEF DoneBefore
  <2>2. DoneBefore(r)' <=> t.new.note = "done"
    BY <1>3, <1>5 DEF DoneBefore
  <2>3. direct[r] = IF DoneBefore(r) THEN 1 ELSE 0
    BY DEF RunInv
  <2>4. direct[r] + t.effect = IF DoneBefore(r)' THEN 1 ELSE 0
    BY <1>1, <1>2, <1>3, <2>2, <2>3 DEF Tells
  <2> QED
    BY <1>4, <2>1, <2>4 DEF RunInv
<1>10. /\ \A s \in Run : run[s] # NoRun =>
            run[s].status \in {"pending", "blocked", "unknown", "ok"}
       /\ t.op # "sweep" => run[r] # NoRun
  BY <1>1, <1>2, <1>3 DEF RunRow, RunTx
<1>11. FiresOnce'
  <2> SUFFICES ASSUME NEW x \in Run, NEW y \in Run, run'[x] # NoRun, run'[y] # NoRun, x # y
               PROVE  /\ firing'.policy # "once_per_record"
                      /\ run'[x].status = "ok" \/ run'[y].status = "ok"
    BY DEF FiresOnce, Runs
  <2>1. ASSUME NEW s \in Run, s # r, run[s] # NoRun
        PROVE  /\ firing.policy # "once_per_record"
               /\ run'[r].status = "ok" \/ run[s].status = "ok"
    <3>1. CASE t.op = "sweep"
      BY <1>1, <1>3, <1>10, <2>1, <3>1 DEF Tells, Suppressed, Runs, Incomplete
    <3>2. CASE t.op # "sweep"
      BY <1>1, <1>2, <1>3, <1>5, <1>10, <2>1, <3>2 DEF Tells, RunInv, FiresOnce, Runs
    <3> QED
      BY <3>1, <3>2
  <2>2. CASE x # r /\ y # r
    BY <1>4, <1>5, <2>2 DEF RunInv, FiresOnce, Runs
  <2>3. CASE x = r \/ y = r
    BY <1>4, <1>5, <2>1, <2>3
  <2> QED
    BY <2>2, <2>3
<1>12. ASSUME NEW b \in Actor, tx'[b] # NoTx PROVE Tells(b)'
  <2>1. PICK s \in Run : s = tx[b].run /\ s # r
    BY <1>7, <1>12
  <2>2. b # a /\ tx'[b] = tx[b] /\ Tells(b) /\ run'[s] = run[s] /\ firing' = firing
        /\ DoneBefore(s)' = DoneBefore(s)
    BY <1>4, <1>5, <1>7, <1>12, <2>1 DEF DoneBefore
  <2>3. tx[b].op = "sweep" => ~Suppressed'
    <3> SUFFICES ASSUME tx[b].op = "sweep" PROVE ~Suppressed'
      OBVIOUS
    <3>1. ~Suppressed /\ t.op # "sweep" /\ run[r] # NoRun
      BY <1>1, <1>3, <1>7, <1>10, <1>12, <2>2 DEF Tells, RunInv
    <3>2. run[r].status = "ok" /\ t.new.status = "ok" /\ firing.policy # "once_per_record"
      BY <1>1, <1>2, <1>3, <1>10, <3>1 DEF Tells, Suppressed, Runs, Incomplete
    <3> QED
      BY <1>4, <1>5, <3>1, <3>2 DEF Suppressed, Runs, Incomplete
  <2> QED
    BY <2>1, <2>2, <2>3 DEF Tells, Agrees, Index
<1>13. \A b, c \in Actor :
         tx'[b] # NoTx /\ tx'[c] # NoTx /\ tx'[b].op = "sweep" /\ tx'[c].op = "sweep" => b = c
  BY <1>7 DEF RunInv
<1> QED
  BY <1>8, <1>9, <1>11, <1>12, <1>13 DEF RunInv

LEMMA RunsInit == Init => RunsInv
<1> SUFFICES ASSUME Init PROVE RunsInv
  OBVIOUS
<1>1. /\ run = [r \in Run |-> NoRun] /\ direct = [r \in Run |-> 0]
      /\ tx = [a \in Actor |-> NoTx]
  BY DEF Init, WorkerInit, AutomationInit
<1>2. RunInv
  BY <1>1 DEF RunInv, FiresOnce, RunTellsTruth, Runs, DoneBefore
<1> QED
  BY <1>1, <1>2 DEF RunsInv

LEMMA RunsInvStep ==
    ASSUME OutboxInv, HooksInv, RunsInv, [Next]_vars
    PROVE  RunsInv'
<1>1. CASE Surroundings /\ UNCHANGED handlerVars
  <2>1. UNCHANGED <<work, run, direct, firing, msg>>
    BY <1>1 DEF handlerVars, automationVars, Surroundings, mailVars, SmtpAccept, SmtpError, Break,
                Land, Toggle
  <2>2. Around
    BY <1>1, SurroundingsAround DEF HooksInv, HookInv, NoHooks
  <2> QED
    BY <2>1, <2>2, RunsStay DEF RunsInv, Around
<1>2. CASE work = "rules" /\ AutomationNext /\ RulesOnly
  <2>1. RunInv /\ work' = work
    BY <1>2 DEF RunsInv, RulesOnly
  <2>2. ASSUME SetStatus PROVE RunInv'
    BY <2>1, <2>2, RunsStay DEF SetStatus, mailVars
  <2>3. RunInv'
    BY <1>2, <2>1, <2>2, SweepOpens, RetryOpens, DeliverOpens, RunCommits DEF AutomationNext
  <2> QED
    BY <1>2, <2>1, <2>3 DEF RunsInv
<1>3. CASE \/ work = "mails" /\ MailsOnly
           \/ work = "captures" /\ CapturesOnly
           \/ work = "hooks" /\ HooksOnly
  <2>1. UNCHANGED <<work, run>>
    BY <1>3 DEF MailsOnly, CapturesOnly, HooksOnly, automationVars
  <2> QED
    BY <1>3, <2>1 DEF RunsInv
<1>4. CASE UNCHANGED vars
  <2>1. UNCHANGED <<work, run, direct, firing, msg, tx>>
    BY <1>4 DEF vars, workerVars, automationVars, mailVars
  <2> QED
    BY <2>1, RunsStay DEF RunsInv
<1> QED
  BY <1>1, <1>2, <1>3, <1>4 DEF Next

\* However sweeps overlap, a rule fires on a record only when nothing of it is
\* pending, and once at all if its policy says so; its direct action takes effect
\* once through every retry; and what is stored of a run is what its messages say
\* (sweep under the rule's lock, deliver and retry under the run's).
THEOREM RunSoundCorrect == Spec => []RunSound
<1>1. Init => OutboxInv /\ HooksInv /\ RunsInv
  BY InvInit, HooksInit, RunsInit
<1>2. OutboxInv /\ HooksInv /\ RunsInv /\ [Next]_vars => OutboxInv' /\ HooksInv' /\ RunsInv'
  BY InvStep, HooksInvStep, RunsInvStep
<1>3. ASSUME RunsInv PROVE RunSound
  <2>1. CASE work = "rules"
    BY <1>3, <2>1 DEF RunsInv, RunInv, RunSound, DirectOnce, DoneBefore, Runs
  <2>2. CASE work # "rules"
    BY <1>3, <2>2 DEF RunsInv, RunSound, FiresOnce, DirectOnce, RunTellsTruth, Runs
  <2> QED
    BY <2>1, <2>2
<1> QED
  BY <1>1, <1>2, <1>3, PTL DEF Spec

----------------------------------------------------------------------------
(* The inductive invariant of the stamp.                                   *)

\* A report of an accepted mail stamps the invoice, or found it stamped, maybe by
\* a mail it overlaps with.  No other transaction makes a mail "sent".
StampTx(a) ==
    LET t == tx[a] IN
    /\ t.stamped => t.op = "outcome" /\ t.status = "sent" /\ (stamp = NoStamp \/ t.mail \in rivals)
    /\ t.op = "outcome" /\ t.status = "sent" /\ ~t.stamped => stamp # NoStamp
    /\ t.op # "outcome" /\ t.status = "sent" => msg[t.mail] = "sent"

\* The worker loaded the invoice for a mail that is to be sent, or is.
Loaded(w) ==
    /\ exec[w] # NoExec
    /\ exec[w].at \in {"smtp", "accepted"} \/ (tx[w] # NoTx /\ tx[w].next = "smtp")

\* What the session of a worker holds is what is stored, but for overlaps.
SessionOK(w) ==
    Loaded(w) =>
        /\ MailOf(w) \in InvMsg
        /\ IF w \in unsent THEN stamp = NoStamp \/ MailOf(w) \in rivals ELSE stamp # NoStamp

StampInv ==
    /\ StampMeansSent
    /\ \A a \in Actor : tx[a] # NoTx => StampTx(a)
    /\ \A w \in Worker : SessionOK(w)

NoStamps == stamp = NoStamp /\ \A m \in InvMsg : msg[m] # "sent"

StampsInv == IF work = "mails" THEN StampInv ELSE NoStamps

----------------------------------------------------------------------------
(* The stamp.                                                              *)

\* Nothing of a mail or an invoice is stored; transactions stay or are over.
LEMMA StampStays ==
    ASSUME StampInv, OutboxInv, UNCHANGED <<msg, stamp, unsent, rivals>>,
           \A a \in Actor : tx'[a] \in {NoTx, tx[a]},
           \A w \in Worker :
              \/ exec'[w] = NoExec
              \/ exec[w] # NoExec /\ exec'[w].job = exec[w].job
                   /\ \/ exec'[w].at = exec[w].at
                      \/ exec[w].at = "smtp" /\ exec'[w].at \in {"accepted", "uncertain"}
              \/ exec[w] = NoExec /\ exec'[w].at = "begin"
    PROVE  StampInv'
<1>1. ASSUME NEW a \in Actor, tx'[a] # NoTx PROVE tx'[a] = tx[a] /\ StampTx(a)'
  <2>1. tx'[a] = tx[a] /\ StampTx(a)
    BY <1>1 DEF StampInv
  <2> QED
    BY <2>1 DEF StampTx
<1>2. ASSUME NEW w \in Worker PROVE SessionOK(w)'
  <2>1. SessionOK(w) /\ tx'[w] \in {NoTx, tx[w]} /\ (tx[w] # NoTx => exec[w] # NoExec)
    BY DEF StampInv, OutboxInv, HolderInv, Actor
  <2>2. Loaded(w)' => Loaded(w) /\ exec'[w].job = exec[w].job
    BY <2>1 DEF Loaded
  <2> QED
    BY <2>1, <2>2 DEF SessionOK, MailOf
<1> QED
  BY <1>1, <1>2 DEF StampInv, StampMeansSent

\* A transaction on a mail begins.
LEMMA StampOpens ==
    ASSUME StampInv, OutboxInv, NEW a \in Actor, NEW t, Open(a, t),
           UNCHANGED <<msg, stamp, exec, rivals>>,
           \A w \in Worker : w # a => (w \in unsent' <=> w \in unsent),
           tx'[a] = t => StampTx(a)' /\ (a \in Worker => SessionOK(a)')
    PROVE  StampInv'
<1>1. tx'[a] = t /\ \A b \in Actor : b # a => tx'[b] = tx[b]
  BY DEF Open, OutboxInv, HolderInv
<1>2. ASSUME NEW b \in Actor, b # a, tx'[b] # NoTx PROVE StampTx(b)'
  <2>1. tx'[b] = tx[b] /\ StampTx(b)
    BY <1>1, <1>2 DEF StampInv
  <2> QED
    BY <2>1 DEF StampTx
<1>3. ASSUME NEW w \in Worker, w # a PROVE SessionOK(w)'
  <2>1. tx'[w] = tx[w] /\ SessionOK(w) /\ (w \in unsent' <=> w \in unsent)
    BY <1>1, <1>3 DEF StampInv, Actor
  <2> QED
    BY <2>1 DEF SessionOK, Loaded, MailOf
<1> QED
  BY <1>1, <1>2, <1>3 DEF StampInv, StampMeansSent

LEMMA HandlerOpensMail ==
    ASSUME StampInv, OutboxInv, work = "mails",
           NEW a \in Actor,
           \/ a \in Client /\ \E m \in InvMsg : Send(a, m)
           \/ a \in Worker /\ (Deliver(a) \/ Conclude(a))
    PROVE  StampInv'
<1>1. UNCHANGED <<msg, stamp, exec, rivals>>
  BY DEF Send, Deliver, Conclude, mailVars, invoiceMailVars
<1>2. ASSUME NEW m \in InvMsg, Send(a, m), a \in Client PROVE StampInv'
  <2>1. PICK t : /\ Open(a, t)
                 /\ t = Update("send", {Invoice}, m, IF relay THEN "queued" ELSE "blocked",
                               IF relay THEN {MailJob(m, 0)} ELSE {}, FALSE, "done")
    BY <1>2 DEF Send
  <2>2. t.op = "send" /\ t.status \in {"queued", "blocked"} /\ t.stamped = FALSE
    BY <2>1 DEF Update
  <2>3. tx'[a] = t => StampTx(a)'
    BY <2>2 DEF StampTx
  <2>4. a \notin Worker /\ unsent' = unsent
    BY <1>2, ActorAssumption DEF Send, invoiceMailVars
  <2> QED
    BY <1>1, <2>1, <2>3, <2>4, StampOpens
<1>3. CASE a \in Worker /\ Deliver(a)
  <2>1. PICK m, status, next, t :
           /\ Open(a, t) /\ m = MailOf(a) /\ m \in InvMsg
           /\ status \in Verdicts(msg[m])
           /\ next = After(msg[m], status)
           /\ t = Update("delivery", {m}, m, status, {}, FALSE, next)
    BY <1>3 DEF Deliver, OnInvoiceMail
  <2>2. t.op = "delivery" /\ t.mail = m /\ t.status = status /\ t.stamped = FALSE /\ t.next = next
    BY <2>1 DEF Update
  <2>3. status = "sent" => msg[m] = "sent"
    BY <2>1 DEF Verdicts
  <2>4. tx'[a] = t => StampTx(a)'
    BY <1>1, <2>2, <2>3 DEF StampTx
  <2>5. /\ unsent' = IF msg[m] = "queued" /\ relay /\ stamp = NoStamp
                     THEN unsent \cup {a} ELSE unsent \ {a}
        /\ exec[a].at = "begin"
    BY <1>3, <2>1 DEF Deliver, Load, At
  <2>6. next = "smtp" => msg[m] = "queued" /\ relay
    BY <2>1 DEF After, Verdicts
  <2>7. tx'[a] = t => SessionOK(a)'
    BY <1>1, <2>1, <2>2, <2>5, <2>6 DEF SessionOK, Loaded, MailOf
  <2> QED
    BY <1>1, <2>1, <2>4, <2>5, <2>7, StampOpens
<1>4. CASE a \in Worker /\ Conclude(a)
  <2>1. PICK m, t :
           /\ Open(a, t) /\ m = MailOf(a)
           /\ t = Update("outcome", StampLocks(a, m), m, Outcome(a), {}, Stamps(a), "done")
    BY <1>4 DEF Conclude
  <2>2. /\ t.op = "outcome" /\ t.mail = m /\ t.status = Outcome(a) /\ t.stamped = Stamps(a)
        /\ t.next = "done"
    BY <2>1 DEF Update
  <2>3. SessionOK(a) /\ (Outcome(a) = "sent" => Loaded(a))
    BY <1>4 DEF StampInv, Outcome, At, Loaded
  <2>4. tx'[a] = t => StampTx(a)'
    BY <1>1, <2>1, <2>2, <2>3 DEF StampTx, Stamps, SessionOK
  <2>5. unsent' = unsent
    BY <1>4 DEF Conclude, invoiceMailVars
  <2>6. tx'[a] = t => SessionOK(a)'
    BY <1>1, <2>2, <2>3, <2>5 DEF SessionOK, Loaded, MailOf
  <2> QED
    BY <1>1, <2>1, <2>4, <2>5, <2>6, StampOpens
<1> QED
  BY <1>2, <1>3, <1>4

\* A transaction on a mail commits; it moves a stamp only if the two overlapped.
LEMMA StampCommits ==
    ASSUME StampInv, OutboxInv, work = "mails", NEW a \in Actor, CommitMail(a)
    PROVE  StampInv' /\ (stamp # NoStamp => stamp' \in {stamp} \cup rivals)
<1>1. PICK t : t = tx[a]
  OBVIOUS
<1>2. PICK m \in InvMsg : m = t.mail
  BY <1>1 DEF CommitMail, OutboxInv, MailsInv, MailTx
<1>3. /\ MailsInv /\ MailInv /\ tx[a] # NoTx /\ MailTx(a) /\ StampTx(a) /\ m \in Msg
      /\ m # NoStamp
  BY <1>2, HandlerAssumption DEF CommitMail, OutboxInv, MailsInv, StampInv
<1>4. /\ msg'[m] = t.status /\ \A x \in Msg : x # m => msg'[x] = msg[x]
      /\ stamp' = IF t.stamped THEN m ELSE stamp
      /\ rivals' = IF t.stamped /\ stamp = NoStamp THEN {x \in InvMsg : UnderWay(x)} ELSE rivals
      /\ unsent' = unsent
      /\ tx'[a] = NoTx /\ \A b \in Actor : b # a => tx'[b] = tx[b]
  BY <1>1, <1>2, <1>3 DEF CommitMail, Close, MailInv, OutboxInv, HolderInv
<1>5. msg[m] = "sent" => t.status = "sent"
  BY <1>1, <1>2, <1>3 DEF MailTx, ClientWrites, Closed, WorkerWrites, TakesUp, MailInv, Holding, At
<1>6. /\ stamp # NoStamp => stamp' # NoStamp /\ rivals' = rivals
      /\ stamp # NoStamp => stamp' \in {stamp} \cup rivals
      /\ t.stamped => t.op = "outcome" /\ t.status = "sent"
  BY <1>1, <1>2, <1>3, <1>4 DEF StampTx
<1>7. StampMeansSent'
  <2>2. \A x \in InvMsg : x # m => msg'[x] = msg[x]
    BY <1>4, HandlerAssumption
  <2>3. CASE t.status = "sent"
    <3>1. msg'[m] = "sent"
      BY <1>4, <2>3
    <3>2. stamp' # NoStamp
      BY <1>1, <1>2, <1>3, <1>4, <1>6, <2>3 DEF StampTx, StampInv, StampMeansSent
    <3> QED
      BY <1>2, <3>1, <3>2 DEF StampMeansSent
  <2>4. CASE t.status # "sent"
    <3>1. stamp' = stamp /\ msg[m] # "sent" /\ msg'[m] # "sent"
      BY <1>4, <1>5, <1>6, <2>4
    <3> QED
      BY <2>2, <3>1 DEF StampInv, StampMeansSent
  <2> QED
    BY <2>3, <2>4
<1>8. ASSUME NEW w \in Worker, exec[w] # NoExec, MailOf(w) \in InvMsg,
             stamp = NoStamp \/ MailOf(w) \in rivals
      PROVE  stamp' = NoStamp \/ MailOf(w) \in rivals'
  BY <1>4, <1>6, <1>8 DEF UnderWay
<1>9. ASSUME NEW b \in Actor, tx'[b] # NoTx PROVE StampTx(b)'
  <2>1. b # a /\ tx'[b] = tx[b] /\ tx[b] # NoTx /\ StampTx(b) /\ MailTx(b)
    BY <1>3, <1>4, <1>9 DEF StampInv, MailsInv
  <2>2. PICK x \in InvMsg : x = tx[b].mail
    BY <2>1 DEF MailTx
  <2>3. x # m /\ x \in Msg
    BY <1>1, <1>2, <1>3, <2>1, <2>2, HandlerAssumption DEF MailsInv
  <2>4. msg'[x] = msg[x]
    BY <1>4, <2>3
  <2>5. tx[b].stamped => stamp' = NoStamp \/ x \in rivals'
    <3> SUFFICES ASSUME tx[b].stamped PROVE stamp' = NoStamp \/ x \in rivals'
      OBVIOUS
    <3>1. tx[b].op = "outcome" /\ (stamp = NoStamp \/ x \in rivals)
      BY <2>1, <2>2 DEF StampTx
    <3>2. b \in Worker /\ exec[b] # NoExec /\ MailOf(b) = x
      BY <2>1, <2>2, <3>1 DEF MailTx
    <3> QED
      BY <1>8, <3>1, <3>2
  <2> QED
    BY <1>6, <2>1, <2>2, <2>4, <2>5 DEF StampTx
<1>10. ASSUME NEW w \in Worker PROVE SessionOK(w)'
  <2>1. SessionOK(w)
    BY DEF StampInv
  <2>2. CASE w # a
    <3>1. exec'[w] = exec[w] /\ tx'[w] = tx[w]
      BY <1>3, <1>4, <2>2 DEF CommitMail, Goto, OutboxInv, ExecInv, Actor
    <3>2. Loaded(w)' <=> Loaded(w)
      BY <3>1 DEF Loaded
    <3>3. Loaded(w) => exec[w] # NoExec /\ MailOf(w)' = MailOf(w)
      BY <3>1 DEF Loaded, MailOf
    <3> QED
      BY <1>4, <1>6, <1>8, <2>1, <3>2, <3>3 DEF SessionOK
  <2>3. CASE w = a
    <3>1. exec[a] # NoExec /\ exec'[a] = [job |-> exec[a].job, at |-> t.next] /\ tx'[a] = NoTx
      BY <1>1, <1>3, <1>4, <2>3 DEF CommitMail, Goto, OutboxInv, ExecInv, HolderInv
    <3>2. ASSUME Loaded(a)' PROVE Loaded(a) /\ t.status = "sending" /\ MailOf(a)' = MailOf(a)
      <4>1. t.next \in {"smtp", "accepted"}
        BY <3>1, <3>2 DEF Loaded
      <4>2. WorkerWrites(a, t.status, t.next)
        BY <1>1, <1>3, <2>3, ActorAssumption DEF MailTx
      <4> QED
        BY <1>1, <1>3, <3>1, <4>1, <4>2 DEF Loaded, WorkerWrites, TakesUp, MailOf
    <3>3. t.status = "sending" => stamp' = stamp /\ rivals' = rivals
      BY <1>4, <1>6
    <3> QED
      BY <1>4, <2>1, <2>3, <3>2, <3>3 DEF SessionOK
  <2> QED
    BY <2>2, <2>3
<1> QED
  BY <1>6, <1>7, <1>9, <1>10 DEF StampInv

\* What is not about invoice mails leaves them as they are.
LEMMA NoStampsStep ==
    ASSUME OutboxInv, NoStamps, UNCHANGED stamp,
           \/ UNCHANGED msg
           \/ work = "rules" /\ \E a \in Actor : CommitRun(a)
    PROVE  NoStamps'
<1>1. ASSUME NEW a \in Actor, work = "rules", CommitRun(a) PROVE \A m \in InvMsg : msg'[m] = msg[m]
  <2>1. RunTx(a) /\ firing \in Firings /\ tx[a].run \in Run
    BY <1>1 DEF OutboxInv, RulesInv, RunTx, CommitRun
  <2>2. DOMAIN tx[a].msgs = RunMails(tx[a].run)
    BY <2>1 DEF RunTx
  <2>3. \A m \in InvMsg : m \in Msg /\ m \notin RunMails(tx[a].run)
    BY <2>1, HandlerAssumption DEF RunMails, RunMail, Index
  <2> QED
    BY <1>1, <2>2, <2>3 DEF CommitRun
<1> QED
  BY <1>1 DEF NoStamps

LEMMA StampsInit == Init => StampsInv
<1> SUFFICES ASSUME Init PROVE StampsInv
  OBVIOUS
<1>1. /\ msg = [m \in Msg |-> "absent"] /\ stamp = NoStamp /\ tx = [a \in Actor |-> NoTx]
      /\ exec = [w \in Worker |-> NoExec]
  BY DEF Init, WorkerInit, OutboxInit, InvoiceMailInit
<1>2. \A m \in InvMsg : msg[m] # "sent"
  BY <1>1, HandlerAssumption
<1> QED
  BY <1>1, <1>2 DEF StampsInv, StampInv, StampMeansSent, NoStamps, SessionOK, Loaded

LEMMA StampsInvStep ==
    ASSUME OutboxInv, HooksInv, StampsInv, [Next]_vars
    PROVE  StampsInv' /\ (stamp # NoStamp => stamp' \in {stamp} \cup rivals)
<1>1. CASE Surroundings /\ UNCHANGED handlerVars
  <2>1. UNCHANGED <<work, stamp, msg, unsent, rivals>>
    BY <1>1 DEF handlerVars, invoiceMailVars, Surroundings, mailVars, SmtpAccept, SmtpError, Break,
                Land, Toggle
  <2>2. Around
    BY <1>1, SurroundingsAround DEF HooksInv, HookInv, NoHooks
  <2> QED
    BY <2>1, <2>2, StampStays DEF StampsInv, Around, NoStamps
<1>2. CASE work = "mails" /\ InvoiceMailNext /\ MailsOnly
  <2>1. StampInv /\ work' = work
    BY <1>2 DEF StampsInv, MailsOnly
  <2>2. ASSUME Reclassify PROVE StampInv' /\ stamp' = stamp
    <3>1. UNCHANGED <<msg, stamp, tx, exec, unsent, rivals>>
      BY <2>2 DEF Reclassify, mailVars
    <3>2. \A w \in Worker : exec[w] = NoExec \/ exec[w] # NoExec
      OBVIOUS
    <3> QED
      BY <2>1, <3>1, <3>2, StampStays
  <2>3. ASSUME NEW a \in Actor,
               \/ a \in Client /\ \E m \in InvMsg : Send(a, m)
               \/ a \in Worker /\ (Deliver(a) \/ Conclude(a))
        PROVE  StampInv' /\ stamp' = stamp
    BY <1>2, <2>1, <2>3, HandlerOpensMail DEF Send, Deliver, Conclude, invoiceMailVars
  <2>4. StampInv' /\ (stamp # NoStamp => stamp' \in {stamp} \cup rivals)
    BY <1>2, <2>1, <2>2, <2>3, StampCommits DEF InvoiceMailNext, Actor
  <2> QED
    BY <1>2, <2>1, <2>4 DEF StampsInv
<1>3. CASE work = "rules" /\ AutomationNext /\ RulesOnly
  <2>1. UNCHANGED <<work, stamp>>
    BY <1>3 DEF RulesOnly, invoiceMailVars
  <2>2. UNCHANGED msg \/ \E a \in Actor : CommitRun(a)
    BY <1>3 DEF AutomationNext, Sweep, Retry, Attempt, Record, SetStatus, mailVars
  <2> QED
    BY <1>3, <2>1, <2>2, NoStampsStep DEF StampsInv
<1>4. CASE work = "captures" /\ CaptureNext /\ CapturesOnly
  <2>1. UNCHANGED <<work, stamp, msg>>
    BY <1>4 DEF CapturesOnly, invoiceMailVars, CaptureNext, mailVars, Extract, Progress, Publish, Skip,
                Admit, Correct, SaveInvoice, Reread, CommitCapture
  <2> QED
    BY <1>4, <2>1, NoStampsStep DEF StampsInv
<1>5. CASE work = "hooks" /\ WebhooksNext /\ HooksOnly
  <2>1. UNCHANGED <<work, stamp, msg>>
    BY <1>5 DEF HooksOnly, invoiceMailVars, WebhooksNext, mailVars, CommitEmit, RollbackEmit, Emit,
                Drop, Post, Delivered, Failed, Switch
  <2> QED
    BY <1>5, <2>1, NoStampsStep DEF StampsInv
<1>6. CASE UNCHANGED vars
  <2>1. UNCHANGED <<work, stamp, msg, tx, exec, unsent, rivals>>
    BY <1>6 DEF vars, workerVars, invoiceMailVars, mailVars
  <2> QED
    BY <2>1, StampStays, NoStampsStep DEF StampsInv
<1> QED
  BY <1>1, <1>2, <1>3, <1>4, <1>5, <1>6 DEF Next

\* An invoice has a stamp when one of its mails was accepted, and then keeps it
\* against every mail that no worker was at when it was stamped (deliver).
THEOREM StampedOnceCorrect == Spec => StampedOnce
<1>1. Init => OutboxInv /\ HooksInv /\ StampsInv
  BY InvInit, HooksInit, StampsInit
<1>2. OutboxInv /\ HooksInv /\ StampsInv /\ [Next]_vars => OutboxInv' /\ HooksInv' /\ StampsInv'
  BY InvStep, HooksInvStep, StampsInvStep
<1>3. OutboxInv /\ HooksInv /\ StampsInv /\ [Next]_vars
        => [stamp # NoStamp => stamp' \in {stamp} \cup rivals]_stamp
  BY StampsInvStep
<1>4. StampsInv => StampMeansSent
  BY DEF StampsInv, StampInv, NoStamps, StampMeansSent
<1> QED
  BY <1>1, <1>2, <1>3, <1>4, PTL DEF Spec, StampedOnce

----------------------------------------------------------------------------
(* The inductive invariant of the captures.                                *)

\* Executions: a handler at the parser works at an attempt.
ParserInv ==
    /\ exec = [w \in Worker |-> exec[w]]
    /\ \A w \in Worker :
         /\ exec[w] # NoExec => exec[w] = [job |-> exec[w].job, at |-> exec[w].at]
         /\ At(w, "parsing") => OnCapture(w) /\ SeqOf(w) \in AttemptSeq
         /\ exec[w] # NoExec => exec[w].job \in Job
         /\ OnCapture(w) => Captured

\* A capture and the job of its first attempt are committed together.
QueueInv ==
    /\ phase = [j \in Job |-> phase[j]]
    /\ ~Captured => \A j \in Job : j[1] = "extract" => phase[j] = "absent"

\* What a transaction read under the lock of the capture, and still holds.
TxInv(a) ==
    LET t == tx[a] IN
    /\ Captured
    /\ t.locks = {Doc}
    /\ t.op \in {"publish", "reread", "correct", "save"}
    /\ t.op = "publish" =>
         /\ a \in Worker /\ At(a, "parsing")
         /\ Current(SeqOf(a)) /\ t.row \in Results(SeqOf(a))
    /\ t.op # "publish" => a \in Client
    /\ t.op = "reread" =>
         /\ capture.status # "saved" /\ capture.seq < MaxSeq
         /\ t.row = FreshRow(capture.seq + 1)
         /\ t.discarded = IF capture.reviewed THEN 1 ELSE 0
    /\ t.op # "reread" => t.discarded = 0
    /\ t.op = "correct" => capture.status \in {"parsed", "saved"}
    /\ t.op = "save" => capture.status = "parsed"

\* The row lock of the capture keeps transactions apart.
LockInv ==
    /\ tx = [a \in Actor |-> tx[a]]
    /\ \A a \in Actor : tx[a] # NoTx => TxInv(a)
    /\ \A a, b \in Actor : tx[a] # NoTx /\ tx[b] # NoTx => a = b

\* An attempt that the row still waits for, or that is to come, has not published.
NoneYet(n) == n > capture.seq \/ (n = capture.seq /\ capture.status = "queued")

RowInv ==
    /\ capture \in CaptureRow \cup {NoCapture}
    /\ publications \in [AttemptSeq -> {0, 1}]
    /\ discards \in Nat
    /\ Captured => \A n \in AttemptSeq : NoneYet(n) => publications[n] = 0
    /\ ~Captured => publications = NoFields /\ saves = {}
    /\ OneProvenance
    /\ saves = {} \/ \E c \in Client : saves = {c}
    /\ saves # {} <=> Captured /\ capture.status = "saved"

Busy == ParserInv /\ QueueInv /\ LockInv /\ RowInv

\* Captures that the behaviour does not exercise stay as they are.
Idle == capture = NoCapture /\ publications = NoFields /\ saves = {}

CaptureInv == IF work = "captures" THEN Busy ELSE Idle

LEMMA InvImplies == CaptureInv => CaptureSound
<1> SUFFICES ASSUME CaptureInv PROVE CaptureSound
  OBVIOUS
<1>1. RowInv \/ Idle
  BY DEF CaptureInv, Busy
<1>2. PublishedOnce
  BY <1>1 DEF RowInv, Idle, PublishedOnce, NoFields
<1>3. OneProvenance
  BY <1>1 DEF RowInv, Idle, OneProvenance, Captured
<1>4. SavedOnce
  <2>1. Cardinality({}) = 0 /\ \A c : Cardinality({c}) = 1
    BY FS_EmptySet, FS_Singleton
  <2>2. Cardinality(saves) <= 1
    <3>1. CASE saves = {}
      BY <2>1, <3>1
    <3>2. CASE saves # {}
      <4>1. PICK c \in Client : saves = {c}
        BY <1>1, <3>2 DEF RowInv, Idle
      <4>2. Cardinality(saves) = 1
        BY <2>1, <4>1
      <4> QED
        BY <4>2
    <3> QED
      BY <3>1, <3>2
  <2> QED
    BY <1>1, <2>2 DEF SavedOnce, RowInv, Idle, Captured
<1> QED
  BY <1>2, <1>3, <1>4 DEF CaptureSound

LEMMA CaptureInvInit == Init => CaptureInv
<1> SUFFICES ASSUME Init PROVE CaptureInv
  OBVIOUS
<1>1. Idle /\ discards = 0
  BY DEF Init, CaptureInit, Idle
<1>2. ~Captured
  BY <1>1 DEF Idle, Captured
<1>3. RowInv
  BY <1>1, <1>2, CaptureAssumption DEF Idle, RowInv, NoFields, AttemptSeq, OneProvenance
<1>4. ParserInv /\ LockInv
  BY DEF Init, WorkerInit, ParserInv, LockInv, At, OnCapture
<1>5. QueueInv
  BY DEF Init, WorkerInit, QueueInv, Queue!Init
<1> QED
  BY <1>1, <1>3, <1>4, <1>5 DEF CaptureInv, Busy

----------------------------------------------------------------------------
(* Steps that leave the capture alone.                                     *)

\* A transaction stays as it is, with the handler that holds it, or is over.
CaptureSteady ==
    /\ tx' = [a \in Actor |-> tx'[a]]
    /\ \A a \in Actor :
         tx'[a] # NoTx =>
            /\ tx'[a] = tx[a]
            /\ a \in Worker /\ At(a, "parsing") => exec'[a] = exec[a]

LEMMA SteadyLocks ==
    ASSUME LockInv, CaptureSteady, UNCHANGED capture
    PROVE  LockInv'
<1>1. ASSUME NEW a \in Actor, tx'[a] # NoTx PROVE TxInv(a)'
  <2>1. tx'[a] = tx[a] /\ TxInv(a)
    BY <1>1 DEF CaptureSteady, LockInv
  <2>2. tx[a].op = "publish" => exec'[a] = exec[a]
    BY <1>1, <2>1 DEF CaptureSteady, TxInv
  <2> QED
    BY <2>1, <2>2 DEF TxInv, Captured, At, Current, SeqOf, Results, FreshRow
<1> QED
  BY <1>1 DEF LockInv, CaptureSteady

LEMMA SameRow ==
    ASSUME RowInv, UNCHANGED captureVars
    PROVE  RowInv'
BY DEF RowInv, captureVars, Captured, NoneYet, OneProvenance

LEMMA SameQueue ==
    ASSUME QueueInv, UNCHANGED <<phase, capture>>
    PROVE  QueueInv'
BY DEF QueueInv, Captured

\* A handler moves on without a transaction.
LEMMA CaptureMoveStep ==
    ASSUME ParserInv, LockInv, NEW w \in Worker, NEW step, Goto(w, step),
           exec[w] # NoExec, step = "parsing" => OnCapture(w),
           ~At(w, "parsing") \/ tx[w] = NoTx, UNCHANGED <<tx, capture>>
    PROVE  ParserInv' /\ CaptureSteady
<1>1. /\ exec' = [v \in Worker |-> exec'[v]]
      /\ exec'[w] = [job |-> exec[w].job, at |-> step]
      /\ \A v \in Worker : v # w => exec'[v] = exec[v]
  BY DEF ParserInv, Goto
<1>2. ASSUME NEW v \in Worker
      PROVE  /\ exec'[v] # NoExec => exec'[v] = [job |-> exec'[v].job, at |-> exec'[v].at]
             /\ At(v, "parsing")' => OnCapture(v)' /\ SeqOf(v)' \in AttemptSeq
             /\ exec'[v] # NoExec => exec'[v].job \in Job
             /\ OnCapture(v)' => Captured'
  <2>1. CASE v # w
    BY <1>1, <2>1 DEF ParserInv, At, OnCapture, SeqOf, Captured
  <2>2. CASE v = w
    BY <1>1, <2>2, CaptureAssumption DEF ParserInv, At, OnCapture, SeqOf, Captured
  <2> QED
    BY <2>1, <2>2
<1>3. CaptureSteady
  BY <1>1 DEF CaptureSteady, LockInv, Actor
<1> QED
  BY <1>1, <1>2, <1>3 DEF ParserInv

LEMMA CaptureStopStep ==
    ASSUME ParserInv, LockInv, NEW w \in Worker, Stop(w), UNCHANGED capture
    PROVE  ParserInv' /\ CaptureSteady
<1>1. /\ exec' = [exec EXCEPT ![w] = NoExec]
      /\ tx' = [tx EXCEPT ![w] = NoTx]
  BY DEF Stop, Close
<1>2. ParserInv'
  BY <1>1 DEF ParserInv, At, OnCapture, SeqOf, Captured
<1>3. CaptureSteady
  BY <1>1 DEF CaptureSteady, LockInv, ParserInv, Actor
<1> QED
  BY <1>2, <1>3

LEMMA ReportKeeps ==
    ASSUME ParserInv, QueueInv, NEW w \in Worker, exec[w] # NoExec, NEW status,
           phase' = [phase EXCEPT ![exec[w].job] = status], UNCHANGED capture
    PROVE  QueueInv'
BY DEF ParserInv, QueueInv, OnCapture, Captured

LEMMA CaptureTakeStep ==
    ASSUME ParserInv, QueueInv, LockInv, NEW w \in Worker, NEW j \in Job, Take(w, j),
           UNCHANGED capture
    PROVE  ParserInv' /\ QueueInv' /\ CaptureSteady
<1>1. /\ exec' = [exec EXCEPT ![w] = [job |-> j, at |-> "begin"]]
      /\ exec[w] = NoExec /\ tx' = tx
      /\ phase[j] = "queued" /\ phase' = [phase EXCEPT ![j] = "running"]
  BY DEF Take, Queue!Start
<1>2. j[1] = "extract" => Captured
  BY <1>1 DEF QueueInv
<1>3. ParserInv'
  BY <1>1, <1>2 DEF ParserInv, At, OnCapture, SeqOf, Captured
<1>4. CaptureSteady
  BY <1>1 DEF CaptureSteady, LockInv, ParserInv, Actor, At
<1>5. QueueInv'
  BY <1>1, <1>2 DEF QueueInv, Captured
<1> QED
  BY <1>3, <1>4, <1>5

LEMMA StillStep ==
    ASSUME ParserInv, LockInv, UNCHANGED <<exec, tx, capture>>
    PROVE  ParserInv' /\ CaptureSteady
BY DEF ParserInv, LockInv, CaptureSteady, At, OnCapture, SeqOf, Captured

LEMMA CaptureSurroundings ==
    ASSUME ParserInv, QueueInv, LockInv, Surroundings, UNCHANGED capture
    PROVE  ParserInv' /\ QueueInv' /\ CaptureSteady
<1>1. ASSUME NEW w \in Worker, SmtpAccept(w) \/ SmtpError(w)
      PROVE  ParserInv' /\ QueueInv' /\ CaptureSteady
  <2>1. PICK step \in {"accepted", "uncertain"} : Goto(w, step)
    BY <1>1 DEF SmtpAccept, SmtpError
  <2>2. /\ exec[w] # NoExec /\ ~At(w, "parsing")
        /\ UNCHANGED <<tx, phase>>
    BY <1>1 DEF SmtpAccept, SmtpError, At, queueVars
  <2> QED
    BY <2>1, <2>2, CaptureMoveStep, SameQueue
<1>2. ASSUME NEW w \in Worker, Finish(w) \/ Refuse(w) \/ Crash(w) \/ Break(w)
      PROVE  ParserInv' /\ QueueInv' /\ CaptureSteady
  <2>1. Stop(w) /\ exec[w] # NoExec
    BY <1>2 DEF Finish, Refuse, Crash, Break, Raise, At
  <2>2. phase' = phase \/ \E status : phase' = [phase EXCEPT ![exec[w].job] = status]
    BY <1>2 DEF Finish, Refuse, Crash, Break, Raise, Report, Queue!Abandon, queueVars
  <2> QED
    BY <2>1, <2>2, CaptureStopStep, ReportKeeps, SameQueue
<1>3. ASSUME NEW w \in Worker, NEW j \in Job, Take(w, j)
      PROVE  ParserInv' /\ QueueInv' /\ CaptureSteady
  BY <1>3, CaptureTakeStep
<1>4. ASSUME NEW j \in Job, Reclaim(j) \/ Revive(j)
      PROVE  ParserInv' /\ QueueInv' /\ CaptureSteady
  <2>1. UNCHANGED <<exec, tx>>
    BY <1>4 DEF Reclaim, Revive
  <2>2. \A i \in Job : phase[i] = "absent" => phase'[i] = "absent"
    BY <1>4 DEF Reclaim, Revive, Queue!Recover, Queue!Retry, QueueInv
  <2>3. phase' = [i \in Job |-> phase'[i]]
    BY <1>4 DEF Reclaim, Revive, Queue!Recover, Queue!Retry, QueueInv
  <2> QED
    BY <2>1, <2>2, <2>3, StillStep DEF QueueInv, Captured
<1>5. ASSUME \/ \E w \in Worker : LoseLease(w)
             \/ \E m \in Msg : Land(m)
             \/ Toggle
      PROVE  ParserInv' /\ QueueInv' /\ CaptureSteady
  BY <1>5, StillStep, SameQueue
     DEF LoseLease, Queue!Abandon, Land, Toggle, workerVars, queueVars
<1> QED
  BY <1>1, <1>2, <1>3, <1>4, <1>5 DEF Surroundings, Serve, Repair, Trouble

----------------------------------------------------------------------------
(* Steps of the capture.                                                   *)

\* A transaction begins: it holds the lock, so it is the only one.
LEMMA OpenStep ==
    ASSUME ParserInv, QueueInv, LockInv, RowInv, NEW a \in Actor, NEW t, t.locks = {Doc},
           Open(a, t), UNCHANGED <<phase, exec, captureVars>>, tx'[a] = t => TxInv(a)'
    PROVE  Busy'
<1>1. ParserInv' /\ QueueInv' /\ RowInv'
  BY SameRow, SameQueue DEF ParserInv, At, OnCapture, SeqOf, Captured, captureVars
<1>2. \A b \in Actor : tx[b] = NoTx
  BY DEF Open, Locked, LockInv, TxInv
<1>3. tx' = [tx EXCEPT ![a] = t]
  BY DEF Open
<1>4. tx' = [b \in Actor |-> tx'[b]] /\ tx'[a] = t /\ \A b \in Actor : b # a => tx'[b] = NoTx
  BY <1>2, <1>3 DEF LockInv
<1>5. \A b \in Actor : tx'[b] # NoTx => TxInv(b)'
  BY <1>4
<1>6. LockInv'
  BY <1>4, <1>5 DEF LockInv
<1> QED
  BY <1>1, <1>6 DEF Busy

LEMMA PublishStep ==
    ASSUME Busy, NEW w \in Worker, Publish(w)
    PROVE  Busy'
<1>1. PICK row \in Results(SeqOf(w)) : Open(w, Change("publish", PublishLocks, row, 0, {}))
  BY DEF Publish
<1> DEFINE t == Change("publish", PublishLocks, row, 0, {})
<1>2. /\ t.locks = {Doc} /\ t.op = "publish" /\ t.row = row /\ t.discarded = 0
  BY DEF Change, PublishLocks
<1>3. w \in Actor /\ UNCHANGED <<phase, exec, captureVars>> /\ Open(w, t)
  BY <1>1 DEF Publish, Actor, queueVars
<1>4. At(w, "parsing") /\ Current(SeqOf(w)) /\ Captured
  BY DEF Publish, Busy, ParserInv
<1> HIDE DEF t
<1>5. ASSUME tx'[w] = t PROVE TxInv(w)'
  BY <1>1, <1>2, <1>3, <1>4, <1>5
     DEF TxInv, Captured, At, Current, SeqOf, Results, captureVars
<1> QED
  BY <1>2, <1>3, <1>5, OpenStep DEF Busy

\* The transactions of clients: corrections, retries, and invoices.
LEMMA ClientOpens ==
    ASSUME Busy, NEW c \in Client,
           Correct(c) \/ SaveInvoice(c) \/ \E ask \in BOOLEAN : Reread(c, ask)
    PROVE  Busy'
<1>1. c \in Actor /\ UNCHANGED <<phase, exec, captureVars>>
  BY DEF Correct, SaveInvoice, Reread, Actor, queueVars
<1>2. CASE Correct(c)
  <2> DEFINE t == Change("correct", {Doc}, [capture EXCEPT !.reviewed = TRUE], 0, {})
  <2>1. t.locks = {Doc} /\ t.op = "correct" /\ t.discarded = 0
    BY DEF Change
  <2>2. Open(c, t) /\ Captured /\ capture.status \in {"parsed", "saved"}
    BY <1>2 DEF Correct
  <2> HIDE DEF t
  <2>3. ASSUME tx'[c] = t PROVE TxInv(c)'
    BY <1>1, <2>1, <2>2, <2>3 DEF TxInv, Captured, captureVars
  <2> QED
    BY <1>1, <2>1, <2>2, <2>3, OpenStep DEF Busy
<1>3. CASE SaveInvoice(c)
  <2> DEFINE t == Change("save", {Doc}, [capture EXCEPT !.status = "saved"], 0, {})
  <2>1. t.locks = {Doc} /\ t.op = "save" /\ t.discarded = 0
    BY DEF Change
  <2>2. Open(c, t) /\ Captured /\ capture.status = "parsed"
    BY <1>3 DEF SaveInvoice, Linkable
  <2> HIDE DEF t
  <2>3. ASSUME tx'[c] = t PROVE TxInv(c)'
    BY <1>1, <2>1, <2>2, <2>3 DEF TxInv, Captured, captureVars
  <2> QED
    BY <1>1, <2>1, <2>2, <2>3, OpenStep DEF Busy
<1>4. ASSUME NEW ask \in BOOLEAN, Reread(c, ask) PROVE Busy'
  <2> DEFINE t == Change("reread", RetryLocks, FreshRow(capture.seq + 1),
                         IF capture.reviewed THEN 1 ELSE 0, {AttemptJob(capture.seq + 1)})
  <2>1. /\ t.locks = {Doc} /\ t.op = "reread" /\ t.row = FreshRow(capture.seq + 1)
        /\ t.discarded = IF capture.reviewed THEN 1 ELSE 0
    BY DEF Change, RetryLocks
  <2>2. Open(c, t) /\ Captured /\ capture.status # "saved" /\ capture.seq < MaxSeq
    BY <1>4 DEF Reread
  <2> HIDE DEF t
  <2>3. ASSUME tx'[c] = t PROVE TxInv(c)'
    BY <1>1, <2>1, <2>2, <2>3 DEF TxInv, Captured, captureVars, FreshRow
  <2> QED
    BY <1>1, <2>1, <2>2, <2>3, OpenStep DEF Busy
<1> QED
  BY <1>2, <1>3, <1>4

\* A worker that does not write: it finds the row, or finds it superseded.
LEMMA WorkerMoves ==
    ASSUME Busy, NEW w \in Worker, Extract(w) \/ Skip(w)
    PROVE  Busy'
<1>1. UNCHANGED <<tx, phase, captureVars>> /\ UNCHANGED capture /\ exec[w] # NoExec
  BY DEF Extract, Skip, At, queueVars, captureVars
<1>2. PICK step \in {"parsing", "done"} :
         Goto(w, step) /\ (step = "parsing" => OnCapture(w)) /\ (~At(w, "parsing") \/ tx[w] = NoTx)
  BY DEF Extract, Skip, At
<1>3. ParserInv' /\ CaptureSteady
  BY <1>1, <1>2, CaptureMoveStep DEF Busy
<1> QED
  BY <1>1, <1>3, SteadyLocks, SameRow, SameQueue DEF Busy

\* Progress is written under the lock, so no transaction has read the row.
LEMMA ProgressStep ==
    ASSUME Busy, NEW w \in Worker, Progress(w)
    PROVE  Busy'
<1>1. PICK s \in Stages : capture' = [capture EXCEPT !.stage = s, !.stagedBy = SeqOf(w)]
  BY DEF Progress
<1>2. /\ UNCHANGED <<exec, tx, phase, publications, saves, discards>>
      /\ Captured /\ capture \in CaptureRow /\ SeqOf(w) = capture.seq
  BY DEF Progress, queueVars, Busy, ParserInv, Current, RowInv, Captured
<1>3. /\ capture' \in CaptureRow /\ Captured'
      /\ \A f \in {"status", "seq", "draft", "fields", "reviewed"} : capture'[f] = capture[f]
      /\ capture'.stagedBy = capture.seq
  BY <1>1, <1>2, CaptureAssumption DEF CaptureRow, Captured
<1>4. \A a \in Actor : tx[a] = NoTx
  BY DEF Progress, Locked, Busy, LockInv, TxInv
<1>5. LockInv'
  BY <1>2, <1>4 DEF Busy, LockInv
<1>6. ParserInv' /\ QueueInv'
  BY <1>2, <1>3 DEF Busy, ParserInv, QueueInv, At, OnCapture, SeqOf
<1>7. RowInv'
  BY <1>2, <1>3 DEF Busy, RowInv, NoneYet, OneProvenance
<1> QED
  BY <1>5, <1>6, <1>7 DEF Busy

LEMMA FreshRowType ==
    ASSUME NEW n \in AttemptSeq
    PROVE  /\ FreshRow(n) \in CaptureRow /\ FreshRow(n) # NoCapture
           /\ FreshRow(n).status = "queued" /\ FreshRow(n).seq = n
           /\ FreshRow(n).draft = {} /\ FreshRow(n).fields = NoFields
           /\ FreshRow(n).reviewed = FALSE /\ FreshRow(n).stagedBy = n
<1>1. NoFields \in [AttemptSeq -> Nat]
  BY DEF NoFields
<1>2. 0 \in Stages
  BY DEF Stages
<1>3. FreshRow(n) \in CaptureRow
  BY <1>1, <1>2 DEF FreshRow, CaptureRow
<1>4. FreshRow(n) # NoCapture
  BY <1>3, CaptureAssumption
<1> QED
  BY <1>3, <1>4 DEF FreshRow

LEMMA AdmitStep ==
    ASSUME Busy, NEW c \in Client, Admit(c)
    PROVE  Busy'
<1>1. /\ ~Captured /\ capture' = FreshRow(0) /\ 0 \in AttemptSeq
      /\ UNCHANGED <<exec, tx, publications, saves, discards>>
  BY CaptureAssumption DEF Admit, AttemptSeq
<1>2. Captured'
  BY <1>1, FreshRowType DEF Captured
<1>3. ParserInv'
  BY <1>1, <1>2 DEF Busy, ParserInv, At, OnCapture, SeqOf
<1>4. QueueInv'
  BY <1>2 DEF Admit, Enqueue, QueueInv
<1>5. LockInv'
  <2>1. \A a \in Actor : tx[a] = NoTx
    BY <1>1 DEF Busy, LockInv, TxInv
  <2> QED
    BY <1>1, <2>1 DEF Busy, LockInv
<1>6. RowInv'
  <2>1. /\ capture' \in CaptureRow /\ capture'.status = "queued"
        /\ capture'.draft = {} /\ capture'.fields = NoFields
        /\ capture'.seq = 0 /\ capture'.stagedBy = 0
    BY <1>1, FreshRowType
  <2>2. publications = NoFields /\ saves = {}
    BY <1>1 DEF Busy, RowInv
  <2>3. OneProvenance'
    BY <2>1 DEF OneProvenance, NoFields
  <2>4. \A n \in AttemptSeq : publications'[n] = 0
    BY <1>1, <2>2 DEF NoFields
  <2> QED
    BY <1>1, <1>2, <2>1, <2>2, <2>3, <2>4 DEF Busy, RowInv
<1> QED
  BY <1>3, <1>4, <1>5, <1>6 DEF Busy

----------------------------------------------------------------------------
(* Commits.                                                                *)

LEMMA CommitRow ==
    ASSUME Busy, NEW a \in Actor, CommitCapture(a)
    PROVE  RowInv' /\ Captured'
<1> DEFINE t == tx[a]
<1>1. t # NoTx /\ TxInv(a)
  BY DEF CommitCapture, Busy, LockInv
<1>2. Captured /\ capture \in CaptureRow /\ capture # NoCapture
  BY <1>1 DEF TxInv, Busy, RowInv, Captured
<1>3. t.discarded \in Nat /\ discards' \in Nat
  BY <1>1 DEF TxInv, CommitCapture, Busy, RowInv
<1> USE CaptureAssumption
<1>4. CASE t.op = "publish"
  <2>1. PICK n \in AttemptSeq :
           /\ n = SeqOf(a) /\ capture.seq = n /\ capture.status = "queued"
           /\ t.row \in Results(n)
    BY <1>1, <1>4 DEF TxInv, Current, Busy, ParserInv
  <2>2. /\ capture' = t.row /\ publications' = [publications EXCEPT ![n] = @ + 1]
        /\ saves' = saves
    BY <1>4, <2>1 DEF CommitCapture
  <2>3. /\ capture' \in CaptureRow
        /\ capture'.status \in {"parsed", "failed"}
        /\ capture'.seq = n /\ capture'.stagedBy = n
        /\ capture'.draft = IF capture'.status = "parsed" THEN {n} ELSE {}
        /\ capture'.fields = IF capture'.status = "parsed"
                               THEN [capture.fields EXCEPT ![n] = @ + 1] ELSE capture.fields
    <3>1. 2 \in Stages /\ {n} \in SUBSET AttemptSeq /\ capture.draft = {}
      BY <1>2, <2>1 DEF Stages, Busy, RowInv, OneProvenance
    <3>2. [capture.fields EXCEPT ![n] = @ + 1] \in [AttemptSeq -> Nat]
      BY <1>2, <2>1 DEF CaptureRow
    <3>3. CASE t.row = [capture EXCEPT !.status = "parsed", !.draft = {n}, !.fields[n] = @ + 1,
                                       !.stage = 2, !.stagedBy = n]
      BY <1>2, <2>1, <2>2, <3>1, <3>2, <3>3 DEF CaptureRow
    <3>4. CASE t.row = [capture EXCEPT !.status = "failed", !.stage = 2, !.stagedBy = n]
      BY <1>2, <2>1, <2>2, <3>1, <3>4 DEF CaptureRow
    <3> QED
      BY <2>1, <3>3, <3>4 DEF Results
  <2>4. publications[n] = 0 /\ \A m \in AttemptSeq : capture.fields[m] = 0
    BY <1>2, <2>1 DEF Busy, RowInv, NoneYet, OneProvenance
  <2>5. Captured'
    BY <2>3 DEF Captured
  <2>6. OneProvenance'
    BY <1>2, <2>3, <2>4 DEF OneProvenance, CaptureRow
  <2>7. /\ publications' \in [AttemptSeq -> {0, 1}]
        /\ \A m \in AttemptSeq : NoneYet(m)' => publications'[m] = 0
    <3>1. publications' \in [AttemptSeq -> {0, 1}]
      BY <2>1, <2>2, <2>4 DEF Busy, RowInv
    <3>2. ASSUME NEW m \in AttemptSeq, NoneYet(m)' PROVE publications'[m] = 0
      <4>1. m > n
        BY <2>1, <2>3, <3>2 DEF NoneYet
      <4>2. publications[m] = 0 /\ m # n
        BY <1>2, <2>1, <4>1, CaptureAssumption DEF Busy, RowInv, NoneYet, AttemptSeq
      <4> QED
        BY <2>2, <4>2 DEF Busy, RowInv
    <3> QED
      BY <3>1, <3>2
  <2>8. saves' = {}
    BY <2>1, <2>2 DEF Busy, RowInv
  <2> QED
    BY <1>3, <2>3, <2>5, <2>6, <2>7, <2>8 DEF RowInv
<1>5. CASE t.op = "reread"
  <2>1. /\ capture' = FreshRow(capture.seq + 1)
        /\ UNCHANGED <<publications, saves>>
        /\ capture.status # "saved" /\ capture.seq < MaxSeq
    BY <1>1, <1>5 DEF CommitCapture, TxInv
  <2>2. capture.seq \in Nat /\ capture.seq + 1 \in AttemptSeq
    BY <1>2, <2>1 DEF CaptureRow, AttemptSeq
  <2>3. /\ capture' \in CaptureRow /\ Captured' /\ capture'.status = "queued"
        /\ capture'.draft = {} /\ capture'.fields = NoFields
        /\ capture'.seq = capture.seq + 1 /\ capture'.stagedBy = capture.seq + 1
    BY <2>1, <2>2, FreshRowType DEF Captured
  <2>4. OneProvenance'
    BY <2>3 DEF OneProvenance, NoFields
  <2>5. ASSUME NEW n \in AttemptSeq, NoneYet(n)' PROVE publications'[n] = 0
    <3>1. n > capture.seq
      BY <2>2, <2>3, <2>5 DEF NoneYet, AttemptSeq
    <3> QED
      BY <1>2, <2>1, <3>1 DEF Busy, RowInv, NoneYet
  <2>6. saves = {}
    BY <1>2, <2>1 DEF Busy, RowInv
  <2> QED
    BY <1>3, <2>1, <2>3, <2>4, <2>5, <2>6 DEF Busy, RowInv
<1>6. CASE t.op = "correct"
  <2>1. /\ capture' = [capture EXCEPT !.reviewed = TRUE]
        /\ UNCHANGED <<publications, saves>>
    BY <1>6 DEF CommitCapture
  <2>2. /\ capture' \in CaptureRow /\ Captured'
        /\ \A f \in {"status", "seq", "draft", "fields", "stagedBy"} : capture'[f] = capture[f]
    BY <1>2, <2>1 DEF CaptureRow, Captured
  <2> QED
    BY <1>2, <1>3, <2>1, <2>2 DEF Busy, RowInv, NoneYet, OneProvenance
<1>7. CASE t.op = "save"
  <2>1. /\ capture' = [capture EXCEPT !.status = "saved"]
        /\ publications' = publications /\ saves' = saves \cup {a} /\ a \in Client
        /\ capture.status = "parsed" /\ saves = {}
    BY <1>1, <1>2, <1>7 DEF CommitCapture, TxInv, Busy, RowInv
  <2>2. /\ capture' \in CaptureRow /\ Captured' /\ capture'.status = "saved"
        /\ \A f \in {"seq", "draft", "fields", "stagedBy"} : capture'[f] = capture[f]
    BY <1>2, <2>1 DEF CaptureRow, Captured
  <2> QED
    BY <1>2, <1>3, <2>1, <2>2 DEF Busy, RowInv, NoneYet, OneProvenance
<1> QED
  BY <1>1, <1>4, <1>5, <1>6, <1>7 DEF TxInv

LEMMA CommitStep ==
    ASSUME Busy, NEW a \in Actor, CommitCapture(a)
    PROVE  Busy'
<1>1. tx[a] # NoTx /\ TxInv(a)
  BY DEF CommitCapture, Busy, LockInv
<1>2. RowInv' /\ Captured'
  BY CommitRow
<1>3. ParserInv'
  <2>1. CASE a \in Worker
    <3>1. At(a, "parsing") /\ Goto(a, "done")
      BY <1>1, <2>1, ActorAssumption DEF TxInv, CommitCapture
    <3> QED
      BY <1>2, <2>1, <3>1 DEF Busy, ParserInv, Goto, At, OnCapture, SeqOf
  <2>2. CASE a \notin Worker
    BY <1>2, <2>2 DEF CommitCapture, Busy, ParserInv, At, OnCapture, SeqOf
  <2> QED
    BY <2>1, <2>2
<1>4. QueueInv'
  BY <1>2 DEF CommitCapture, Enqueue, QueueInv
<1>5. tx' = [tx EXCEPT ![a] = NoTx] /\ \A b \in Actor : b # a => tx[b] = NoTx
  BY <1>1 DEF CommitCapture, Close, Busy, LockInv
<1>6. LockInv'
  BY <1>5 DEF Busy, LockInv
<1> QED
  BY <1>2, <1>3, <1>4, <1>6 DEF Busy

----------------------------------------------------------------------------
(* Every step.                                                             *)

LEMMA CaptureInvStep ==
    ASSUME CaptureInv, [Next]_vars
    PROVE  CaptureInv'
<1>1. CASE work # "captures"
  <2>1. UNCHANGED <<capture, publications, saves, work>>
    BY <1>1 DEF Next, RulesOnly, MailsOnly, HooksOnly, handlerVars, captureVars, vars
  <2> QED
    BY <1>1, <2>1 DEF CaptureInv, Idle
<1>2. CASE work = "captures"
  <2>1. Busy
    BY <1>2 DEF CaptureInv
  <2>2. work' = work
    BY DEF Next, RulesOnly, MailsOnly, CapturesOnly, HooksOnly, handlerVars, vars
  <2>3. CASE Surroundings /\ UNCHANGED handlerVars
    <3>1. UNCHANGED captureVars /\ UNCHANGED capture
      BY <2>3 DEF handlerVars, captureVars
    <3> QED
      BY <2>1, <2>3, <3>1, CaptureSurroundings, SteadyLocks, SameRow, <1>2, <2>2 DEF Busy, CaptureInv
  <2>4. CASE CaptureNext
    <3>1. Busy'
      BY <2>1, <2>4, WorkerMoves, ProgressStep, PublishStep, ClientOpens, AdmitStep, CommitStep
         DEF CaptureNext
    <3> QED
      BY <1>2, <2>2, <3>1 DEF CaptureInv
  <2>5. CASE UNCHANGED vars
    <3>1. UNCHANGED <<exec, tx, phase, capture>> /\ UNCHANGED captureVars /\ UNCHANGED capture
      BY <2>5 DEF vars, workerVars, captureVars
    <3> QED
      BY <2>1, <3>1, StillStep, SteadyLocks, SameRow, SameQueue, <1>2, <2>2 DEF Busy, CaptureInv
  <2> QED
    BY <1>2, <2>3, <2>4, <2>5 DEF Next
<1> QED
  BY <1>1, <1>2

LEMMA Invariance == Spec => []CaptureInv
BY CaptureInvInit, CaptureInvStep, PTL DEF Spec

\* What a capture shows is the result of its current attempt, published at most
\* once although jobs run twice, and one invoice is saved from it (publish,
\* link_to_invoice), for any workers, clients, attempts and faults.
THEOREM CaptureSoundCorrect == Spec => []CaptureSound
<1>1. CaptureInv => CaptureSound
  BY InvImplies
<1> QED
  BY <1>1, Invariance, PTL

\* Corrections that a retry drops are on the trail (retry_upload), also when
\* the correction and the retry arrive together.
THEOREM DiscardsOnRecordCorrect == Spec => DiscardsOnRecord
<1> DEFINE Trail == Captured /\ capture.reviewed /\ ~capture'.reviewed => discards' = discards + 1
<1>1. ASSUME CaptureInv, [Next]_vars PROVE [Trail]_captureVars
  <2> SUFFICES ASSUME Captured, capture.reviewed, ~capture'.reviewed, ~UNCHANGED captureVars
               PROVE  discards' = discards + 1
    OBVIOUS
  <2>1. work = "captures" /\ Busy /\ capture \in CaptureRow
    BY <1>1 DEF CaptureInv, Idle, Captured, Busy, RowInv
  <2>2. CaptureNext
    BY <1>1, <2>1 DEF Next, handlerVars, vars
  <2>3. ASSUME NEW a \in Actor, CommitCapture(a) PROVE discards' = discards + 1
    <3>1. tx[a] # NoTx /\ TxInv(a)
      BY <2>1, <2>3 DEF CommitCapture, Busy, LockInv
    <3>2. tx[a].op = "reread"
      BY <2>1, <2>3, <3>1 DEF CommitCapture, TxInv, Results, CaptureRow
    <3> QED
      BY <2>3, <3>1, <3>2 DEF CommitCapture, TxInv
  <2>4. ASSUME NEW w \in Worker, Progress(w) PROVE FALSE
    BY <2>1, <2>4 DEF Progress, CaptureRow
  <2> QED
    BY <2>2, <2>3, <2>4
       DEF CaptureNext, Extract, Publish, Skip, Admit, Correct, SaveInvoice, Reread
<1> QED
  BY <1>1, Invariance, PTL DEF Spec, DiscardsOnRecord, Trail

----------------------------------------------------------------------------
(* The types of the rows, the executions and the jobs.                     *)

Phase == {"absent", "queued", "running", "succeeded", "dead"}

QueueTyped ==
    /\ phase \in [Job -> Phase]
    /\ runner \in [Job -> Worker \cup {NoWorker}]
    /\ tries \in [Job -> 0 .. MaxAttempts]

ExecTyped == \A w \in Worker : exec[w] # NoExec => exec[w].at \in Step

Typed ==
    /\ QueueTyped /\ ExecTyped
    /\ faults \in Nat
    /\ stamp \in InvMsg \cup {NoStamp}
    /\ delivery \in [Event -> [Delivery -> {"absent", "pending", "delivered", "failed"}]]

LEMMA TypedInit == Init => Typed
<1> SUFFICES ASSUME Init PROVE Typed
  OBVIOUS
<1>1. QueueTyped /\ ExecTyped
  BY ActorAssumption DEF Init, WorkerInit, Queue!Init, QueueTyped, ExecTyped, Phase
<1>2. faults \in Nat
  BY ActorAssumption, HandlerAssumption DEF Init
<1>3. stamp = NoStamp /\ delivery \in [Event -> [Delivery -> {"absent", "pending", "delivered", "failed"}]]
  BY DEF Init, InvoiceMailInit, WebhooksInit
<1> QED
  BY <1>1, <1>2, <1>3 DEF Typed

LEMMA EnqueueTyped ==
    ASSUME QueueTyped, NEW S, Enqueue(S)
    PROVE  QueueTyped'
BY DEF QueueTyped, Enqueue, Phase

LEMMA GotoTyped ==
    ASSUME OutboxInv, ExecTyped, NEW w \in Worker, NEW step \in Step, Goto(w, step)
    PROVE  ExecTyped'
BY DEF OutboxInv, ExecInv, ExecTyped, Goto

LEMMA StopTyped ==
    ASSUME OutboxInv, ExecTyped, NEW w \in Worker, Stop(w)
    PROVE  ExecTyped'
BY DEF OutboxInv, ExecInv, ExecTyped, Stop

\* A job is reported, or its attempts are over.
LEMMA ReportTyped ==
    ASSUME OutboxInv, QueueTyped, NEW w \in Worker, exec[w] # NoExec,
           Report(exec[w].job, "succeeded") \/ Raise(w, TRUE) \/ Raise(w, FALSE)
    PROVE  QueueTyped'
<1>1. PICK j \in Job : j = exec[w].job
  BY DEF OutboxInv, ExecInv
<1>2. PICK status \in Phase : Report(j, status)
  BY <1>1 DEF Raise, Phase
<1> QED
  BY <1>2 DEF QueueTyped, Report

LEMMA TakeTyped ==
    ASSUME OutboxInv, QueueTyped, ExecTyped, NEW w \in Worker, NEW j \in Job, Take(w, j)
    PROVE  QueueTyped' /\ ExecTyped'
<1>1. /\ phase' = [phase EXCEPT ![j] = "running"]
      /\ runner' = [runner EXCEPT ![j] = w]
      /\ tries' = [tries EXCEPT ![j] = @ + 1]
      /\ tries[j] < MaxAttempts
      /\ exec' = [exec EXCEPT ![w] = [job |-> j, at |-> "begin"]]
  BY DEF Take, Queue!Start
<1>2. tries[j] + 1 \in 0 .. MaxAttempts
  BY <1>1, ActorAssumption DEF QueueTyped
<1>3. QueueTyped'
  BY <1>1, <1>2 DEF QueueTyped, Phase
<1>4. ExecTyped'
  BY <1>1 DEF OutboxInv, ExecInv, ExecTyped, Step
<1> QED
  BY <1>3, <1>4

LEMMA SurroundingsTyped ==
    ASSUME OutboxInv, QueueTyped, ExecTyped, faults \in Nat, Surroundings
    PROVE  QueueTyped' /\ ExecTyped' /\ faults' \in Nat
<1>1. Fault => faults' \in Nat
  BY DEF Fault
<1>2. ASSUME NEW w \in Worker, SmtpAccept(w) \/ SmtpError(w)
      PROVE  QueueTyped' /\ ExecTyped' /\ faults' \in Nat
  <2>1. PICK step \in Step : Goto(w, step)
    BY <1>2 DEF SmtpAccept, SmtpError, Step
  <2>2. UNCHANGED <<phase, runner, tries, faults>>
    BY <1>2 DEF SmtpAccept, SmtpError, queueVars
  <2> QED
    BY <2>1, <2>2, GotoTyped DEF QueueTyped
<1>3. ASSUME NEW w \in Worker, Finish(w) \/ Refuse(w) \/ Break(w)
      PROVE  QueueTyped' /\ ExecTyped' /\ faults' \in Nat
  <2>1. exec[w] # NoExec /\ Stop(w)
    BY <1>3 DEF Finish, Refuse, Break, Raise, At
  <2>2. Report(exec[w].job, "succeeded") \/ Raise(w, TRUE) \/ Raise(w, FALSE)
    BY <1>3 DEF Finish, Refuse, Break
  <2>3. faults' \in Nat
    BY <1>1, <1>3 DEF Finish, Refuse, Break
  <2> QED
    BY <2>1, <2>2, <2>3, StopTyped, ReportTyped
<1>4. ASSUME NEW w \in Worker, Crash(w) \/ LoseLease(w)
      PROVE  QueueTyped' /\ ExecTyped' /\ faults' \in Nat
  <2>1. exec[w].job \in Job /\ (Stop(w) \/ UNCHANGED exec)
    BY <1>4 DEF Crash, LoseLease, OutboxInv, ExecInv
  <2>2. QueueTyped'
    BY <1>4, <2>1 DEF Crash, LoseLease, Queue!Abandon, queueVars, QueueTyped
  <2>3. ExecTyped'
    BY <2>1, StopTyped DEF ExecTyped
  <2> QED
    BY <1>1, <1>4, <2>2, <2>3 DEF Crash, LoseLease
<1>5. ASSUME NEW j \in Job, Reclaim(j) \/ Revive(j)
      PROVE  QueueTyped' /\ ExecTyped' /\ faults' \in Nat
  <2>1. UNCHANGED exec /\ faults' \in Nat
    BY <1>1, <1>5 DEF Reclaim, Revive
  <2>2. CASE Reclaim(j)
    BY <2>1, <2>2 DEF Reclaim, Queue!Recover, QueueTyped, Phase, ExecTyped
  <2>3. CASE Revive(j)
    <3>1. [tries EXCEPT ![j] = 0] \in [Job -> 0 .. MaxAttempts]
      BY ActorAssumption DEF QueueTyped
    <3> QED
      BY <2>1, <2>3, <3>1 DEF Revive, Queue!Retry, QueueTyped, Phase, ExecTyped
  <2> QED
    BY <1>5, <2>2, <2>3
<1>6. ASSUME (\E m \in Msg : Land(m)) \/ Toggle
      PROVE  QueueTyped' /\ ExecTyped' /\ faults' \in Nat
  <2>1. UNCHANGED <<phase, runner, tries, exec>> /\ faults' \in Nat
    BY <1>1, <1>6 DEF Land, Toggle, workerVars, queueVars
  <2> QED
    BY <2>1 DEF QueueTyped, ExecTyped
<1> QED
  BY <1>2, <1>3, <1>4, <1>5, <1>6, TakeTyped
     DEF Surroundings, Serve, Repair, Trouble, Finish, Refuse, Take

LEMMA RulesTyped ==
    ASSUME OutboxInv, work = "rules", QueueTyped, ExecTyped, faults \in Nat, AutomationNext
    PROVE  QueueTyped' /\ ExecTyped' /\ faults' \in Nat
<1>1. ASSUME NEW a \in Actor, CommitRun(a)
      PROVE  QueueTyped' /\ ExecTyped' /\ faults' \in Nat
  <2>1. RunTx(a) /\ Enqueue(tx[a].jobs) /\ faults' = faults
    BY <1>1 DEF CommitRun, OutboxInv, RulesInv
  <2>2. a \in Worker => Goto(a, tx[a].next) /\ tx[a].next \in Step
    BY <1>1, <2>1, ActorAssumption DEF CommitRun, RunTx, WorkerWrites, TakesUp, Step
  <2>3. a \notin Worker => UNCHANGED exec
    BY <1>1 DEF CommitRun
  <2>4. ExecTyped'
    BY <2>2, <2>3, GotoTyped DEF ExecTyped
  <2> QED
    BY <2>1, <2>4, EnqueueTyped
<1>2. ASSUME ~\E a \in Actor : CommitRun(a)
      PROVE  QueueTyped' /\ ExecTyped' /\ faults' \in Nat
  <2>1. UNCHANGED <<phase, runner, tries, exec>> /\ (Fault \/ UNCHANGED faults)
    BY <1>2 DEF AutomationNext, Sweep, Retry, Attempt, Record, SetStatus, queueVars
  <2> QED
    BY <2>1 DEF QueueTyped, ExecTyped, Fault
<1> QED
  BY <1>1, <1>2

LEMMA MailsTyped ==
    ASSUME OutboxInv, work = "mails", QueueTyped, ExecTyped, faults \in Nat,
           stamp \in InvMsg \cup {NoStamp}, InvoiceMailNext
    PROVE  QueueTyped' /\ ExecTyped' /\ faults' \in Nat /\ stamp' \in InvMsg \cup {NoStamp}
<1>1. ASSUME NEW a \in Actor, CommitMail(a)
      PROVE  QueueTyped' /\ ExecTyped' /\ faults' \in Nat /\ stamp' \in InvMsg \cup {NoStamp}
  <2>1. MailTx(a) /\ Enqueue(tx[a].jobs) /\ faults' = faults
    BY <1>1 DEF CommitMail, OutboxInv, MailsInv
  <2>2. a \in Worker => Goto(a, tx[a].next) /\ tx[a].next \in Step
    BY <1>1, <2>1, ActorAssumption DEF CommitMail, MailTx, WorkerWrites, TakesUp, Step
  <2>3. a \notin Worker => UNCHANGED exec
    BY <1>1 DEF CommitMail
  <2>4. ExecTyped'
    BY <2>2, <2>3, GotoTyped DEF ExecTyped
  <2>5. stamp' \in InvMsg \cup {NoStamp}
    BY <1>1, <2>1 DEF CommitMail, MailTx
  <2> QED
    BY <2>1, <2>4, <2>5, EnqueueTyped
<1>2. ASSUME ~\E a \in Actor : CommitMail(a)
      PROVE  QueueTyped' /\ ExecTyped' /\ faults' \in Nat /\ stamp' \in InvMsg \cup {NoStamp}
  <2>1. /\ UNCHANGED <<phase, runner, tries, exec, stamp>>
        /\ Fault \/ UNCHANGED faults
    BY <1>2 DEF InvoiceMailNext, Send, Deliver, Conclude, Reclassify, queueVars, invoiceMailVars
  <2> QED
    BY <2>1 DEF QueueTyped, ExecTyped, Fault
<1> QED
  BY <1>1, <1>2

LEMMA CapturesTyped ==
    ASSUME OutboxInv, QueueTyped, ExecTyped, faults \in Nat, CaptureNext
    PROVE  QueueTyped' /\ ExecTyped' /\ faults' \in Nat
<1>1. "parsing" \in Step /\ "done" \in Step
  BY DEF Step
<1>2. UNCHANGED faults
  BY DEF CaptureNext, Extract, Progress, Publish, Skip, Admit, Correct, SaveInvoice, Reread,
         CommitCapture
<1>3. QueueTyped'
  <2>1. UNCHANGED <<phase, runner, tries>> \/ \E S : Enqueue(S)
    BY DEF CaptureNext, Extract, Progress, Publish, Skip, Admit, Correct, SaveInvoice, Reread,
           CommitCapture, queueVars
  <2> QED
    BY <2>1, EnqueueTyped DEF QueueTyped
<1>4. ExecTyped'
  <2>1. UNCHANGED exec \/ \E w \in Worker : Goto(w, "parsing") \/ Goto(w, "done")
    BY DEF CaptureNext, Extract, Progress, Publish, Skip, Admit, Correct, SaveInvoice, Reread,
           CommitCapture
  <2> QED
    BY <1>1, <2>1, GotoTyped DEF ExecTyped
<1> QED
  BY <1>2, <1>3, <1>4

LEMMA HooksTyped ==
    ASSUME OutboxInv, QueueTyped, ExecTyped, faults \in Nat, WebhooksNext
    PROVE  QueueTyped' /\ ExecTyped' /\ faults' \in Nat
<1>1. faults' \in Nat
  <2>1. Fault \/ UNCHANGED faults
    BY DEF WebhooksNext, CommitEmit, RollbackEmit, Emit, Drop, Post, Delivered, Failed, Switch
  <2> QED
    BY <2>1 DEF Fault
<1>2. QueueTyped'
  <2>1. \/ UNCHANGED <<phase, runner, tries>>
        \/ \E S : Enqueue(S)
        \/ \E w \in Worker : exec[w] # NoExec /\ Raise(w, FALSE)
    BY DEF WebhooksNext, CommitEmit, RollbackEmit, Emit, Drop, Post, Delivered, Failed, EndLoudly,
           Switch, At, queueVars
  <2> QED
    BY <2>1, EnqueueTyped, ReportTyped DEF QueueTyped
<1>3. ExecTyped'
  <2>1. \/ UNCHANGED exec
        \/ \E w \in Worker, step \in {"done", "answered", "failing"} : Goto(w, step)
        \/ \E w \in Worker : Stop(w)
    BY DEF WebhooksNext, CommitEmit, RollbackEmit, Emit, Drop, Post, Delivered, Failed, EndLoudly,
           Raise, Switch
  <2>2. {"done", "answered", "failing"} \subseteq Step
    BY DEF Step
  <2> QED
    BY <2>1, <2>2, GotoTyped, StopTyped DEF ExecTyped
<1> QED
  BY <1>1, <1>2, <1>3

\* Rows, jobs and executions keep their types.
LEMMA TypedStep ==
    ASSUME OutboxInv, HooksInv, HooksInv', Typed, [Next]_vars
    PROVE  Typed'
<1>1. delivery' \in [Event -> [Delivery -> {"absent", "pending", "delivered", "failed"}]]
  <2>1. CASE work = "hooks"
    <3>1. work' = "hooks"
      BY <2>1 DEF Next, HooksOnly, handlerVars, vars
    <3> QED
      BY <3>1 DEF HooksInv, HookInv
  <2>2. CASE work # "hooks"
    BY <2>2 DEF Next, RulesOnly, MailsOnly, CapturesOnly, handlerVars, webhookVars, vars, Typed
  <2> QED
    BY <2>1, <2>2
<1>2. CASE Surroundings /\ UNCHANGED handlerVars
  BY <1>1, <1>2, SurroundingsTyped DEF Typed, handlerVars, invoiceMailVars
<1>3. CASE work = "rules" /\ AutomationNext /\ RulesOnly
  BY <1>1, <1>3, RulesTyped DEF Typed, RulesOnly, invoiceMailVars
<1>4. CASE work = "mails" /\ InvoiceMailNext /\ MailsOnly
  BY <1>1, <1>4, MailsTyped DEF Typed
<1>5. CASE work = "captures" /\ CaptureNext /\ CapturesOnly
  BY <1>1, <1>5, CapturesTyped DEF Typed, CapturesOnly, invoiceMailVars
<1>6. CASE work = "hooks" /\ WebhooksNext /\ HooksOnly
  BY <1>1, <1>6, HooksTyped DEF Typed, HooksOnly, invoiceMailVars
<1>7. CASE UNCHANGED vars
  BY <1>1, <1>7 DEF Typed, QueueTyped, ExecTyped, vars, workerVars, invoiceMailVars
<1> QED
  BY <1>2, <1>3, <1>4, <1>5, <1>6, <1>7 DEF Next

LEMMA TypesHold ==
    ASSUME OutboxInv, RunsInv, CaptureInv, Typed
    PROVE  TypeOK
<1>1. /\ msg \in [Msg -> MailStatus] /\ sends \in [Msg -> Nat] /\ adrift \subseteq Msg
  BY DEF OutboxInv, MailInv
<1>2. \A w \in Worker : exec[w] # NoExec => exec[w].job \in Job /\ exec[w].at \in Step
  BY DEF OutboxInv, ExecInv, Typed, ExecTyped
<1>3. \A a \in Actor : tx[a] # NoTx => a \in Client \/ exec[a] # NoExec
  BY DEF OutboxInv, HolderInv, Actor
<1>4. \A r \in Runs : run[r].status \in {"pending", "blocked", "unknown", "ok"}
  <2>1. CASE work = "rules"
    BY <2>1 DEF OutboxInv, RulesInv, RunRow, Runs
  <2>2. CASE work # "rules"
    BY <2>2 DEF RunsInv, Runs
  <2> QED
    BY <2>1, <2>2
<1>5. Captured => capture.status \in {"queued", "parsed", "failed", "saved"}
  BY DEF CaptureInv, Busy, Idle, RowInv, Captured, CaptureRow
<1> QED
  BY <1>1, <1>2, <1>3, <1>4, <1>5 DEF TypeOK, Typed, QueueTyped, Phase

----------------------------------------------------------------------------
(* The inductive invariant of what waits.                                  *)

\* No execution is about to report the job as succeeded: it will be looked at.
Alive(j) ==
    /\ j \in Job
    /\ phase[j] \notin {"absent", "succeeded"}
    /\ \A w \in Worker : At(w, "done") => exec[w].job # j

\* The job of the generation that mail i of run r is at.
RunJob(r, i) == MailJob(RunMail(r, i), run[r].gen[i])

\* What a transaction leaves queued waits already, or gets a job no one had.
LeavesWaiting(t) ==
    /\ \A i \in Index :
         /\ run[t.run] # NoRun => run[t.run].gen[i] <= t.new.gen[i]
         /\ t.msgs[RunMail(t.run, i)] = "queued" =>
              \/ /\ run[t.run] # NoRun
                 /\ msg[RunMail(t.run, i)] = "queued"
                 /\ t.new.gen[i] = run[t.run].gen[i]
              \/ MailJob(RunMail(t.run, i), t.new.gen[i]) \in t.jobs
    /\ \A j \in t.jobs : /\ j \in Job
                         /\ phase[j] = "absent"
                         /\ \E i \in Index : j = MailJob(RunMail(t.run, i), t.new.gen[i])

\* A handler leaves its own mail decided.
Requeues(a) ==
    /\ LeavesWaiting(tx[a])
    /\ a \in Worker => tx[a].msgs[MailOf(a)] # "queued" /\ tx[a].jobs = {}

RulesWait ==
    /\ \A m \in Msg : msg[m] = "queued" =>
         \E r \in Run, i \in Index : m = RunMail(r, i) /\ run[r] # NoRun /\ Alive(RunJob(r, i))
    /\ \A r \in Run, i \in Index, g \in Nat :
         run[r] # NoRun /\ g > run[r].gen[i] /\ MailJob(RunMail(r, i), g) \in Job =>
            phase[MailJob(RunMail(r, i), g)] = "absent"
    /\ \A a \in Actor : tx[a] # NoTx => Requeues(a)

MailsWait ==
    /\ \A m \in Msg : msg[m] = "queued" => m \in InvMsg /\ Alive(MailJob(m, 0))
    /\ \A a \in Actor : tx[a] # NoTx /\ tx[a].status = "queued" =>
         tx[a].op = "send" /\ MailJob(tx[a].mail, 0) \in tx[a].jobs

CapturesWait ==
    /\ Captured /\ capture.status = "queued" => Alive(AttemptJob(capture.seq))
    /\ \A n \in AttemptSeq : (Captured => n > capture.seq) => phase[AttemptJob(n)] = "absent"
    /\ \A a \in Actor : tx[a] # NoTx =>
         tx[a].jobs = IF tx[a].op = "reread" THEN {AttemptJob(capture.seq + 1)} ELSE {}

WaitInv ==
    /\ work = "rules" => RulesWait
    /\ work = "mails" => MailsWait
    /\ work = "captures" => CapturesWait
    /\ work \notin {"rules", "mails"} => \A m \in Msg : msg[m] # "queued"

----------------------------------------------------------------------------
(* Jobs that will be looked at.                                            *)

\* The jobs that are worked at were queued.
Known == \A w \in Worker : exec[w] # NoExec => phase[exec[w].job] # "absent"

LEMMA AliveStays ==
    ASSUME Around, NEW j, Alive(j)
    PROVE  Alive(j)'
BY DEF Around, Alive, At

\* A transaction commits: the jobs it queues, and those its handler does not
\* report, will be looked at.
Commits(a, next) == IF a \in Worker THEN exec[a] # NoExec /\ Goto(a, next) ELSE UNCHANGED exec

LEMMA AliveCommits ==
    ASSUME OutboxInv, Known, NEW S, Enqueue(S), NEW a, NEW next, Commits(a, next),
           NEW j \in Job, Alive(j) \/ (j \in S /\ phase[j] = "absent"),
           a \in Worker => next # "done" \/ exec[a].job # j
    PROVE  Alive(j)'
<1>1. phase'[j] \notin {"absent", "succeeded"}
  BY DEF Enqueue, Alive
<1>2. ASSUME NEW w \in Worker, At(w, "done")' PROVE exec'[w].job # j
  <2>1. CASE w # a \/ a \notin Worker
    <3>1. exec'[w] = exec[w]
      BY <2>1 DEF Commits, Goto, OutboxInv, ExecInv
    <3> QED
      BY <1>2, <3>1 DEF Alive, Known, At
  <2>2. CASE w = a
    <3>1. exec'[w].job = exec[w].job /\ exec'[w].at = next
      BY <2>2 DEF Commits, Goto, OutboxInv, ExecInv
    <3> QED
      BY <1>2, <2>2, <3>1 DEF At
  <2> QED
    BY <2>1, <2>2
<1> QED
  BY <1>1, <1>2 DEF Alive

\* A handler that keeps its transaction keeps its job.
LEMMA HandlerKept ==
    ASSUME OutboxInv, OutboxInv', Around, NEW a \in Actor, tx'[a] # NoTx
    PROVE  tx'[a] = tx[a] /\ (a \in Worker => MailOf(a)' = MailOf(a))
<1>1. tx'[a] = tx[a]
  BY DEF Around
<1>2. a \in Worker => exec[a] # NoExec /\ exec'[a] # NoExec
  BY <1>1 DEF OutboxInv, HolderInv
<1> QED
  BY <1>1, <1>2 DEF Around, MailOf

----------------------------------------------------------------------------
(* Runs whose mails wait.                                                  *)

LEMMA RequeuesStay ==
    ASSUME NEW a \in Actor, Requeues(a), tx'[a] = tx[a], firing' = firing,
           NEW s, s = tx[a].run, run'[s] = run[s],
           \A i \in Index : msg'[RunMail(s, i)] = msg[RunMail(s, i)],
           a \in Worker => MailOf(a)' = MailOf(a),
           \A j \in tx[a].jobs : phase'[j] = "absent"
    PROVE  Requeues(a)'
<1>1. Index' = Index
  BY DEF Index
<1> QED
  BY <1>1 DEF Requeues, LeavesWaiting

LEMMA RulesWaitStays ==
    ASSUME RulesWait, OutboxInv, OutboxInv', work = "rules", Around,
           UNCHANGED <<run, firing, msg>>
    PROVE  RulesWait'
<1>1. ASSUME NEW a \in Actor, tx'[a] # NoTx PROVE Requeues(a)'
  <2>1. tx'[a] = tx[a] /\ (a \in Worker => MailOf(a)' = MailOf(a)) /\ Requeues(a)
    BY <1>1, HandlerKept DEF RulesWait
  <2>2. \A j \in tx[a].jobs : phase'[j] = "absent"
    BY <2>1 DEF Requeues, LeavesWaiting, Around
  <2> QED
    BY <2>1, <2>2, RequeuesStay
<1>2. ASSUME NEW m \in Msg, msg'[m] = "queued"
      PROVE  \E r \in Run, i \in Index : m = RunMail(r, i) /\ run[r] # NoRun /\ Alive(RunJob(r, i))'
  <2>1. PICK r \in Run, i \in Index : m = RunMail(r, i) /\ run[r] # NoRun /\ Alive(RunJob(r, i))
    BY <1>2 DEF RulesWait
  <2>2. RunJob(r, i)' = RunJob(r, i)
    BY DEF RunJob
  <2>3. PICK j : j = RunJob(r, i)
    OBVIOUS
  <2>4. Alive(j)'
    BY <2>1, <2>3, AliveStays
  <2> QED
    BY <2>1, <2>2, <2>3, <2>4 DEF Alive
<1>3. Index' = Index
  BY DEF Index
<1>4. \A j \in Job : phase[j] = "absent" => phase'[j] = "absent"
  BY DEF Around
<1> QED
  BY <1>1, <1>2, <1>3, <1>4 DEF RulesWait

\* A transaction on a run begins.
LEMMA RulesWaitOpens ==
    ASSUME RulesWait, OutboxInv, NEW a \in Actor, NEW t, Open(a, t),
           UNCHANGED <<phase, exec, run, firing, msg>>, tx'[a] = t => Requeues(a)'
    PROVE  RulesWait'
<1>1. tx'[a] = t /\ \A b \in Actor : b # a => tx'[b] = tx[b]
  BY DEF Open, OutboxInv, HolderInv
<1>2. ASSUME NEW b \in Actor, tx'[b] # NoTx PROVE Requeues(b)'
  <2>1. CASE b = a
    BY <1>1, <2>1
  <2>2. CASE b # a
    <3>1. tx'[b] = tx[b] /\ Requeues(b)
      BY <1>1, <1>2, <2>2 DEF RulesWait
    <3>2. \A j \in tx[b].jobs : phase'[j] = "absent"
      BY <3>1 DEF Requeues, LeavesWaiting
    <3> QED
      BY <3>1, <3>2, RequeuesStay DEF MailOf
  <2> QED
    BY <2>1, <2>2
<1>3. \A m \in Msg : msg'[m] = "queued" =>
        \E r \in Run, i \in Index : m = RunMail(r, i) /\ run[r] # NoRun /\ Alive(RunJob(r, i))'
  BY DEF RulesWait, Alive, RunJob, At
<1> QED
  BY <1>2, <1>3 DEF RulesWait, Index

\* No job of a later generation was ever queued, and none of a run without row.
LEMMA LaterJobs ==
    ASSUME RulesWait, OutboxInv, work = "rules", NEW r \in Run, NEW i \in Index, NEW g \in Nat,
           run[r] # NoRun => g > run[r].gen[i], NEW j \in Job, j = MailJob(RunMail(r, i), g)
    PROVE  phase[j] = "absent"
<1>1. CASE run[r] # NoRun
  BY <1>1 DEF RulesWait
<1>2. CASE run[r] = NoRun
  BY <1>2 DEF OutboxInv, JobInv, InUse, MailJob, RunMail
<1> QED
  BY <1>1, <1>2

LEMMA RunJobKnown ==
    ASSUME firing \in Firings, NEW r \in Run, NEW i \in Index, NEW g \in Nat, g <= MaxGen
    PROVE  MailJob(RunMail(r, i), g) \in Job
BY HandlerAssumption DEF Index

\* What `_prepare_mail` leaves queued, and the generation of its job.
Reprepared(p, r, i, gen) ==
    /\ gen <= p.gen /\ p.gen \in Nat
    /\ p.status = "queued" =>
         \/ msg[RunMail(r, i)] = "queued" /\ run[r] # NoRun /\ p.gen = gen
         \/ MailJob(RunMail(r, i), p.gen) \in p.job
    /\ \A j \in p.job : /\ j = MailJob(RunMail(r, i), p.gen)
                        /\ p.gen <= MaxGen => j \in Job /\ phase[j] = "absent"

LEMMA PrepareWaits ==
    ASSUME RulesWait, OutboxInv, work = "rules", NEW r \in Run, NEW i \in Index,
           NEW gen \in [Index -> Nat], run[r] # NoRun => gen[i] = run[r].gen[i],
           NEW p, p = Prepared(r, gen)[i]
    PROVE  Reprepared(p, r, i, gen[i])
<1> DEFINE m == RunMail(r, i)
           g == Generation(r, i, gen[i])
<1>1. firing \in Firings /\ m \in Msg /\ gen[i] \in Nat
  BY RunMailsKnown DEF OutboxInv, RulesInv, RunMails
<1>2. CASE Underway(r, i, gen[i])
  <2>1. p.status = msg[m] /\ p.gen = gen[i] /\ p.job = {}
    BY <1>2 DEF Prepared
  <2>2. msg[m] = "queued" => run[r] # NoRun
    BY <1>1 DEF RulesWait, RunMail
  <2> QED
    BY <1>1, <2>1, <2>2 DEF Reprepared
<1>3. CASE ~Underway(r, i, gen[i])
  <2>1. /\ p.status = IF relay THEN "queued" ELSE "blocked"
        /\ p.gen = g /\ p.job = IF relay THEN {MailJob(m, g)} ELSE {}
    BY <1>3 DEF Prepared
  <2>2. g \in Nat /\ gen[i] <= g
    BY <1>1 DEF Generation
  <2>3. ASSUME g <= MaxGen PROVE MailJob(m, g) \in Job /\ phase[MailJob(m, g)] = "absent"
    <3>1. PICK j, k : j = MailJob(m, g) /\ k = MailJob(m, gen[i])
      OBVIOUS
    <3>2. gen[i] <= MaxGen
      BY <1>1, <2>2, <2>3, HandlerAssumption
    <3>3. j \in Job /\ k \in Job
      BY <1>1, <2>2, <2>3, <3>1, <3>2, RunJobKnown
    <3>4. phase[k] \notin {"queued", "running"}
      BY <1>3, <3>1 DEF Underway
    <3>5. CASE g = gen[i]
      <4>1. phase[k] = "absent"
        BY <1>1, <3>1, <3>4, <3>5 DEF Generation, Ended
      <4> QED
        BY <3>1, <3>3, <3>5, <4>1
    <3>6. CASE g # gen[i]
      <4>1. g > gen[i]
        BY <1>1, <2>2, <3>6
      <4>2. phase[j] = "absent"
        <5> HIDE DEF g
        <5> QED
          BY <1>1, <2>2, <3>1, <3>3, <4>1, LaterJobs
      <4> QED
        BY <3>1, <3>3, <4>2
    <3> QED
      BY <3>5, <3>6
  <2> HIDE DEF g, m
  <2> QED
    BY <2>1, <2>2, <2>3 DEF Reprepared, m
<1> QED
  BY <1>2, <1>3

\* The transactions of `sweep` and `retry`.
LEMMA PerformedWaits ==
    ASSUME RulesWait, OutboxInv, work = "rules", NEW r \in Run,
           NEW op, NEW locks, NEW note, NEW gen \in [Index -> Nat],
           run[r] # NoRun => gen = run[r].gen,
           NEW t \in Performed(op, locks, r, note, gen), NEW c \in Client,
           \A i \in Index : t.new.gen[i] <= MaxGen,
           tx'[c] = t, UNCHANGED <<phase, run, firing, msg>>
    PROVE  Requeues(c)'
<1> DEFINE p == Prepared(r, gen)
           mails == [i \in Index |-> p[i].status]
           gens == [i \in Index |-> p[i].gen]
<1>1. PICK outcome \in NoteOutcomes(note) :
         t = Write(op, locks, r, Saved(mails, outcome, gens), mails,
                   UNION {p[i].job : i \in Index},
                   IF note # "done" /\ outcome = "done" THEN 1 ELSE 0, "done")
  BY DEF Performed
<1>2. \A i \in Index : Reprepared(p[i], r, i, gen[i])
  <2> TAKE i \in Index
  <2>1. PICK q : q = p[i]
    OBVIOUS
  <2> QED
    BY <2>1, PrepareWaits
<1> HIDE DEF p
<1>3. /\ t.run = r /\ t.new.gen = gens /\ t.jobs = UNION {p[i].job : i \in Index}
      /\ t.msgs = [m \in RunMails(r) |-> mails[m[2]]]
  BY <1>1 DEF Write, Saved, RunMails
<1>4. \A i \in Index : t.msgs[RunMail(r, i)] = p[i].status /\ t.new.gen[i] = p[i].gen
  <2> TAKE i \in Index
  <2>1. RunMail(r, i) \in RunMails(r) /\ RunMail(r, i)[2] = i
    BY DEF RunMails, RunMail
  <2> QED
    BY <1>3, <2>1
<1>5. c \notin Worker /\ Index' = Index
  BY ActorAssumption DEF Index
<1>6. ASSUME NEW i \in Index
      PROVE  /\ run[r] # NoRun => run[r].gen[i] <= t.new.gen[i]
             /\ t.msgs[RunMail(r, i)] = "queued" =>
                  \/ /\ run[r] # NoRun
                     /\ msg[RunMail(r, i)] = "queued"
                     /\ t.new.gen[i] = run[r].gen[i]
                  \/ MailJob(RunMail(r, i), t.new.gen[i]) \in t.jobs
  <2>1. p[i].job \subseteq t.jobs
    BY <1>3
  <2>2. Reprepared(p[i], r, i, gen[i])
    BY <1>2
  <2>3. t.msgs[RunMail(r, i)] = p[i].status /\ t.new.gen[i] = p[i].gen
    BY <1>4
  <2> QED
    BY <2>1, <2>2, <2>3 DEF Reprepared
<1>7. ASSUME NEW j \in t.jobs
      PROVE  /\ j \in Job /\ phase[j] = "absent"
             /\ \E i \in Index : j = MailJob(RunMail(r, i), t.new.gen[i])
  <2>1. PICK i \in Index : j \in p[i].job
    BY <1>3, <1>7
  <2> QED
    BY <1>2, <1>4, <2>1 DEF Reprepared
<1>8. LeavesWaiting(t)
  BY <1>3, <1>6, <1>7 DEF LeavesWaiting
<1>9. LeavesWaiting(t)'
  BY <1>5, <1>8 DEF LeavesWaiting
<1> QED
  BY <1>5, <1>9 DEF Requeues

LEMMA PerformedGens ==
    ASSUME NEW r, NEW op, NEW locks, NEW note, NEW gen, NEW t \in Performed(op, locks, r, note, gen),
           NEW i \in Index
    PROVE  t.new.gen[i] = Prepared(r, gen)[i].gen
<1> DEFINE p == Prepared(r, gen)
           mails == [k \in Index |-> p[k].status]
           gens == [k \in Index |-> p[k].gen]
<1>1. PICK outcome \in NoteOutcomes(note) :
         t = Write(op, locks, r, Saved(mails, outcome, gens), mails,
                   UNION {p[k].job : k \in Index},
                   IF note # "done" /\ outcome = "done" THEN 1 ELSE 0, "done")
  BY DEF Performed
<1>2. t.new.gen = gens
  <2> HIDE DEF gens, mails, p
  <2> QED
    BY <1>1 DEF Write, Saved
<1> QED
  BY <1>2

LEMMA SweepWaits ==
    ASSUME RulesWait, OutboxInv, work = "rules", NEW c \in Client, Sweep(c)
    PROVE  RulesWait'
<1> DEFINE note == IF firing.note THEN "planned" ELSE "none"
<1>1. PICK gen \in [Index -> {0}] : gen = [i \in Index |-> 0]
  OBVIOUS
<1>2. PICK r \in Run : /\ Unused(r)
                       /\ \E t \in Performed("sweep", SweepLocks, r, note, gen) : Open(c, t)
  BY <1>1 DEF Sweep
<1>3. PICK t \in Performed("sweep", SweepLocks, r, note, gen) : Open(c, t)
  BY <1>2
<1>4. UNCHANGED <<phase, exec, run, firing, msg>> /\ c \in Actor /\ run[r] = NoRun
  BY <1>2 DEF Sweep, Unused, queueVars, automationVars, mailVars, Actor
<1>5. ASSUME NEW i \in Index PROVE t.new.gen[i] <= MaxGen
  <2>1. 0 <= MaxGen /\ firing \in Firings
    BY HandlerAssumption DEF OutboxInv, RulesInv
  <2>2. PICK j \in Job : j = MailJob(RunMail(r, i), 0)
    BY <2>1, RunJobKnown
  <2>3. phase[j] = "absent"
    BY <1>4, <2>2, LaterJobs
  <2>4. Prepared(r, gen)[i].gen = 0
    BY <2>2, <2>3 DEF Prepared, Generation
  <2>5. t.new.gen[i] = Prepared(r, gen)[i].gen
    BY PerformedGens
  <2> QED
    BY <2>1, <2>4, <2>5
<1>6. gen \in [Index -> Nat]
  BY <1>1
<1> HIDE DEF note
<1>7. ASSUME tx'[c] = t PROVE Requeues(c)'
  BY <1>4, <1>5, <1>6, <1>7, PerformedWaits
<1> QED
  BY <1>3, <1>4, <1>7, RulesWaitOpens

LEMMA RetryWaits ==
    ASSUME RulesWait, OutboxInv, work = "rules", NEW c \in Client, NEW r \in Run, Retry(c, r)
    PROVE  RulesWait'
<1>1. run[r] # NoRun /\ run[r].gen \in [Index -> Nat]
  BY RunMailsKnown DEF Retry, Runs, OutboxInv, RulesInv, RunRow
<1>2. PICK note, gen : note = run[r].note /\ gen = run[r].gen
  OBVIOUS
<1>3. PICK t \in Performed("retry", {r}, r, note, gen) :
         Open(c, t) /\ \A i \in Index : t.new.gen[i] <= MaxGen
  BY <1>2 DEF Retry, RunLocks
<1>4. UNCHANGED <<phase, exec, run, firing, msg>> /\ c \in Actor
  BY DEF Retry, queueVars, automationVars, mailVars, Actor
<1>5. ASSUME tx'[c] = t PROVE Requeues(c)'
  BY <1>1, <1>2, <1>3, <1>4, <1>5, PerformedWaits
<1> QED
  BY <1>3, <1>4, <1>5, RulesWaitOpens

\* The two transactions of `deliver` leave their mail decided, and the others.
LEMMA RecordedWaits ==
    ASSUME OutboxInv, work = "rules", NEW w \in Worker, NEW r \in Run, NEW i \in Index,
           MailOf(w) = RunMail(r, i), run[r] # NoRun, NEW op, NEW locks, NEW next,
           NEW status \in MailStatus \ {"queued"},
           NEW t, t = Recorded(op, locks, RunMail(r, i), status, next),
           tx'[w] = t, UNCHANGED <<phase, exec, run, firing, msg>>
    PROVE  Requeues(w)'
<1> DEFINE mails == [Mails(r) EXCEPT ![i] = status]
<1>1. RunMail(r, i)[1] = r /\ RunMail(r, i)[2] = i
  BY DEF RunMail
<1>2. /\ t.run = r /\ t.new.gen = run[r].gen /\ t.jobs = {}
      /\ t.msgs = [m \in RunMails(r) |-> mails[m[2]]]
  BY <1>1 DEF Recorded, Write, Saved, RunMails, Mails
<1>3. \A k \in Index : mails[k] = IF k = i THEN status ELSE msg[RunMail(r, k)]
  BY DEF Mails
<1> HIDE DEF mails
<1>4. ASSUME NEW k \in Index
      PROVE  t.msgs[RunMail(r, k)] = IF k = i THEN status ELSE msg[RunMail(r, k)]
  <2>1. RunMail(r, k) \in RunMails(r) /\ RunMail(r, k)[2] = k
    BY DEF RunMails, RunMail
  <2> QED
    BY <1>2, <1>3, <2>1
<1>5. run[r].gen \in [Index -> Nat]
  BY RunMailsKnown DEF OutboxInv, RulesInv, RunRow
<1>6. LeavesWaiting(t)
  <2>1. ASSUME NEW k \in Index, t.msgs[RunMail(r, k)] = "queued"
        PROVE  msg[RunMail(r, k)] = "queued"
    BY <1>4, <2>1
  <2>2. \A k \in Index : run[r].gen[k] <= t.new.gen[k] /\ t.new.gen[k] = run[r].gen[k]
    BY <1>2, <1>5
  <2> QED
    BY <1>2, <2>1, <2>2 DEF LeavesWaiting
<1>7. LeavesWaiting(t)' /\ MailOf(w)' = RunMail(r, i)
  BY <1>6 DEF LeavesWaiting, Index, MailOf
<1> QED
  BY <1>2, <1>4, <1>7 DEF Requeues

LEMMA DeliverWaits ==
    ASSUME RulesWait, OutboxInv, work = "rules", NEW w \in Worker, Attempt(w) \/ Record(w)
    PROVE  RulesWait'
<1>1. PICK r \in Run, i \in Index : MailOf(w) = RunMail(r, i)
  BY DEF Attempt, Record, OnRunMail, RunMail
<1>2. /\ RunMail(r, i)[1] = r /\ msg[RunMail(r, i)] \in MailStatus
  BY RunMailsKnown DEF RunMail, RunMails, OutboxInv, MailInv, RulesInv
<1>3. run[r] # NoRun
  <2>1. run[MailOf(w)[1]] # NoRun
    BY DEF Attempt, Record, OnRunMail, OutboxInv, JobInv, InUse
  <2> QED
    BY <1>1, <1>2, <2>1
<1>4. UNCHANGED <<phase, exec, run, firing, msg>> /\ w \in Actor
  BY DEF Attempt, Record, automationVars, mailVars, queueVars, Actor
<1>5. \E status \in MailStatus \ {"queued"} : \E op, locks, next :
         Open(w, Recorded(op, locks, RunMail(r, i), status, next))
  <2>1. CASE Attempt(w)
    <3>1. PICK status : status = Decision(msg[RunMail(r, i)])
      OBVIOUS
    <3>2. status \in MailStatus \ {"queued"}
      BY <1>2, <3>1 DEF Decision, MailStatus
    <3>3. PICK locks, next : Open(w, Recorded("deliver", locks, RunMail(r, i), status, next))
      BY <1>1, <2>1, <3>1 DEF Attempt
    <3>4. PICK op : op = "deliver"
      OBVIOUS
    <3>5. Open(w, Recorded(op, locks, RunMail(r, i), status, next))
      BY <3>3, <3>4
    <3> QED
      BY <3>2, <3>5
  <2>2. CASE Record(w)
    <3>1. PICK status : status = Outcome(w)
      OBVIOUS
    <3>2. status \in MailStatus \ {"queued"}
      BY <3>1 DEF Outcome, MailStatus
    <3>3. PICK locks : Open(w, Recorded("report", locks, RunMail(r, i), status, "done"))
      BY <1>1, <2>2, <3>1 DEF Record, Reported
    <3>4. PICK op, next : op = "report" /\ next = "done"
      OBVIOUS
    <3>5. Open(w, Recorded(op, locks, RunMail(r, i), status, next))
      BY <3>3, <3>4
    <3> QED
      BY <3>2, <3>5
  <2> QED
    BY <2>1, <2>2
<1>6. PICK status \in MailStatus \ {"queued"} : \E op, locks, next :
         Open(w, Recorded(op, locks, RunMail(r, i), status, next))
  BY <1>5
<1>10. PICK op, locks, next : Open(w, Recorded(op, locks, RunMail(r, i), status, next))
  BY <1>6
<1>11. PICK t : t = Recorded(op, locks, RunMail(r, i), status, next)
  OBVIOUS
<1>12. Open(w, t)
  BY <1>10, <1>11
<1>7. ASSUME tx'[w] = t PROVE Requeues(w)'
  BY <1>1, <1>3, <1>4, <1>7, <1>11, RecordedWaits
<1> QED
  BY <1>4, <1>7, <1>12, RulesWaitOpens

\* What the commit of a transaction on run r changes.
RunCommitted(a, t, r) ==
    /\ tx[a] # NoTx /\ RunTx(a) /\ Requeues(a)
    /\ t.new # NoRun /\ t.new.gen \in [Index -> Nat]
    /\ run'[r] = t.new /\ \A s \in Run : s # r => run'[s] = run[s]
    /\ \A m \in Msg : msg'[m] = IF m \in RunMails(r) THEN t.msgs[m] ELSE msg[m]
    /\ Enqueue(t.jobs) /\ Commits(a, t.next)
    /\ tx'[a] = NoTx /\ \A b \in Actor : b # a => tx'[b] = tx[b]
    /\ firing' = firing

LEMMA RunCommit ==
    ASSUME RulesWait, OutboxInv, work = "rules", NEW a \in Actor, CommitRun(a),
           NEW t, t = tx[a], NEW r, r = t.run
    PROVE  r \in Run /\ RunCommitted(a, t, r)
<1>1. /\ tx[a] # NoTx /\ RunTx(a) /\ r \in Run /\ Requeues(a)
      /\ t.new \in RunRow(firing.mails) /\ DOMAIN t.msgs = RunMails(r)
  BY DEF CommitRun, OutboxInv, RulesInv, RunTx, RulesWait
<1>2. t.new # NoRun /\ t.new.gen \in [Index -> Nat]
  BY <1>1, RunMailsKnown DEF OutboxInv, RulesInv, RunRow, Index
<1>3. run'[r] = t.new /\ \A s \in Run : s # r => run'[s] = run[s]
  BY <1>1 DEF CommitRun, OutboxInv, RulesInv
<1>4. /\ \A m \in Msg : msg'[m] = IF m \in RunMails(r) THEN t.msgs[m] ELSE msg[m]
      /\ Enqueue(t.jobs) /\ firing' = firing
  BY <1>1 DEF CommitRun
<1>5. Commits(a, t.next)
  BY <1>1 DEF CommitRun, Commits, OutboxInv, HolderInv
<1>6. tx'[a] = NoTx /\ \A b \in Actor : b # a => tx'[b] = tx[b]
  BY DEF CommitRun, Close, OutboxInv, HolderInv
<1> QED
  BY <1>1, <1>2, <1>3, <1>4, <1>5, <1>6 DEF RunCommitted

\* A mail that waits after the commit has a job that will be looked at.
LEMMA RunCommitWaiting ==
    ASSUME RulesWait, OutboxInv, Known, work = "rules", NEW a \in Actor, NEW t, t = tx[a],
           NEW r \in Run, r = t.run, RunCommitted(a, t, r),
           NEW s \in Run, NEW i \in Index, RunMail(s, i) \in Msg, msg'[RunMail(s, i)] = "queued"
    PROVE  run'[s] # NoRun /\ Alive(RunJob(s, i))'
<1>1. PICK m \in Msg : m = RunMail(s, i)
  OBVIOUS
<1>2. PICK j : j = MailJob(m, run'[s].gen[i])
  OBVIOUS
<1>3. RunJob(s, i)' = j
  BY <1>1, <1>2 DEF RunJob
<1>4. j[2] = m
  BY <1>2 DEF MailJob
<1>5. a \in Worker => MailOf(a) \in RunMails(r) /\ t.msgs[MailOf(a)] # "queued"
  BY ActorAssumption DEF RunCommitted, RunTx, Requeues
<1>6. CASE s = r
  <2>1. m \in RunMails(r) /\ t.msgs[m] = "queued" /\ run'[s] = t.new
    BY <1>1, <1>6 DEF RunCommitted, RunMails
  <2>2. a \in Worker => exec[a].job # j
    BY <1>4, <1>5, <2>1 DEF MailOf
  <2>3. \/ run[r] # NoRun /\ msg[m] = "queued" /\ t.new.gen[i] = run[r].gen[i]
        \/ MailJob(m, t.new.gen[i]) \in t.jobs
    BY <1>1, <1>6, <2>1 DEF RunCommitted, Requeues, LeavesWaiting
  <2>4. j \in Job /\ (Alive(j) \/ (j \in t.jobs /\ phase[j] = "absent"))
    <3>1. CASE run[r] # NoRun /\ msg[m] = "queued" /\ t.new.gen[i] = run[r].gen[i]
      <4>1. PICK q \in Run, k \in Index : m = RunMail(q, k) /\ Alive(RunJob(q, k))
        BY <3>1 DEF RulesWait
      <4>2. q = r /\ k = i
        BY <1>1, <1>6, <4>1 DEF RunMail
      <4>3. j = RunJob(q, k)
        BY <1>2, <1>6, <2>1, <3>1, <4>1, <4>2 DEF RunJob
      <4> QED
        BY <4>1, <4>3 DEF Alive
    <3>2. CASE MailJob(m, t.new.gen[i]) \in t.jobs
      BY <1>2, <2>1, <3>2 DEF RunCommitted, Requeues, LeavesWaiting
    <3> QED
      BY <2>3, <3>1, <3>2
  <2>5. PICK S, next : S = t.jobs /\ next = t.next
    OBVIOUS
  <2>6. Alive(j)'
    BY <2>2, <2>4, <2>5, AliveCommits DEF RunCommitted
  <2> QED
    BY <1>3, <2>1, <2>6 DEF RunCommitted, Alive
<1>7. CASE s # r
  <2>1. m \notin RunMails(r) /\ run'[s] = run[s] /\ msg[m] = "queued"
    BY <1>1, <1>7 DEF RunCommitted, RunMails, RunMail
  <2>2. a \in Worker => exec[a].job # j
    BY <1>4, <1>5, <2>1 DEF MailOf
  <2>3. PICK q \in Run, k \in Index : m = RunMail(q, k) /\ run[q] # NoRun /\ Alive(RunJob(q, k))
    BY <2>1 DEF RulesWait
  <2>4. q = s /\ k = i
    BY <1>1, <2>3 DEF RunMail
  <2>5. j = RunJob(q, k)
    BY <1>2, <2>1, <2>3, <2>4 DEF RunJob
  <2>6. j \in Job /\ Alive(j)
    BY <2>3, <2>5 DEF Alive
  <2>7. PICK S, next : S = t.jobs /\ next = t.next
    OBVIOUS
  <2>8. Alive(j)'
    BY <2>2, <2>6, <2>7, AliveCommits DEF RunCommitted
  <2> QED
    BY <1>3, <2>1, <2>3, <2>4, <2>8 DEF Alive
<1> QED
  BY <1>6, <1>7

\* A commit queues no job of a later generation than the row's.
LEMMA RunCommitLater ==
    ASSUME RulesWait, OutboxInv, work = "rules", NEW a \in Actor, NEW t, t = tx[a],
           NEW r \in Run, r = t.run, RunCommitted(a, t, r),
           NEW s \in Run, NEW i \in Index, NEW g \in Nat, run'[s] # NoRun, g > run'[s].gen[i],
           NEW j \in Job, j = MailJob(RunMail(s, i), g)
    PROVE  phase'[j] = "absent"
<1>1. phase'[j] = "absent" <=> phase[j] = "absent" /\ j \notin t.jobs
  BY DEF RunCommitted, Enqueue
<1>2. phase[j] = "absent"
  <2>1. ASSUME run[s] # NoRun PROVE g > run[s].gen[i]
    <3>1. CASE s = r
      <4>1. run[r].gen[i] <= t.new.gen[i] /\ run'[s] = t.new
        BY <2>1, <3>1 DEF RunCommitted, Requeues, LeavesWaiting
      <4>2. run[r].gen[i] \in Nat /\ t.new.gen[i] \in Nat
        BY <2>1, <3>1, RunMailsKnown DEF OutboxInv, RulesInv, RunRow, RunCommitted, Index
      <4> QED
        BY <3>1, <4>1, <4>2
    <3>2. CASE s # r
      BY <3>2 DEF RunCommitted
    <3> QED
      BY <3>1, <3>2
  <2> QED
    BY <2>1, LaterJobs
<1>3. ASSUME j \in t.jobs PROVE FALSE
  <2>1. PICK k \in Index : j = MailJob(RunMail(r, k), t.new.gen[k])
    BY <1>3 DEF RunCommitted, Requeues, LeavesWaiting
  <2>2. PICK h : h = t.new.gen[k]
    OBVIOUS
  <2>3. s = r /\ k = i /\ g = h
    BY <2>1, <2>2 DEF MailJob, RunMail
  <2> QED
    BY <2>2, <2>3 DEF RunCommitted
<1> QED
  BY <1>1, <1>2, <1>3

LEMMA RunCommitWaits ==
    ASSUME RulesWait, OutboxInv, Known, work = "rules", NEW a \in Actor, CommitRun(a)
    PROVE  RulesWait'
<1>1. PICK t, r : t = tx[a] /\ r = t.run
  OBVIOUS
<1>2. r \in Run /\ RunCommitted(a, t, r)
  BY <1>1, RunCommit
<1>3. Index' = Index
  BY <1>2 DEF RunCommitted, Index
<1>4. ASSUME NEW m \in Msg, msg'[m] = "queued"
      PROVE  \E s \in Run, i \in Index : m = RunMail(s, i) /\ run'[s] # NoRun /\ Alive(RunJob(s, i))'
  <2>1. PICK s \in Run, i \in Index : m = RunMail(s, i)
    BY <1>2, <1>4 DEF RunCommitted, RunMails, RulesWait
  <2> QED
    BY <1>1, <1>2, <1>4, <2>1, RunCommitWaiting
<1>5. ASSUME NEW s \in Run, NEW i \in Index, NEW g \in Nat,
             run'[s] # NoRun, g > run'[s].gen[i], MailJob(RunMail(s, i), g) \in Job
      PROVE  phase'[MailJob(RunMail(s, i), g)] = "absent"
  <2>1. PICK j \in Job : j = MailJob(RunMail(s, i), g)
    BY <1>5
  <2> QED
    BY <1>1, <1>2, <1>5, <2>1, RunCommitLater
<1>6. ASSUME NEW b \in Actor, tx'[b] # NoTx PROVE Requeues(b)'
  <2>1. b # a /\ tx'[b] = tx[b] /\ tx[b] # NoTx /\ Requeues(b) /\ RunTx(b)
    BY <1>2, <1>6 DEF RunCommitted, RulesWait, OutboxInv, RulesInv
  <2>2. PICK s \in Run : s = tx[b].run
    BY <2>1 DEF RunTx
  <2>3. s # r
    BY <1>1, <1>2, <2>1, <2>2 DEF OutboxInv, RulesInv, RunCommitted
  <2>4. run'[s] = run[s]
    BY <1>2, <2>3 DEF RunCommitted
  <2>5. \A i \in Index : msg'[RunMail(s, i)] = msg[RunMail(s, i)]
    <3> TAKE i \in Index
    <3>1. RunMail(s, i) \in Msg /\ RunMail(s, i) \notin RunMails(r)
      BY <2>2, <2>3, RunMailsKnown DEF OutboxInv, RulesInv, RunMails, RunMail
    <3> QED
      BY <1>2, <3>1 DEF RunCommitted
  <2>6. b \in Worker => MailOf(b)' = MailOf(b)
    BY <1>2, <2>1 DEF RunCommitted, Commits, Goto, MailOf, OutboxInv, ExecInv
  <2>7. ASSUME NEW j \in tx[b].jobs PROVE phase'[j] = "absent"
    <3>1. j \in Job /\ phase[j] = "absent" /\ j[2] \in RunMails(s)
      BY <2>1, <2>2 DEF Requeues, LeavesWaiting, RunTx
    <3>2. j \notin t.jobs
      <4>1. \A k \in t.jobs : k[2] \in RunMails(r)
        BY <1>1, <1>2 DEF RunCommitted, RunTx
      <4> QED
        BY <2>3, <3>1, <4>1 DEF RunMails, RunMail
    <3> QED
      BY <1>2, <3>1, <3>2 DEF RunCommitted, Enqueue
  <2>8. firing' = firing
    BY <1>2 DEF RunCommitted
  <2> QED
    BY <2>1, <2>2, <2>4, <2>5, <2>6, <2>7, <2>8, RequeuesStay
<1> QED
  BY <1>3, <1>4, <1>5, <1>6 DEF RulesWait

\* Every step of a behaviour with rules.
LEMMA RulesWaitStep ==
    ASSUME RulesWait, OutboxInv, OutboxInv', Known, work = "rules",
           (Around /\ UNCHANGED <<run, firing, msg>>) \/ AutomationNext
    PROVE  RulesWait'
<1>1. CASE Around /\ UNCHANGED <<run, firing, msg>>
  BY <1>1, RulesWaitStays
<1>2. CASE SetStatus
  <2>1. UNCHANGED <<phase, exec, tx, run, firing, msg>>
    BY <1>2 DEF SetStatus, queueVars, mailVars
  <2>2. Around
    BY <2>1 DEF Around, OutboxInv, JobInv, ExecInv
  <2> QED
    BY <2>1, <2>2, RulesWaitStays
<1> QED
  BY <1>1, <1>2, SweepWaits, RetryWaits, DeliverWaits, RunCommitWaits DEF AutomationNext

----------------------------------------------------------------------------
(* Invoice mails that wait.                                                *)

LEMMA MailsWaitStays ==
    ASSUME MailsWait, Around, UNCHANGED msg
    PROVE  MailsWait'
<1>1. \A a \in Actor : tx'[a] # NoTx => tx'[a] = tx[a]
  BY DEF Around
<1>2. ASSUME NEW m \in Msg, msg'[m] = "queued" PROVE m \in InvMsg /\ Alive(MailJob(m, 0))'
  <2>1. PICK j : j = MailJob(m, 0)
    OBVIOUS
  <2>2. m \in InvMsg /\ Alive(j)
    BY <1>2, <2>1 DEF MailsWait
  <2>3. Alive(j)'
    BY <2>2, AliveStays
  <2> QED
    BY <2>1, <2>2, <2>3 DEF Alive
<1> QED
  BY <1>1, <1>2 DEF MailsWait

LEMMA MailsWaitOpens ==
    ASSUME MailsWait, OutboxInv, NEW a \in Actor, NEW t, Open(a, t), UNCHANGED <<phase, exec, msg>>,
           t.status = "queued" => t.op = "send" /\ MailJob(t.mail, 0) \in t.jobs
    PROVE  MailsWait'
<1>1. tx'[a] = t /\ \A b \in Actor : b # a => tx'[b] = tx[b]
  BY DEF Open, OutboxInv, HolderInv
<1>2. \A m \in Msg : msg'[m] = "queued" => m \in InvMsg /\ Alive(MailJob(m, 0))'
  BY DEF MailsWait, Alive, At
<1> QED
  BY <1>1, <1>2 DEF MailsWait

\* A client queues the mail with its job; a worker leaves its mail decided.
LEMMA HandlerOpensWait ==
    ASSUME MailsWait, OutboxInv, work = "mails", NEW a \in Actor,
           (\E m \in InvMsg : Send(a, m)) \/ (a \in Worker /\ (Deliver(a) \/ Conclude(a)))
    PROVE  MailsWait'
<1>1. UNCHANGED <<phase, exec, msg>>
  BY DEF Send, Deliver, Conclude, mailVars, queueVars
<1>2. ASSUME NEW m \in InvMsg, Send(a, m) PROVE MailsWait'
  <2>1. PICK t : /\ Open(a, t)
                 /\ t = Update("send", {Invoice}, m, IF relay THEN "queued" ELSE "blocked",
                               IF relay THEN {MailJob(m, 0)} ELSE {}, FALSE, "done")
    BY <1>2 DEF Send
  <2>2. t.op = "send" /\ t.mail = m /\ t.status = (IF relay THEN "queued" ELSE "blocked")
        /\ t.jobs = IF relay THEN {MailJob(m, 0)} ELSE {}
    BY <2>1 DEF Update
  <2> QED
    BY <1>1, <2>1, <2>2, MailsWaitOpens
<1>3. CASE a \in Worker /\ Deliver(a)
  <2>1. PICK m, status, next, t :
           /\ Open(a, t)
           /\ status \in Verdicts(msg[m])
           /\ t = Update("delivery", {m}, m, status, {}, FALSE, next)
    BY <1>3 DEF Deliver
  <2>2. t.status = status /\ status # "queued"
    BY <2>1 DEF Update, Verdicts
  <2> QED
    BY <1>1, <2>1, <2>2, MailsWaitOpens
<1>4. CASE a \in Worker /\ Conclude(a)
  <2>1. PICK m, t :
           /\ Open(a, t)
           /\ t = Update("outcome", StampLocks(a, m), m, Outcome(a), {}, Stamps(a), "done")
    BY <1>4 DEF Conclude
  <2>2. t.status = Outcome(a) /\ Outcome(a) # "queued"
    BY <2>1 DEF Update, Outcome
  <2> QED
    BY <1>1, <2>1, <2>2, MailsWaitOpens
<1> QED
  BY <1>2, <1>3, <1>4

\* A mail is attached before its job runs, so the job of a mail to queue is new.
LEMMA MailCommitWaits ==
    ASSUME MailsWait, OutboxInv, Known, work = "mails", NEW a \in Actor, CommitMail(a)
    PROVE  MailsWait'
<1>1. PICK t, m : t = tx[a] /\ m = t.mail
  OBVIOUS
<1>2. tx[a] # NoTx /\ MailTx(a) /\ m \in InvMsg /\ m \in Msg
  BY <1>1, HandlerAssumption DEF CommitMail, OutboxInv, MailsInv, MailTx
<1>3. /\ msg'[m] = t.status /\ \A x \in Msg : x # m => msg'[x] = msg[x]
      /\ tx'[a] = NoTx /\ \A b \in Actor : b # a => tx'[b] = tx[b]
  BY <1>1, <1>2 DEF CommitMail, Close, MailInv, OutboxInv, HolderInv
<1>4. Enqueue(t.jobs) /\ Commits(a, t.next)
  BY <1>1, <1>2 DEF CommitMail, Commits, OutboxInv, HolderInv
<1>5. a \in Worker => t.status # "queued" /\ MailOf(a) = m
  BY <1>1, <1>2, ActorAssumption DEF MailTx, MailsWait
<1>6. ASSUME NEW x \in Msg, msg'[x] = "queued" PROVE x \in InvMsg /\ Alive(MailJob(x, 0))'
  <2>1. PICK j : j = MailJob(x, 0)
    OBVIOUS
  <2>2. x \in InvMsg /\ j \in Job /\ (Alive(j) \/ (j \in t.jobs /\ phase[j] = "absent"))
    <3>1. CASE x = m
      <4>1. t.op = "send" /\ j \in t.jobs
        BY <1>1, <1>2, <1>3, <1>6, <2>1, <3>1 DEF MailsWait
      <4>2. m \notin attached /\ j \in Job
        BY <1>1, <1>2, <2>1, <3>1, <4>1, HandlerAssumption DEF MailTx
      <4>3. phase[j] = "absent"
        BY <2>1, <3>1, <4>2 DEF OutboxInv, JobInv, InUse, MailJob
      <4> QED
        BY <1>2, <3>1, <4>1, <4>2, <4>3
    <3>2. CASE x # m
      BY <1>3, <1>6, <2>1, <3>2 DEF MailsWait, Alive
    <3> QED
      BY <3>1, <3>2
  <2>3. a \in Worker => exec[a].job # j
    BY <1>3, <1>5, <1>6, <2>1 DEF MailOf, MailJob
  <2>4. PICK S, next : S = t.jobs /\ next = t.next
    OBVIOUS
  <2>5. Alive(j)'
    BY <1>4, <2>2, <2>3, <2>4, AliveCommits
  <2> QED
    BY <2>1, <2>2, <2>5 DEF Alive
<1> QED
  BY <1>3, <1>6 DEF MailsWait

\* Every step of a behaviour with invoice mails.
LEMMA MailsWaitStep ==
    ASSUME MailsWait, OutboxInv, Known, work = "mails",
           (Around /\ UNCHANGED msg) \/ InvoiceMailNext
    PROVE  MailsWait'
<1>1. CASE Around /\ UNCHANGED msg
  BY <1>1, MailsWaitStays
<1>2. CASE Reclassify
  <2>1. UNCHANGED <<phase, exec, tx, msg>>
    BY <1>2 DEF Reclassify, queueVars, mailVars
  <2>2. Around
    BY <2>1 DEF Around, OutboxInv, JobInv, ExecInv
  <2> QED
    BY <2>1, <2>2, MailsWaitStays
<1>3. ASSUME NEW c \in Client, NEW m \in InvMsg, Send(c, m) PROVE MailsWait'
  BY <1>3, HandlerOpensWait DEF Actor
<1>4. ASSUME NEW w \in Worker, Deliver(w) \/ Conclude(w) PROVE MailsWait'
  BY <1>4, HandlerOpensWait DEF Actor
<1> QED
  BY <1>1, <1>2, <1>3, <1>4, MailCommitWaits DEF InvoiceMailNext

----------------------------------------------------------------------------
(* A capture that waits.                                                   *)

LEMMA AttemptsKnown ==
    ASSUME NEW n \in AttemptSeq
    PROVE  AttemptJob(n) \in Job /\ n \in Nat /\ \A k \in AttemptSeq : AttemptJob(k) = AttemptJob(n) => k = n
BY CaptureAssumption DEF AttemptJob, AttemptSeq

\* Neither the attempt the row waits for, nor one to come, is touched.
LEMMA CapturesWaitStays ==
    ASSUME CapturesWait, Around, UNCHANGED capture
    PROVE  CapturesWait'
<1>1. \A a \in Actor : tx'[a] # NoTx => tx'[a] = tx[a]
  BY DEF Around
<1>2. ASSUME Captured, capture.status = "queued" PROVE Alive(AttemptJob(capture.seq))'
  <2>1. PICK j : j = AttemptJob(capture.seq)
    OBVIOUS
  <2>2. Alive(j)
    BY <1>2, <2>1 DEF CapturesWait
  <2>3. Alive(j)'
    BY <2>2, AliveStays
  <2> QED
    BY <2>1, <2>2, <2>3 DEF Alive
<1>3. \A n \in AttemptSeq : phase[AttemptJob(n)] = "absent" => phase'[AttemptJob(n)] = "absent"
  BY AttemptsKnown DEF Around
<1> QED
  BY <1>1, <1>2, <1>3 DEF CapturesWait, Captured

\* A handler that is through works at an attempt the row does not wait for.
LEMMA CaptureMovesWait ==
    ASSUME CapturesWait, OutboxInv, NEW w \in Worker, NEW step, Goto(w, step), exec[w] # NoExec,
           step = "done" => ~Current(SeqOf(w)), UNCHANGED <<phase, tx, capture>>
    PROVE  CapturesWait'
<1>1. ASSUME Captured, capture.status = "queued" PROVE Alive(AttemptJob(capture.seq))'
  <2>1. PICK j : j = AttemptJob(capture.seq)
    OBVIOUS
  <2>2. Alive(j)
    BY <1>1, <2>1 DEF CapturesWait
  <2>3. exec[w].job = j => step # "done"
    BY <1>1, <2>1 DEF Current, SeqOf, AttemptJob
  <2>4. ASSUME NEW v \in Worker, At(v, "done")' PROVE exec'[v].job # j
    <3>1. CASE v # w
      BY <2>2, <2>4, <3>1 DEF Alive, At, Goto, OutboxInv, ExecInv
    <3>2. CASE v = w
      <4>1. exec'[w].job = exec[w].job /\ exec'[w].at = step
        BY DEF Goto, OutboxInv, ExecInv
      <4> QED
        BY <2>3, <2>4, <3>2, <4>1 DEF At
    <3> QED
      BY <3>1, <3>2
  <2>5. Alive(j)'
    BY <2>2, <2>4 DEF Alive
  <2> QED
    BY <2>1, <2>2, <2>5 DEF Alive
<1> QED
  BY <1>1 DEF CapturesWait, Captured

LEMMA CaptureOpensWait ==
    ASSUME CapturesWait, OutboxInv, NEW a \in Actor, NEW t, Open(a, t),
           UNCHANGED <<phase, exec, capture>>,
           t.jobs = IF t.op = "reread" THEN {AttemptJob(capture.seq + 1)} ELSE {}
    PROVE  CapturesWait'
<1>1. tx'[a] = t /\ \A b \in Actor : b # a => tx'[b] = tx[b]
  BY DEF Open, OutboxInv, HolderInv
<1>2. Captured /\ capture.status = "queued" => Alive(AttemptJob(capture.seq))'
  BY DEF CapturesWait, Alive, At
<1> QED
  BY <1>1, <1>2 DEF CapturesWait, Captured

LEMMA CaptureHandlesWait ==
    ASSUME CapturesWait, OutboxInv, Busy, NEW w \in Worker,
           Extract(w) \/ Progress(w) \/ Publish(w) \/ Skip(w)
    PROVE  CapturesWait'
<1>1. CASE Extract(w) \/ Skip(w)
  <2>1. PICK step : Goto(w, step) /\ (step = "done" => ~Current(SeqOf(w)))
    BY <1>1 DEF Extract, Skip
  <2>2. UNCHANGED <<phase, tx, capture>> /\ exec[w] # NoExec
    BY <1>1 DEF Extract, Skip, At, queueVars, captureVars
  <2> QED
    BY <2>1, <2>2, CaptureMovesWait
<1>2. CASE Progress(w)
  <2>1. PICK s \in Stages : capture' = [capture EXCEPT !.stage = s, !.stagedBy = SeqOf(w)]
    BY <1>2 DEF Progress
  <2>2. /\ UNCHANGED <<phase, exec, tx>>
        /\ Captured /\ capture \in CaptureRow /\ SeqOf(w) \in AttemptSeq
    BY <1>2 DEF Progress, queueVars, Busy, ParserInv, RowInv, Captured
  <2>3. capture' \in CaptureRow /\ capture'.status = capture.status /\ capture'.seq = capture.seq
    BY <2>1, <2>2 DEF CaptureRow
  <2>4. Captured'
    BY <2>3, CaptureAssumption DEF Captured
  <2>5. AttemptJob(capture.seq)' = AttemptJob(capture.seq)
    BY <2>3 DEF AttemptJob
  <2>6. capture'.status = "queued" => Alive(AttemptJob(capture.seq))'
    BY <2>2, <2>5, <2>3 DEF CapturesWait, Alive, At
  <2> QED
    BY <2>2, <2>6, <2>3, <2>4 DEF CapturesWait
<1>3. CASE Publish(w)
  <2>1. PICK row, t : Open(w, t) /\ t = Change("publish", PublishLocks, row, 0, {})
    BY <1>3 DEF Publish
  <2>2. t.op = "publish" /\ t.jobs = {}
    BY <2>1 DEF Change
  <2>3. UNCHANGED <<phase, exec, capture>> /\ w \in Actor
    BY <1>3 DEF Publish, queueVars, captureVars, Actor
  <2> QED
    BY <2>1, <2>2, <2>3, CaptureOpensWait
<1> QED
  BY <1>1, <1>2, <1>3

LEMMA CaptureRequestsWait ==
    ASSUME CapturesWait, OutboxInv, NEW c \in Client,
           Correct(c) \/ SaveInvoice(c) \/ \E ask \in BOOLEAN : Reread(c, ask)
    PROVE  CapturesWait'
<1>1. UNCHANGED <<phase, exec, capture>> /\ c \in Actor
  BY DEF Correct, SaveInvoice, Reread, queueVars, captureVars, Actor
<1>2. PICK op, locks, row, discarded, jobs :
         /\ Open(c, Change(op, locks, row, discarded, jobs))
         /\ jobs = IF op = "reread" THEN {AttemptJob(capture.seq + 1)} ELSE {}
  <2>1. ASSUME NEW op \in {"correct", "save", "reread"}, NEW locks, NEW row, NEW discarded, NEW jobs,
               Open(c, Change(op, locks, row, discarded, jobs)),
               jobs = IF op = "reread" THEN {AttemptJob(capture.seq + 1)} ELSE {}
        PROVE  \E o, l, r, d, s : /\ Open(c, Change(o, l, r, d, s))
                                  /\ s = IF o = "reread" THEN {AttemptJob(capture.seq + 1)} ELSE {}
    BY <2>1
  <2> QED
    BY <2>1 DEF Correct, SaveInvoice, Reread
<1>3. PICK t : t = Change(op, locks, row, discarded, jobs)
  OBVIOUS
<1>4. t.op = op /\ t.jobs = jobs /\ Open(c, t)
  BY <1>2, <1>3 DEF Change
<1> QED
  BY <1>1, <1>2, <1>4, CaptureOpensWait

\* An attempt begins with a job no one had: the one of the capture, or of a retry.
LEMMA AttemptBegins ==
    ASSUME CapturesWait, OutboxInv, Known, RowInv, NEW n \in AttemptSeq, Captured => n > capture.seq,
           NEW S, S = {AttemptJob(n)}, Enqueue(S), UNCHANGED exec,
           Captured', capture' = FreshRow(n), \A a \in Actor : tx'[a] = NoTx
    PROVE  CapturesWait'
<1>1. capture'.status = "queued" /\ capture'.seq = n
  BY FreshRowType
<1>2. PICK j \in Job : j = AttemptJob(n)
  BY AttemptsKnown
<1>3. phase[j] = "absent" /\ j \in S
  BY <1>2 DEF CapturesWait
<1>4. phase'[j] = "queued"
  BY <1>3 DEF Enqueue
<1>5. \A w \in Worker : At(w, "done")' => exec'[w].job # j
  BY <1>3 DEF Known, At
<1>6. Alive(AttemptJob(capture.seq))'
  BY <1>1, <1>2, <1>4, <1>5 DEF Alive, AttemptJob
<1>7. ASSUME NEW k \in AttemptSeq, k > n PROVE phase'[AttemptJob(k)] = "absent"
  <2>1. n \in Nat /\ k \in Nat /\ AttemptJob(k) \in Job /\ AttemptJob(k) \notin S
    BY <1>7, AttemptsKnown
  <2>2. Captured => k > capture.seq
    <3>1. Captured => capture.seq \in Nat /\ n > capture.seq
      BY DEF RowInv, Captured, CaptureRow, AttemptSeq
    <3> QED
      BY <1>7, <2>1, <3>1
  <2>3. phase[AttemptJob(k)] = "absent"
    BY <2>2 DEF CapturesWait
  <2> QED
    BY <2>1, <2>3 DEF Enqueue
<1> QED
  BY <1>1, <1>6, <1>7 DEF CapturesWait

LEMMA AdmitWaits ==
    ASSUME CapturesWait, OutboxInv, Known, Busy, NEW c \in Client, Admit(c)
    PROVE  CapturesWait'
<1>1. PICK S : S = {AttemptJob(0)}
  OBVIOUS
<1>2. /\ ~Captured /\ capture' = FreshRow(0) /\ 0 \in AttemptSeq
      /\ Enqueue(S) /\ UNCHANGED exec /\ UNCHANGED tx
  BY <1>1, CaptureAssumption DEF Admit, AttemptSeq
<1>3. Captured'
  BY <1>2, FreshRowType DEF Captured
<1>4. \A a \in Actor : tx'[a] = NoTx
  BY <1>2 DEF Busy, LockInv, TxInv
<1> QED
  BY <1>1, <1>2, <1>3, <1>4, AttemptBegins DEF Busy

LEMMA CaptureCommitWaits ==
    ASSUME CapturesWait, OutboxInv, Known, Busy, NEW a \in Actor, CommitCapture(a)
    PROVE  CapturesWait'
<1>1. PICK t : t = tx[a]
  OBVIOUS
<1>2. t # NoTx /\ TxInv(a) /\ Captured /\ capture \in CaptureRow
  BY <1>1 DEF CommitCapture, Busy, LockInv, TxInv, RowInv, Captured
<1>3. \A b \in Actor : tx'[b] = NoTx
  BY <1>1, <1>2 DEF CommitCapture, Close, Busy, LockInv
<1>4. Captured'
  BY CommitRow
<1>5. CASE t.op = "reread"
  <2>1. PICK n, S : n = capture.seq + 1 /\ S = {AttemptJob(n)}
    OBVIOUS
  <2>2. n \in AttemptSeq /\ n > capture.seq
    BY <1>1, <1>2, <1>5, <2>1, CaptureAssumption DEF TxInv, CaptureRow, AttemptSeq
  <2>3. capture' = FreshRow(n) /\ t.jobs = S /\ a \in Client
    BY <1>1, <1>2, <1>5, <2>1 DEF CommitCapture, TxInv, CapturesWait
  <2>4. Enqueue(S) /\ UNCHANGED exec
    BY <1>1, <2>3, ActorAssumption DEF CommitCapture
  <2> QED
    BY <1>3, <1>4, <2>1, <2>2, <2>3, <2>4, AttemptBegins DEF Busy
<1>6. CASE t.op # "reread"
  <2>1. t.jobs = {} /\ phase' = phase
    BY <1>1, <1>2, <1>6 DEF CapturesWait, CommitCapture, Enqueue, OutboxInv, JobInv
  <2>2. capture'.seq = capture.seq /\ capture'.status # "queued"
    <3>1. CASE t.op = "publish"
      BY <1>1, <1>2, <3>1 DEF CommitCapture, TxInv, Results, CaptureRow
    <3>2. CASE t.op = "correct"
      BY <1>1, <1>2, <3>2 DEF CommitCapture, TxInv, CaptureRow
    <3>3. CASE t.op = "save"
      BY <1>1, <1>2, <3>3 DEF CommitCapture, TxInv, CaptureRow
    <3> QED
      BY <1>1, <1>2, <1>6, <3>1, <3>2, <3>3 DEF TxInv
  <2> QED
    BY <1>2, <1>3, <1>4, <2>1, <2>2 DEF CapturesWait
<1> QED
  BY <1>5, <1>6

\* Every step of a behaviour with captures.
LEMMA CapturesWaitStep ==
    ASSUME CapturesWait, OutboxInv, Known, Busy, (Around /\ UNCHANGED capture) \/ CaptureNext
    PROVE  CapturesWait'
BY CapturesWaitStays, CaptureHandlesWait, CaptureRequestsWait, AdmitWaits, CaptureCommitWaits
   DEF CaptureNext

----------------------------------------------------------------------------
(* Every step, and the theorem.                                            *)

LEMMA WaitInit == Init => WaitInv
<1> SUFFICES ASSUME Init PROVE WaitInv
  OBVIOUS
<1>1. /\ \A m \in Msg : msg[m] # "queued"
      /\ \A r \in Run : run[r] = NoRun
      /\ \A a \in Actor : tx[a] = NoTx
      /\ \A j \in Job : phase[j] = "absent"
      /\ ~Captured
  BY DEF Init, OutboxInit, AutomationInit, CaptureInit, Captured, WorkerInit, Queue!Init
<1>2. RulesWait /\ MailsWait
  BY <1>1 DEF RulesWait, MailsWait
<1>3. CapturesWait
  BY <1>1, AttemptsKnown DEF CapturesWait
<1> QED
  BY <1>1, <1>2, <1>3 DEF WaitInv

LEMMA WaitStep ==
    ASSUME WaitInv, OutboxInv, OutboxInv', HooksInv, CaptureInv, [Next]_vars
    PROVE  WaitInv'
<1>1. Known
  BY DEF HooksInv, HookInv, NoHooks, Known
<1>2. work' = work
  BY DEF Next, RulesOnly, MailsOnly, CapturesOnly, HooksOnly, handlerVars, vars
<1>3. CASE (Surroundings /\ UNCHANGED handlerVars) \/ UNCHANGED vars
  <2>1. UNCHANGED <<run, firing, msg, capture>>
    BY <1>3 DEF Surroundings, Serve, Repair, Trouble, SmtpAccept, SmtpError, Break, Land, Toggle,
                mailVars, handlerVars, automationVars, captureVars, vars
  <2>2. Around
    <3>1. CASE Surroundings
      BY <1>1, <3>1, SurroundingsAround DEF Known
    <3>2. CASE UNCHANGED vars
      <4>1. UNCHANGED <<exec, phase, tx>>
        BY <3>2 DEF vars, workerVars
      <4> QED
        BY <4>1 DEF Around, OutboxInv, JobInv
    <3> QED
      BY <1>3, <3>1, <3>2
  <2>3. work = "rules" => RulesWait'
    BY <1>1, <2>1, <2>2, RulesWaitStep DEF WaitInv
  <2>4. work = "mails" => MailsWait'
    BY <1>1, <2>1, <2>2, MailsWaitStep DEF WaitInv
  <2>5. work = "captures" => CapturesWait'
    BY <1>1, <2>1, <2>2, CapturesWaitStep DEF WaitInv, CaptureInv
  <2> QED
    BY <1>2, <2>1, <2>3, <2>4, <2>5 DEF WaitInv
<1>4. CASE work = "rules" /\ AutomationNext
  BY <1>1, <1>2, <1>4, RulesWaitStep DEF WaitInv
<1>5. CASE work = "mails" /\ InvoiceMailNext
  BY <1>1, <1>2, <1>5, MailsWaitStep DEF WaitInv
<1>6. CASE work = "captures" /\ CaptureNext
  <2>1. UNCHANGED msg
    BY <1>6 DEF CaptureNext, Extract, Progress, Publish, Skip, Admit, Correct, SaveInvoice, Reread,
                CommitCapture, mailVars
  <2> QED
    BY <1>1, <1>2, <1>6, <2>1, CapturesWaitStep DEF WaitInv, CaptureInv
<1>7. CASE work = "hooks" /\ WebhooksNext
  <2>1. UNCHANGED msg
    BY <1>7 DEF WebhooksNext, CommitEmit, RollbackEmit, Emit, Drop, Post, Delivered, Failed,
                Switch, mailVars
  <2> QED
    BY <1>2, <1>7, <2>1 DEF WaitInv
<1> QED
  BY <1>3, <1>4, <1>5, <1>6, <1>7 DEF Next

LEMMA WaitImplies ==
    ASSUME WaitInv, OutboxInv, RunsInv, CaptureInv, Typed
    PROVE  WaitingHasJob
<1>1. \A j : Alive(j) => j \in Job /\ phase[j] \in {"queued", "running", "dead"}
  BY DEF Alive, Typed, QueueTyped, Phase
<1>2. QueuedHasJob
  <2> SUFFICES ASSUME NEW m \in Msg, msg[m] = "queued"
               PROVE  \E j \in Job : j[1] = "mail" /\ j[2] = m /\ phase[j] \in {"queued", "running", "dead"}
    BY DEF QueuedHasJob
  <2>1. PICK g : Alive(MailJob(m, g))
    BY DEF WaitInv, RulesWait, MailsWait, RunJob
  <2>2. MailJob(m, g)[1] = "mail" /\ MailJob(m, g)[2] = m
    BY DEF MailJob
  <2> QED
    BY <1>1, <2>1, <2>2
<1>3. WaitingIsPending
  <2> SUFFICES ASSUME Captured, capture.status = "queued"
               PROVE  phase[AttemptJob(capture.seq)] \in {"queued", "running", "dead"}
    BY DEF WaitingIsPending
  <2>1. Alive(AttemptJob(capture.seq))
    BY DEF WaitInv, CapturesWait, CaptureInv, Idle, Captured
  <2> QED
    BY <1>1, <2>1
<1> QED
  BY <1>2, <1>3, TypesHold DEF WaitingHasJob

\* Rows are well formed, and every mail and every capture that waits has a job
\* that will look at it, or one that died trying (enqueue under a new key for each
\* generation and attempt), for any workers, clients, rows and faults.
THEOREM WaitingHasJobCorrect == Spec => []WaitingHasJob
<1> DEFINE Inv == OutboxInv /\ HooksInv /\ RunsInv /\ CaptureInv /\ Typed /\ WaitInv
<1>1. Init => Inv
  BY InvInit, HooksInit, RunsInit, CaptureInvInit, TypedInit, WaitInit
<1>2. Inv /\ [Next]_vars => Inv'
  BY InvStep, HooksInvStep, RunsInvStep, CaptureInvStep, TypedStep, WaitStep
<1>3. Inv => WaitingHasJob
  BY WaitImplies
<1> QED
  BY <1>1, <1>2, <1>3, PTL DEF Spec
===============================================================================
