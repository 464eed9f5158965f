----------------------------- MODULE Background -----------------------------
(***************************************************************************)
(* The handlers on the queue: automation rules, invoice mails, captures    *)
(* and webhooks run by the same workers, on jobs of the same queue, under  *)
(* the same faults.  The four do not share rows; a behaviour exercises one.*)
(***************************************************************************)
EXTENDS Automation, InvoiceMail, Capture, Webhooks

CONSTANTS
    Firings      \* bound: the policies and actions of the rule, with the faults it meets

ASSUME HandlerAssumption ==
    /\ \A f \in Firings :
         /\ f.mails \in Nat /\ f.faults \in Nat
         /\ Run \X (1 .. f.mails) \subseteq Msg \ InvMsg
         /\ \A r \in Run, i \in 1 .. f.mails, g \in 0 .. MaxGen : MailJob(RunMail(r, i), g) \in Job
         /\ NoRun \notin RunRow(f.mails)
    /\ MaxGen \in Nat
    /\ InvMsg \subseteq Msg
    /\ \A m \in InvMsg : MailJob(m, 0) \in Job
    /\ NoStamp \notin InvMsg

VARIABLE work    \* what the behaviour exercises

vars == <<workerVars, mailVars, automationVars, invoiceMailVars, captureVars,
          webhookVars, work>>

handlerVars == <<automationVars, invoiceMailVars, captureVars, webhookVars, work>>

Init ==
    /\ WorkerInit
    /\ OutboxInit
    /\ AutomationInit
    /\ InvoiceMailInit
    /\ CaptureInit
    /\ WebhooksInit
    /\ work \in {"rules", "mails", "captures", "hooks"}
    /\ firing \in Firings
    /\ work # "rules" => firing = CHOOSE f \in Firings : TRUE
    /\ faults = IF work = "rules" THEN firing.faults ELSE MaxFaults

\* What the queue, the machines and the relay do, whatever the handlers are.
Surroundings ==
    \/ (Serve \/ Repair \/ Trouble) /\ UNCHANGED mailVars
    \/ \E w \in Worker : SmtpAccept(w) \/ SmtpError(w) \/ Break(w)
    \/ \E m \in Msg : Land(m)
    \/ work \in {"rules", "mails"} /\ Toggle

RulesOnly == UNCHANGED <<invoiceMailVars, captureVars, webhookVars, work>>
MailsOnly == UNCHANGED <<automationVars, captureVars, webhookVars, work>>
CapturesOnly == UNCHANGED <<automationVars, invoiceMailVars, webhookVars, work>>
HooksOnly == UNCHANGED <<automationVars, invoiceMailVars, captureVars, work>>

Next ==
    \/ Surroundings /\ UNCHANGED handlerVars
    \/ work = "rules" /\ AutomationNext /\ RulesOnly
    \/ work = "mails" /\ InvoiceMailNext /\ MailsOnly
    \/ work = "captures" /\ CaptureNext /\ CapturesOnly
    \/ work = "hooks" /\ WebhooksNext /\ HooksOnly

Spec == Init /\ [][Next]_vars

\* What a worker in an execution does next, the faults left out.
Handle(w) ==
    \/ (Finish(w) \/ Refuse(w)) /\ UNCHANGED <<mailVars, handlerVars>>
    \/ (SmtpAccept(w) \/ SmtpError(w)) /\ UNCHANGED handlerVars
    \/ work = "rules" /\ (Attempt(w) \/ Record(w) \/ CommitRun(w)) /\ RulesOnly
    \/ work = "mails" /\ (Deliver(w) \/ Conclude(w) \/ CommitMail(w)) /\ MailsOnly
    \/ work = "captures" /\ (Extract(w) \/ Publish(w) \/ Skip(w) \/ CommitCapture(w)) /\ CapturesOnly
    \/ work = "hooks" /\ (Drop(w) \/ Post(w) \/ Delivered(w) \/ Failed(w)) /\ HooksOnly

\* A request ends: it commits.
Answer(c) ==
    \/ work = "rules" /\ CommitRun(c) /\ RulesOnly
    \/ work = "mails" /\ CommitMail(c) /\ MailsOnly
    \/ work = "captures" /\ CommitCapture(c) /\ CapturesOnly
    \/ work = "hooks" /\ (CommitEmit(c) \/ RollbackEmit(c)) /\ HooksOnly

Polling(w) == (\E j \in Job : Take(w, j)) /\ UNCHANGED <<mailVars, handlerVars>>
Sweeping == Repair /\ UNCHANGED <<mailVars, handlerVars>>

\* Workers poll, handlers go on until their deadline at the latest, requests
\* end, and the sweep of abandoned leases keeps running.  Weak fairness is
\* enough although a row may be locked: every holder lets go of it.
Fairness ==
    /\ \A w \in Worker : WF_vars(Polling(w) \/ Handle(w))
    /\ \A c \in Client : WF_vars(Answer(c))
    /\ WF_vars(Sweeping)

FairSpec == Spec /\ Fairness

----------------------------------------------------------------------------
(* Properties. *)

\* The type invariant: rows, executions and transactions are well formed, and
\* an execution is at a step of its handler.
TypeOK ==
    /\ phase \in [Job -> {"absent", "queued", "running", "succeeded", "dead"}]
    /\ runner \in [Job -> Worker \cup {NoWorker}]
    /\ tries \in [Job -> 0 .. MaxAttempts]
    /\ \A w \in Worker :
         exec[w] # NoExec =>
            /\ exec[w].job \in Job
            /\ exec[w].at \in Step
    /\ \A a \in Actor : tx[a] # NoTx => a \in Client \/ exec[a] # NoExec
    /\ faults \in Nat
    /\ msg \in [Msg -> MailStatus]
    /\ sends \in [Msg -> Nat]
    /\ adrift \subseteq Msg
    /\ \A r \in Runs : run[r].status \in {"pending", "blocked", "unknown", "ok"}
    /\ stamp \in InvMsg \cup {NoStamp}
    /\ Captured => capture.status \in {"queued", "parsed", "failed", "saved"}
    /\ delivery \in [Event -> [Delivery -> {"absent", "pending", "delivered", "failed"}]]

\* Rows are well formed, and whatever waits for a worker has a job that will
\* look at it, or one that died trying: mails and captures that are retried
\* under a key that was used before are not stranded.
WaitingHasJob == TypeOK /\ QueuedHasJob /\ WaitingIsPending

DeadJob(kind, x) == \E j \in Job : j[1] = kind /\ j[2] = x /\ phase[j] = "dead"

Waiting ==
    \/ \E m \in Msg : msg[m] = "queued" /\ ~DeadJob("mail", m)
    \/ Captured /\ capture.status = "queued" /\ phase[AttemptJob(capture.seq)] # "dead"
    \/ \E e \in Event, d \in Delivery : delivery[e][d] = "pending" /\ phase[HookJob(e, d)] # "dead"

\* No mail, capture or webhook waits for ever: once queued it is taken up and
\* decided - through crashes, lost leases and reports that come too late -
\* unless its job used up its attempts on the way.
Decided == Waiting ~> ~Waiting
=============================================================================
