------------------------------- MODULE Outbox -------------------------------
(***************************************************************************)
(* The mails a worker sends.  A handler decides in one transaction whether *)
(* the mail goes out, commits the status "sending", talks to the SMTP      *)
(* relay without a transaction, and records the outcome in a second one.   *)
(***************************************************************************)
EXTENDS Worker, TLC

CONSTANT Msg      \* rows of email_messages

VARIABLES
    msg,      \* msg[m]: the status of the row, "absent" before it is inserted
    sends,    \* sends[m]: history: how often the relay accepted the mail
    adrift,   \* mails with the SMTP thread of a cancelled handler
    relay     \* SMTP is configured, and the recipient on record is the one of the mail

mailVars == <<msg, sends, adrift, relay>>

MailStatus == {"absent", "blocked", "queued", "sending", "sent", "unknown", "failed"}

OutboxInit ==
    /\ msg = [m \in Msg |-> "absent"]
    /\ sends = [m \in Msg |-> 0]
    /\ adrift = {}
    /\ relay = TRUE

MailJob(m, generation) == <<"mail", m, generation>>
MailOf(w) == exec[w].job[2]

Accepted(m) == sends' = [sends EXCEPT ![m] = @ + 1]

\* The relay accepts the mail; the reply reaches the handler, or the
\* connection is lost and `_smtp_send` raises.
SmtpAccept(w) ==
    /\ At(w, "smtp")
    /\ Accepted(MailOf(w))
    /\ Goto(w, "accepted") \/ Goto(w, "uncertain")
    /\ UNCHANGED <<queueVars, tx, faults, msg, adrift, relay>>

SmtpError(w) ==
    /\ At(w, "smtp")
    /\ Goto(w, "uncertain")
    /\ UNCHANGED <<queueVars, tx, faults, mailVars>>

\* The handler is cancelled; a thread it waits for is not.
Break(w) ==
    /\ Fault
    /\ exec[w] # NoExec
    /\ Raise(w, FALSE)
    /\ adrift' = IF At(w, "smtp") THEN adrift \cup {MailOf(w)} ELSE adrift
    /\ UNCHANGED <<msg, sends, relay>>

\* The thread left behind gets through, or does not.
Land(m) ==
    /\ m \in adrift
    /\ adrift' = adrift \ {m}
    /\ Accepted(m) \/ UNCHANGED sends
    /\ UNCHANGED <<workerVars, msg, relay>>

Toggle ==
    /\ Fault
    /\ relay' = ~relay
    /\ UNCHANGED <<queueVars, exec, tx, msg, sends, adrift>>

\* What the outcome of `_smtp_send` is recorded as.
Outcome(w) == IF At(w, "accepted") THEN "sent" ELSE "unknown"

----------------------------------------------------------------------------
(* Properties. *)

\* A mail that waits has a job that will still look at it, or one that died
\* trying: no retry, crash or lost lease strands it.  An invoice mail has one
\* job for life, so a blocked one must not be taken up again; a mail of a run
\* gets the next generation of its job.
QueuedHasJob ==
    \A m \in Msg : msg[m] = "queued" =>
        \E j \in Job : j[1] = "mail" /\ j[2] = m /\ phase[j] \in {"queued", "running", "dead"}

Stage(m) == CASE msg[m] = "sending" -> "committed"
              [] msg[m] = "unknown" -> "uncertain"
              [] msg[m] = "sent" -> "sent"
              [] OTHER -> "open"

Promise == INSTANCE SendOnce WITH stage <- [m \in Msg |-> Stage(m)]

\* The rows implement SendOnce.  Whatever a worker does - crash after the mail
\* left, run past its deadline, lose its lease to a second worker - the relay
\* accepts a mail at most once: the status "sending" is committed before the mail
\* leaves, and whoever finds it gives up instead of sending again.  A mail that
\* may have left is never reopened, "sent" is only said of what the relay
\* accepted, and is never taken back.
ImplementsSendOnce == Promise!Spec
=============================================================================
