---------------------------- MODULE InvoiceMail ----------------------------
(***************************************************************************)
(* Sending an issued invoice by mail: a request freezes the PDF and queues *)
(* the mail, a worker delivers it and stamps the invoice as sent.  The     *)
(* same outbox as the automation rules use, without a run behind the mail. *)
(***************************************************************************)
EXTENDS Outbox

CONSTANTS
    InvMsg,    \* the mails of one invoice: the primary one and the resends
    Invoice,   \* the row of the invoice
    NoStamp

VARIABLES
    attached,  \* the mails whose PDF is frozen (attachment_sha256)
    stamp,     \* sent_at of the invoice: the mail that set it
    eligible,  \* the invoice may be mailed: it is issued, disputed or written off
    unsent,    \* the workers whose session holds the invoice without sent_at
    rivals     \* history: the mails a worker was at when the invoice was stamped

invoiceMailVars == <<attached, stamp, eligible, unsent, rivals>>

InvoiceMailInit ==
    /\ attached = {}
    /\ stamp = NoStamp
    /\ eligible = TRUE
    /\ unsent = {}
    /\ rivals = {}

\* A transaction that stores a status of mail m, and may stamp the invoice.
Update(op, locks, m, status, jobs, stamped, next) ==
    [op |-> op, locks |-> locks, mail |-> m, status |-> status, jobs |-> jobs,
     stamped |-> stamped, next |-> next]

\* `queue` inserts a mail, or takes up one that never had an attachment.
Queueable(m) == msg[m] = "absent" \/ (msg[m] = "blocked" /\ relay /\ m \notin attached)

\* `send_invoice`, under the lock of the invoice; a key in use returns its row.
Send(c, m) ==
    /\ eligible
    /\ Queueable(m)
    /\ Open(c, Update("send", {Invoice}, m, IF relay THEN "queued" ELSE "blocked",
                      IF relay THEN {MailJob(m, 0)} ELSE {}, FALSE, "done"))
    /\ UNCHANGED <<queueVars, exec, faults, mailVars, invoiceMailVars>>

OnInvoiceMail(w) == exec[w] # NoExec /\ exec[w].job[1] = "mail" /\ MailOf(w) \in InvMsg

\* What `deliver` makes of the status it finds; the attachment may be lost.
Verdicts(status) ==
    CASE status = "sending" -> {"unknown"}
      [] status = "queued" -> IF relay /\ eligible THEN {"sending", "failed"} ELSE {"blocked"}
      [] OTHER -> {status}

After(old, new) ==
    CASE old # new /\ new = "sending" -> "smtp"
      [] old # new /\ new = "failed" -> "refused"
      [] OTHER -> "done"

\* A mail that is still queued loads the invoice, without locking it.
Load(w) ==
    unsent' = IF msg[MailOf(w)] = "queued" /\ relay /\ stamp = NoStamp
              THEN unsent \cup {w} ELSE unsent \ {w}

Deliver(w) ==
    /\ At(w, "begin")
    /\ OnInvoiceMail(w)
    /\ LET m == MailOf(w) IN
         \E status \in Verdicts(msg[m]) :
             Open(w, Update("delivery", {m}, m, status, {}, FALSE, After(msg[m], status)))
    /\ Load(w)
    /\ UNCHANGED <<queueVars, exec, faults, mailVars, attached, stamp, eligible, rivals>>

\* Mutant: every accepted mail stamps the invoice.
StampsAlways(w) == Outcome(w) = "sent"

\* An accepted mail stamps an invoice without sent_at.  It locks the row, but
\* looks at what the session loaded before the mail was sent: the select that
\* locks does not refresh an object the session holds.
Stamps(w) == Outcome(w) = "sent" /\ w \in unsent

StampLocks(w, m) == IF Outcome(w) = "sent" THEN {m, Invoice} ELSE {m}

\* Record the outcome.
Conclude(w) ==
    /\ At(w, "accepted") \/ At(w, "uncertain")
    /\ OnInvoiceMail(w)
    /\ LET m == MailOf(w) IN
         Open(w, Update("outcome", StampLocks(w, m), m, Outcome(w), {}, Stamps(w), "done"))
    /\ UNCHANGED <<queueVars, exec, faults, mailVars, invoiceMailVars>>

\* The invoice is cancelled, or becomes one that may be mailed.
Reclassify ==
    /\ Fault
    /\ ~Locked(Invoice)
    /\ eligible' = ~eligible
    /\ UNCHANGED <<queueVars, exec, tx, mailVars, attached, stamp, unsent, rivals>>

UnderWay(m) == \E w \in Worker : exec[w] # NoExec /\ MailOf(w) = m

CommitMail(a) ==
    /\ tx[a] # NoTx
    /\ tx[a].op \in {"send", "delivery", "outcome"}
    /\ msg' = [msg EXCEPT ![tx[a].mail] = tx[a].status]
    /\ attached' = attached \cup {j[2] : j \in tx[a].jobs}
    /\ stamp' = IF tx[a].stamped THEN tx[a].mail ELSE stamp
    /\ rivals' = IF tx[a].stamped /\ stamp = NoStamp THEN {m \in InvMsg : UnderWay(m)} ELSE rivals
    /\ Enqueue(tx[a].jobs)
    /\ IF a \in Worker THEN Goto(a, tx[a].next) ELSE UNCHANGED exec
    /\ Close(a)
    /\ UNCHANGED <<faults, sends, adrift, relay, eligible, unsent>>

InvoiceMailNext ==
    \/ \E c \in Client, m \in InvMsg : Send(c, m)
    \/ \E w \in Worker : Deliver(w) \/ Conclude(w)
    \/ \E a \in Actor : CommitMail(a)
    \/ Reclassify

----------------------------------------------------------------------------
(* Properties. *)

\* A stamped invoice was mailed, and an accepted mail leaves it stamped.
StampMeansSent ==
    (stamp # NoStamp) <=> \E m \in InvMsg : msg[m] = "sent"

\* An invoice has a sent_at when, and only when, one of its mails was accepted;
\* and a resend that no worker had taken up when the invoice was stamped never
\* moves its sent_at (deliver stamps an invoice it loaded without sent_at).
StampedOnce ==
    /\ []StampMeansSent
    /\ [][stamp # NoStamp => stamp' \in {stamp} \cup rivals]_stamp

\* Not checked, and not so: sent_at is the time of the first accepted mail, for
\* good.  Two mails that are delivered at once both find the invoice unsent, and
\* the one that is recorded last moves the stamp.
StampKept == [][stamp # NoStamp => stamp' = stamp]_stamp
=============================================================================
