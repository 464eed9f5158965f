----------------------------- MODULE Automation -----------------------------
(***************************************************************************)
(* Automation rules: the sweep fires a published rule on a matching record *)
(* at most as its policy allows, freezes the actions of the run as child   *)
(* outcomes, and delivers the mail children through the outbox.  A run     *)
(* that is not "ok" stays the occurrence of the record; it is retried,     *)
(* never fired anew.                                                       *)
(***************************************************************************)
EXTENDS Outbox

CONSTANTS
    Run,       \* identifiers of runs of one rule on one record
    Rule,      \* the row of the rule
    MaxGen,    \* bound: the generations of delivery jobs of a mail
    NoRun

VARIABLES
    run,        \* run[r]: the row of the run, its children included
    enabled,    \* the rule is published, the workspace active
    direct,     \* direct[r]: history: how often the direct action of r took effect
    firing      \* the rule: its policy and its actions

automationVars == <<run, enabled, direct, firing>>

RunMail(r, i) == <<r, i>>
Index == 1 .. firing.mails

AutomationInit ==
    /\ run = [r \in Run |-> NoRun]
    /\ enabled = TRUE
    /\ direct = [r \in Run |-> 0]

Runs == {r \in Run : run[r] # NoRun}

\* The rows of a run with n mails.
RunRow(n) ==
    [mail : [1 .. n -> MailStatus \cup {"done"}], note : {"none", "done", "blocked"},
     gen : [1 .. n -> Nat], status : {"pending", "blocked", "unknown", "ok"}]

\* `_state`: the least settled child decides.
State(children) ==
    CASE "unknown" \in children -> "unknown"
      [] "unknown" \notin children /\ children \cap {"sending", "queued"} # {} -> "pending"
      [] children \cap {"unknown", "sending", "queued"} = {} /\ "blocked" \in children -> "blocked"
      [] OTHER -> "ok"

\* The state of a mail child mirrors the status of its message.
Mirror(status) == IF status = "sent" THEN "done" ELSE status

Children(mail, note) == {mail[i] : i \in DOMAIN mail} \cup {note}

\* `_save`: refresh the mail children from the messages, then the status.
Saved(mails, note, gen) ==
    LET mirrored == [i \in DOMAIN mails |-> Mirror(mails[i])]
    IN  [mail |-> mirrored, note |-> note, gen |-> gen,
         status |-> State(Children(mirrored, note))]

\* A transaction on run r: it holds `locks` and will store the run, the
\* statuses of its messages, queue the jobs, and move the handler on.
Write(op, locks, r, new, mails, jobs, effect, next) ==
    [op |-> op, locks |-> locks, run |-> r, new |-> new,
     msgs |-> [m \in {RunMail(r, i) : i \in DOMAIN mails} |-> mails[m[2]]],
     jobs |-> jobs, effect |-> effect, next |-> next]

Mails(r) == [i \in Index |-> msg[RunMail(r, i)]]

\* A run id no transaction is about to insert.
Unused(r) ==
    /\ run[r] = NoRun
    /\ \A a \in Actor : tx[a] # NoTx /\ tx[a].op = "sweep" => tx[a].run # r

----------------------------------------------------------------------------
(* The direct and the mail actions of a run. *)

\* `_child` of a note or a webhook: done once, or blocked.
NoteOutcomes(note) ==
    IF note \in {"done", "none"} THEN {note} ELSE {"done", "blocked"}

\* `_prepare_mail`: a generation whose job ended is followed by the next one.
Generation(r, i, gen) ==
    LET j == MailJob(RunMail(r, i), gen)
    IN  IF phase[j] # "absent" /\ Ended(j) THEN gen + 1 ELSE gen

\* The mail is out of our hands, or its job has yet to end.
Underway(r, i, gen) ==
    \/ msg[RunMail(r, i)] \in {"sent", "unknown", "sending"}
    \/ phase[MailJob(RunMail(r, i), gen)] \in {"queued", "running"}

\* The messages and generations after `_prepare_mail` of every mail child.
Prepared(r, gen) ==
    [i \in Index |->
        IF Underway(r, i, gen[i])
          THEN [status |-> msg[RunMail(r, i)], gen |-> gen[i], job |-> {}]
          ELSE LET g == Generation(r, i, gen[i])
               IN  [status |-> IF relay THEN "queued" ELSE "blocked",
                    gen |-> g,
                    job |-> IF relay THEN {MailJob(RunMail(r, i), g)} ELSE {}]]

\* `_child` of every child, then `_save`.
Performed(op, locks, r, note, gen) ==
    LET p == Prepared(r, gen)
        mails == [i \in Index |-> p[i].status]
        gens == [i \in Index |-> p[i].gen]
    IN  {Write(op, locks, r, Saved(mails, outcome, gens), mails,
               UNION {p[i].job : i \in Index},
               IF note # "done" /\ outcome = "done" THEN 1 ELSE 0, "done") :
           outcome \in NoteOutcomes(note)}

----------------------------------------------------------------------------
(* The sweep, and the retry of a run. *)

Incomplete == {"pending", "blocked", "unknown"}

\* `_suppression_reason`: an incomplete run, or an ok one under once_per_record.
Suppressed ==
    \/ \E r \in Runs : run[r].status \in Incomplete
    \/ firing.policy = "once_per_record" /\ \E r \in Runs : run[r].status = "ok"

SweepLocks == {Rule}

\* `sweep`, `evaluate_rule` and `begin` for one rule and one record.
Sweep(c) ==
    /\ enabled
    /\ ~Suppressed
    /\ \E r \in Run :
         /\ Unused(r)
         /\ \E t \in Performed("sweep", SweepLocks, r,
                               IF firing.note THEN "planned" ELSE "none",
                               [i \in Index |-> 0]) : Open(c, t)
    /\ UNCHANGED <<queueVars, exec, faults, mailVars, automationVars>>

\* Mutant: `_load_run` without FOR UPDATE.
RunUnlocked(r) == {}

RunLocks(r) == {r}

\* `retry`: refused while an outcome is unknown, or the rule is not published.
Retry(c, r) ==
    /\ r \in Runs
    /\ run[r].status \notin {"ok", "unknown"}
    /\ "sending" \notin Children(run[r].mail, run[r].note)
    /\ enabled
    /\ \E t \in Performed("retry", RunLocks(r), r, run[r].note, run[r].gen) :
         /\ \A i \in Index : t.new.gen[i] <= MaxGen
         /\ t.new # run[r]
         /\ Open(c, t)
    /\ UNCHANGED <<queueVars, exec, faults, mailVars, automationVars>>

\* `publish_rule`, `set_status`: the rule is locked while it changes.
SetStatus ==
    /\ Fault
    /\ ~Locked(Rule)
    /\ enabled' = ~enabled
    /\ UNCHANGED <<queueVars, exec, tx, mailVars, run, direct, firing>>

----------------------------------------------------------------------------
(* `deliver`. *)

OnRunMail(w) == exec[w] # NoExec /\ exec[w].job[1] = "mail" /\ MailOf(w) \in Run \X Index

\* What the first transaction makes of the status it finds.
Decision(status) ==
    CASE status = "sending" -> "unknown"
      [] status = "queued" -> IF enabled /\ relay THEN "sending" ELSE "blocked"
      [] OTHER -> status

\* Mutant: `deliver` reads the run and the message without a lock.
DeliverUnlocked(r, m) == {}

DeliverLocks(r, m) == {r, m}

\* Store a status of the mail, and the run with it.
Recorded(op, locks, m, status, next) ==
    LET r == m[1]
        mails == [Mails(r) EXCEPT ![m[2]] = status]
    IN  Write(op, locks, r, Saved(mails, run[r].note, run[r].gen), mails, {}, 0, next)

\* Load the run and the message under their locks, and decide.
Attempt(w) ==
    /\ At(w, "begin")
    /\ OnRunMail(w)
    /\ LET m == MailOf(w)
           status == Decision(msg[m])
       IN  Open(w, Recorded("deliver", DeliverLocks(m[1], m), m, status,
                            IF status = "sending" /\ msg[m] = "queued" THEN "smtp" ELSE "done"))
    /\ UNCHANGED <<queueVars, exec, faults, mailVars, automationVars>>

Reported(m, status) == Recorded("report", {m[1]}, m, status, "done")

\* Load the run again, and record what became of the mail.
Record(w) ==
    /\ At(w, "accepted") \/ At(w, "uncertain")
    /\ OnRunMail(w)
    /\ Open(w, Reported(MailOf(w), Outcome(w)))
    /\ UNCHANGED <<queueVars, exec, faults, mailVars, automationVars>>

----------------------------------------------------------------------------
\* Commit what the transaction of actor a holds.
CommitRun(a) ==
    /\ tx[a] # NoTx
    /\ tx[a].op \in {"sweep", "retry", "deliver", "report"}
    /\ run' = [run EXCEPT ![tx[a].run] = tx[a].new]
    /\ msg' = [m \in Msg |-> IF m \in DOMAIN tx[a].msgs THEN tx[a].msgs[m] ELSE msg[m]]
    /\ direct' = [direct EXCEPT ![tx[a].run] = @ + tx[a].effect]
    /\ Enqueue(tx[a].jobs)
    /\ IF a \in Worker THEN Goto(a, tx[a].next) ELSE UNCHANGED exec
    /\ Close(a)
    /\ UNCHANGED <<faults, sends, adrift, relay, enabled, firing>>

AutomationNext ==
    \/ \E c \in Client : Sweep(c) \/ \E r \in Run : Retry(c, r)
    \/ \E w \in Worker : Attempt(w) \/ Record(w)
    \/ \E a \in Actor : CommitRun(a)
    \/ SetStatus

----------------------------------------------------------------------------
(* Properties. *)

\* However sweeps overlap - a reclaimed sweep job next to its zombie, two
\* workers - a record has at most one run that is not through, and under
\* once_per_record at most one run at all (`_suppression_reason` under the
\* lock of the rule).
FiresOnce ==
    \A r, s \in Runs : r # s =>
        /\ firing.policy # "once_per_record"
        /\ run[r].status = "ok" \/ run[s].status = "ok"

\* The direct action of a run - a note, a webhook - takes effect at most once,
\* and "done" is only said of an effect, through every retry of the run.
DirectOnce ==
    \A r \in Runs : direct[r] = IF run[r].note = "done" THEN 1 ELSE 0

\* The stored outcome of a run agrees with its messages at every commit, also
\* when two children finish at once: "ok" means that every mail was accepted.
RunTellsTruth ==
    \A r \in Runs :
        /\ \A i \in Index : run[r].mail[i] = Mirror(msg[RunMail(r, i)])
        /\ run[r].status = State(Children(run[r].mail, run[r].note))

\* The runs of a rule are sound (`sweep` under the rule's lock, `_save` under the
\* run's): none fires that should not, and what is stored of each is what
\* happened, its direct action and its mails.
RunSound == FiresOnce /\ DirectOnce /\ RunTellsTruth
=============================================================================
