------------------------------ MODULE Capture ------------------------------
(***************************************************************************)
(* The capture of an uploaded document: a worker parses it without a lock, *)
(* and publishes the draft for the attempt its job was queued for; people  *)
(* correct the draft, have the document read again, and save an invoice    *)
(* from it.  The job of an attempt may run twice, and two attempts may be  *)
(* parsed at a time.                                                       *)
(***************************************************************************)
EXTENDS Outbox

CONSTANTS
    Doc,         \* the row of the capture
    MaxSeq,      \* bound: the attempts at the document
    NoCapture

VARIABLES
    capture,     \* the row, and its field rows
    publications,   \* publications[n]: history: how often attempt n published
    saves,       \* the requests that saved an invoice from the capture
    discards     \* the audit events of discarded corrections

captureVars == <<capture, publications, saves, discards>>

AttemptSeq == 0 .. MaxSeq
Stages == 0 .. 2    \* queued, parsing, done

\* Mutant: the job key of a capture does not name the attempt.
OneJob(n) == <<"extract", Doc, 0>>

\* `attempt_job_key`.
AttemptJob(n) == <<"extract", Doc, n>>
SeqOf(w) == exec[w].job[3]

NoFields == [n \in AttemptSeq |-> 0]

\* fields[n]: how often the field rows of attempt n are on record; progress:
\* the stage shown, and the attempt that reported it.
FreshRow(n) ==
    [status |-> "queued", seq |-> n, draft |-> {}, fields |-> NoFields,
     reviewed |-> FALSE, stage |-> 0, stagedBy |-> n]

\* The rows a capture may have.
CaptureRow ==
    [status : {"queued", "parsed", "failed", "saved"}, seq : AttemptSeq,
     draft : SUBSET AttemptSeq, fields : [AttemptSeq -> Nat],
     reviewed : BOOLEAN, stage : Stages, stagedBy : AttemptSeq]

ASSUME CaptureAssumption ==
    /\ MaxSeq \in Nat
    /\ NoCapture \notin CaptureRow
    /\ \A n \in AttemptSeq : AttemptJob(n) \in Job
    /\ \A j \in Job : j[1] = "extract" => j[3] \in AttemptSeq

CaptureInit ==
    /\ capture = NoCapture
    /\ publications = NoFields
    /\ saves = {}
    /\ discards = 0

Captured == capture # NoCapture

----------------------------------------------------------------------------
(* The worker. *)

OnCapture(w) == exec[w] # NoExec /\ exec[w].job[1] = "extract"

\* The fence: attempt n is the one the row waits for.
Current(n) == capture.seq = n /\ capture.status = "queued"

\* `extract_upload` up to the parser: no transaction stays open.
Extract(w) ==
    /\ At(w, "begin")
    /\ OnCapture(w)
    /\ Goto(w, IF Current(SeqOf(w)) THEN "parsing" ELSE "done")
    /\ UNCHANGED <<queueVars, tx, faults, mailVars, captureVars>>

\* `_progress_sink`: one short transaction under the row lock and the fence.
Progress(w) ==
    /\ At(w, "parsing")
    /\ ~Locked(Doc)
    /\ Current(SeqOf(w))
    /\ \E s \in Stages :
         /\ s > capture.stage
         /\ capture' = [capture EXCEPT !.stage = s, !.stagedBy = SeqOf(w)]
    /\ UNCHANGED <<queueVars, exec, tx, faults, mailVars, publications, saves, discards>>

Change(op, locks, row, discarded, jobs) ==
    [op |-> op, locks |-> locks, row |-> row, discarded |-> discarded, jobs |-> jobs]

\* The result of attempt n: a draft with its fields, or a failure.
Results(n) ==
    {[capture EXCEPT !.status = "parsed", !.draft = {n}, !.fields[n] = @ + 1,
                     !.stage = 2, !.stagedBy = n],
     [capture EXCEPT !.status = "failed", !.stage = 2, !.stagedBy = n]}

\* Mutant: the row is not locked while the result is published.
PublishUnlocked == {}

PublishLocks == {Doc}

\* The parser is through: lock and read the row again, and publish.
Publish(w) ==
    /\ At(w, "parsing")
    /\ Current(SeqOf(w))
    /\ \E row \in Results(SeqOf(w)) :
         Open(w, Change("publish", PublishLocks, row, 0, {}))
    /\ UNCHANGED <<queueVars, exec, faults, mailVars, captureVars>>

\* ... or find that the attempt was superseded or completed meanwhile.
Skip(w) ==
    /\ At(w, "parsing")
    /\ tx[w] = NoTx
    /\ ~Locked(Doc)
    /\ ~Current(SeqOf(w))
    /\ Goto(w, "done")
    /\ UNCHANGED <<queueVars, tx, faults, mailVars, captureVars>>

----------------------------------------------------------------------------
(* The clients. *)

\* `_admit_one_upload`: the capture and its job commit together.
Admit(c) ==
    /\ tx[c] = NoTx
    /\ ~Captured
    /\ capture' = FreshRow(0)
    /\ Enqueue({AttemptJob(0)})
    /\ UNCHANGED <<exec, tx, faults, mailVars, publications, saves, discards>>

\* `has_pending_attempt`.
Pending == capture.status = "queued" /\ ~Ended(AttemptJob(capture.seq))

\* Mutant: the row is not locked while corrections are counted and dropped.
RetryUnlocked == {}

RetryLocks == {Doc}

\* `retry_upload`: corrections are dropped only when that is asked for, and
\* then on record.
Reread(c, discardReview) ==
    /\ Captured
    /\ capture.status # "saved"
    /\ ~Pending
    /\ capture.reviewed => discardReview
    /\ capture.seq < MaxSeq
    /\ Open(c, Change("reread", RetryLocks, FreshRow(capture.seq + 1),
                      IF capture.reviewed THEN 1 ELSE 0, {AttemptJob(capture.seq + 1)}))
    /\ UNCHANGED <<queueVars, exec, faults, mailVars, captureVars>>

\* `review_capture_fields`.
Correct(c) ==
    /\ Captured
    /\ capture.status \in {"parsed", "saved"}
    /\ ~capture.reviewed
    /\ Open(c, Change("correct", {Doc}, [capture EXCEPT !.reviewed = TRUE], 0, {}))
    /\ UNCHANGED <<queueVars, exec, faults, mailVars, captureVars>>

\* `link_to_invoice`: the WHERE clause of the UPDATE.
Linkable == Captured /\ capture.status = "parsed"

\* `persist_invoice` with a capture: refused, and rolled back, if it is not linked.
SaveInvoice(c) ==
    /\ Linkable
    /\ c \notin saves
    /\ Open(c, Change("save", {Doc}, [capture EXCEPT !.status = "saved"], 0, {}))
    /\ UNCHANGED <<queueVars, exec, faults, mailVars, captureVars>>

CommitCapture(a) ==
    LET t == tx[a] IN
    /\ t # NoTx
    /\ t.op \in {"publish", "reread", "correct", "save"}
    /\ capture' = IF t.op = "correct" THEN [capture EXCEPT !.reviewed = TRUE]
                  ELSE IF t.op = "save" THEN [capture EXCEPT !.status = "saved"]
                  ELSE t.row
    /\ publications' = IF t.op = "publish" THEN [publications EXCEPT ![SeqOf(a)] = @ + 1] ELSE publications
    /\ saves' = IF t.op = "save" THEN saves \cup {a} ELSE saves
    /\ discards' = discards + t.discarded
    /\ Enqueue(t.jobs)
    /\ IF a \in Worker THEN Goto(a, "done") ELSE UNCHANGED exec
    /\ Close(a)
    /\ UNCHANGED <<faults, mailVars>>

CaptureNext ==
    \/ \E w \in Worker : Extract(w) \/ Progress(w) \/ Publish(w) \/ Skip(w)
    \/ \E c \in Client : Admit(c) \/ Correct(c) \/ SaveInvoice(c)
    \/ \E c \in Client, ask \in BOOLEAN : Reread(c, ask)
    \/ \E a \in Actor : CommitCapture(a)

----------------------------------------------------------------------------
(* Properties. *)

\* An attempt publishes at most once, although its job may be run twice: by a
\* zombie that lost its lease and the worker that took over, or after a
\* success whose report was lost.
PublishedOnce == \A n \in AttemptSeq : publications[n] <= 1

\* The draft, its field rows and the progress on show come from one attempt,
\* the current one: a late result of an attempt that was superseded never
\* lands, whole or in part.
OneProvenance ==
    Captured =>
        /\ capture.draft = IF capture.status \in {"parsed", "saved"} THEN {capture.seq} ELSE {}
        /\ \A n \in AttemptSeq : capture.fields[n] = IF n \in capture.draft THEN 1 ELSE 0
        /\ capture.stagedBy = capture.seq

\* What people typed is never dropped in silence: when corrections go, the
\* trail says so, also when the correction and the retry arrive together.
DiscardsOnRecord ==
    [][Captured /\ capture.reviewed /\ ~capture'.reviewed => discards' = discards + 1]_captureVars

\* One invoice is saved from a capture, and what it was saved from stays as it
\* was: no retry and no late attempt touches a saved capture.
SavedOnce ==
    /\ Cardinality(saves) <= 1
    /\ saves # {} <=> (Captured /\ capture.status = "saved")

\* A capture that waits for a worker has a job for its current attempt, or one
\* that died and leaves the retry open: it is never stuck.
WaitingIsPending ==
    Captured /\ capture.status = "queued" =>
        phase[AttemptJob(capture.seq)] \in {"queued", "running", "dead"}

\* What a capture shows, and what is saved from it, is the result of one
\* attempt, published and saved once (publish, link_to_invoice).
CaptureSound == PublishedOnce /\ OneProvenance /\ SavedOnce
=============================================================================
