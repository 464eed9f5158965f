---------------------------- MODULE InvoiceReview ----------------------------
(***************************************************************************)
(* Review and approval of one supplier invoice: editing, submission into a *)
(* chain of approval steps, the decisions on the steps, reassignment, and  *)
(* the generic transition route.                                           *)
(*                                                                         *)
(* A client sends the `version` it read; the request is refused when the   *)
(* row it loads has another one.  As in PaymentRun a request is a load,    *)
(* with every check, and a commit that writes the columns it changed; the  *)
(* invoice is loaded without a lock.  A refused request is no step.        *)
(***************************************************************************)
EXTENDS Naturals, Sequences, FiniteSets, InvoiceWorkflow

CONSTANTS
    User, Admin,   \* the people; Admin: the platform administrators among them
    Chains,        \* the chains of approvers the policies prescribe
    Slot,          \* requests in flight, at most one per slot
    Target,        \* bound: the states the generic transition is sent to
    MaxVersion,    \* bound: the version up to which requests are issued
    Overlap,       \* whether requests overlap
    Anyone,        \* a step open to every approver
    NoUser, NoRequest

ASSUME ReviewAssumption ==
    /\ Admin \subseteq User
    /\ NoUser \notin User /\ Anyone \notin User
    /\ Chains \subseteq Seq(User \cup {Anyone}) /\ <<>> \notin Chains
    /\ Target \subseteq WorkflowState
    /\ MaxVersion \in Nat
    /\ Overlap \in BOOLEAN

VARIABLES
    inv,    \* the invoice row
    chain,  \* its approval steps, and how often they have been replaced
    view,   \* what each user has read: a version, and whether it is still true
    req     \* req[s]: the request in slot s, between its load and its commit

vars == <<inv, chain, view, req>>

Row == [state     : WorkflowState,
        version   : Nat,
        rev       : Nat,               \* which revision of the header and lines
        submitter : User \cup {NoUser},
        locked    : BOOLEAN]           \* locked_at, locked_by

Step == [approver : User \cup {Anyone},
         status   : {"pending", "approved", "rejected", "skipped"},
         by       : User \cup {NoUser}]

----------------------------------------------------------------------------
(* The approval chain. *)

\* build_chain: one pending step per approver of the policy.
BuildChain(approvers) ==
    [k \in DOMAIN approvers |-> [approver |-> approvers[k], status |-> "pending", by |-> NoUser]]

With(steps, status) == {k \in DOMAIN steps : steps[k].status = status}

\* pending_step: the first pending one.
PendingStep(steps) == CHOOSE k \in With(steps, "pending") : \A j \in With(steps, "pending") : k <= j

ChainState(steps) ==
    IF With(steps, "rejected") # {} THEN "rejected"
    ELSE IF With(steps, "pending") = {} THEN "approved"
    ELSE IF With(steps, "approved") # {} THEN "partially_approved"
    ELSE "submitted"

Decided(steps, k, status, u) == [steps EXCEPT ![k].status = status, ![k].by = u]

\* skip_pending.
SkipPending(steps) ==
    [k \in DOMAIN steps |->
        IF steps[k].status = "pending" THEN [steps[k] EXCEPT !.status = "skipped"] ELSE steps[k]]

IsAssignedApprover(step, u) == step.approver \in {Anyone, u} \/ u \in Admin

\* Mutant: the assigned approver decides, whoever submitted.
AssignedDecider(u, step) == IsAssignedApprover(step, u)

\* _guard_decider: not the submitter, and assigned to the step.
MayDecide(u, step) ==
    /\ inv.submitter = u => u \in Admin
    /\ IsAssignedApprover(step, u)

----------------------------------------------------------------------------
(* Requests. *)

Busy(s) == req[s] # NoRequest

\* Mutant: a reassignment, say, that forgets to bump the version.
Unbumped(row) == row

\* _bump.
Bump(row) == [row EXCEPT !.version = @ + 1]

\* A request by u that passed the version check and will leave the row `new`
\* and the steps `steps`; a replacement deletes and inserts the step rows.
Begin(s, u, new, steps, replaces) ==
    /\ ~Busy(s)
    /\ Overlap \/ \A t \in Slot : ~Busy(t)
    /\ inv.version < MaxVersion
    /\ view[u].version = inv.version
    /\ req' = [req EXCEPT ![s] =
         [seen |-> inv, new |-> new, was |-> chain, steps |-> steps, replaces |-> replaces]]
    /\ UNCHANGED <<inv, chain, view>>

\* Editing (edit_header, edit_lines).
LoadEdit(s, u) ==
    /\ inv.state \in Editable
    /\ Begin(s, u, Bump([inv EXCEPT !.rev = @ + 1]), chain.steps, FALSE)

\* submit: a fresh chain, by the policy that governs the invoice.
LoadSubmit(s, u) ==
    /\ CanTransition(inv.state, "submitted")
    /\ \E approvers \in Chains :
         LET steps == BuildChain(approvers) IN
         Begin(s, u, Bump([inv EXCEPT !.state = ChainState(steps), !.submitter = u]), steps, TRUE)

\* What a decision needs: an invoice awaiting one, and a step this user may decide.
Deciding(u) ==
    /\ inv.state \in AwaitingApproval
    /\ With(chain.steps, "pending") # {}
    /\ MayDecide(u, chain.steps[PendingStep(chain.steps)])

\* approve: the last approval locks the record.
LoadApprove(s, u) ==
    LET steps == Decided(chain.steps, PendingStep(chain.steps), "approved", u)
        to    == ChainState(steps)
    IN
    /\ Deciding(u)
    /\ CanTransition(inv.state, to)
    /\ Begin(s, u, Bump([inv EXCEPT !.state = to, !.locked = @ \/ to = "approved"]), steps, FALSE)

LoadReject(s, u) ==
    LET steps == Decided(chain.steps, PendingStep(chain.steps), "rejected", u) IN
    /\ Deciding(u)
    /\ CanTransition(inv.state, "rejected")
    /\ Begin(s, u, Bump([inv EXCEPT !.state = "rejected"]), SkipPending(steps), FALSE)

\* return_for_correction keeps the decided steps and the submitter.
LoadReturn(s, u) ==
    /\ Deciding(u)
    /\ CanTransition(inv.state, "draft")
    /\ Begin(s, u, Bump([inv EXCEPT !.state = "draft"]), SkipPending(chain.steps), FALSE)

\* reassign: any pending step, to anybody, in any state of the invoice.
LoadReassign(s, u, k, approver) ==
    /\ k \in With(chain.steps, "pending")
    /\ Begin(s, u, Bump(inv), [chain.steps EXCEPT ![k].approver = approver], FALSE)

\* transition: reopening (draft) deletes the chain and the lock.
LoadTransition(s, u, target) ==
    /\ CanTransition(inv.state, target)
    /\ IF target = "draft"
         THEN Begin(s, u, Bump([inv EXCEPT !.state = "draft", !.submitter = NoUser,
                                           !.locked = FALSE]), <<>>, TRUE)
         ELSE Begin(s, u, Bump([inv EXCEPT !.state = target]), chain.steps, FALSE)

----------------------------------------------------------------------------
(* Commit. *)

\* The ORM writes the columns that differ from the loaded ones.
Flush(row, seen, new) ==
    [state     |-> IF new.state     = seen.state     THEN row.state     ELSE new.state,
     version   |-> IF new.version   = seen.version   THEN row.version   ELSE new.version,
     rev       |-> IF new.rev       = seen.rev       THEN row.rev       ELSE new.rev,
     submitter |-> IF new.submitter = seen.submitter THEN row.submitter ELSE new.submitter,
     locked    |-> IF new.locked    = seen.locked    THEN row.locked    ELSE new.locked]

FlushStep(step, seen, new) ==
    [approver |-> IF new.approver = seen.approver THEN step.approver ELSE new.approver,
     status   |-> IF new.status   = seen.status   THEN step.status   ELSE new.status,
     by       |-> IF new.by       = seen.by       THEN step.by       ELSE new.by]

\* Updating a step that was deleted meanwhile fails, so only a Rollback is left.
Commit(s) ==
    LET q == req[s] IN
    /\ Busy(s)
    /\ q.replaces \/ q.steps = q.was.steps \/ chain.gen = q.was.gen
    /\ inv' = Flush(inv, q.seen, q.new)
    /\ chain' = IF q.replaces THEN [gen |-> chain.gen + 1, steps |-> q.steps]
                ELSE IF q.steps = q.was.steps THEN chain
                ELSE [chain EXCEPT !.steps =
                        [k \in DOMAIN @ |-> FlushStep(@[k], q.was.steps[k], q.steps[k])]]
    /\ view' = [u \in User |->
         [view[u] EXCEPT !.current = @ /\ [inv' EXCEPT !.version = inv.version] = inv
                                       /\ chain'.steps = chain.steps]]
    /\ req' = [req EXCEPT ![s] = NoRequest]

Rollback(s) ==
    /\ Busy(s)
    /\ req' = [req EXCEPT ![s] = NoRequest]
    /\ UNCHANGED <<inv, chain, view>>

\* get_review.
Read(u) ==
    /\ view' = [view EXCEPT ![u] = [version |-> inv.version, current |-> TRUE]]
    /\ UNCHANGED <<inv, chain, req>>

----------------------------------------------------------------------------
Init ==
    /\ inv = [state |-> "draft", version |-> 1, rev |-> 0, submitter |-> NoUser, locked |-> FALSE]
    /\ chain = [gen |-> 0, steps |-> <<>>]
    /\ view = [u \in User |-> [version |-> 0, current |-> FALSE]]
    /\ req = [s \in Slot |-> NoRequest]

UserRequest(s, u) ==
    \/ LoadEdit(s, u) \/ LoadSubmit(s, u)
    \/ LoadApprove(s, u) \/ LoadReject(s, u) \/ LoadReturn(s, u)
    \/ \E k \in DOMAIN chain.steps, a \in User \cup {Anyone} : LoadReassign(s, u, k, a)
    \/ \E target \in Target : LoadTransition(s, u, target)

Next ==
    \/ \E s \in Slot : (\E u \in User : UserRequest(s, u)) \/ Commit(s) \/ Rollback(s)
    \/ \E u \in User : Read(u)

Spec == Init /\ [][Next]_vars

----------------------------------------------------------------------------
(* Properties. *)

\* The type invariant: row, steps and requests are well formed, and a decided
\* step names who decided it.
TypeOK ==
    /\ inv \in Row
    /\ chain \in [gen : Nat, steps : Seq(Step)]
    /\ view \in [User -> [version : Nat, current : BOOLEAN]]
    /\ \A s \in Slot : Busy(s) =>
         req[s] \in [seen : Row, new : Row, was : [gen : Nat, steps : Seq(Step)],
                     steps : Seq(Step), replaces : BOOLEAN]
    /\ \A k \in DOMAIN chain.steps :
         chain.steps[k].by # NoUser <=> chain.steps[k].status \in {"approved", "rejected"}

\* The version stands for everything a reviewer saw (assert_version): whoever
\* still holds the current version has seen the current content, state and
\* chain, so no decision is ever taken on an invoice that has moved on.
VersionIsSnapshot ==
    \A u \in User : view[u].version = inv.version => view[u].current

\* Segregation of duties on the chain: whatever was returned, resubmitted by
\* somebody else, or reassigned in between, a step was decided by a user it was
\* assigned to who had not submitted the invoice, or by a platform administrator.
DecisionsSegregated ==
    \A k \in DOMAIN chain.steps :
        LET step == chain.steps[k] IN
        step.by \in User \ Admin => step.by # inv.submitter /\ step.approver \in {Anyone, step.by}

\* Steps are decided in their order, and nothing is decided after a rejection.
ChainInOrder ==
    \A j, k \in DOMAIN chain.steps :
        j < k /\ chain.steps[k].by # NoUser => chain.steps[j].status = "approved"

\* The chain is well formed, decided in order and by the right people
\* (pending_step, skip_pending, _guard_decider), through returns, resubmissions
\* and reassignments.
ChainSound == TypeOK /\ ChainInOrder /\ DecisionsSegregated

\* A pending step can be approved: the state its approval leads to is one the
\* lifecycle graph admits, so the chain can advance to its last step.
ChainCanAdvance ==
    inv.state = ChainState(chain.steps) /\ inv.state \in AwaitingApproval =>
        \A u \in User : CanTransition(inv.state,
            ChainState(Decided(chain.steps, PendingStep(chain.steps), "approved", u)))
=============================================================================
