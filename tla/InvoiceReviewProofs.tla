------------------------- MODULE InvoiceReviewProofs -------------------------
(***************************************************************************)
(* What TLAPS proves of InvoiceReview for any people, administrators,      *)
(* chains of approvers, targets, versions and slots, when requests do not  *)
(* overlap (Serial): two overlapping edits both pass the version gate.     *)
(***************************************************************************)
EXTENDS InvoiceReview, WellFoundedInduction, TLAPS

Serial == ~Overlap

----------------------------------------------------------------------------
(* The inductive invariant. *)

ChainRow == [gen : Nat, steps : Seq(Step)]

\* A chain that is sound for an invoice submitted by `submitter`: a decided step
\* names who decided it; steps are decided in their order, by people other than
\* the submitter; and while one is pending none is rejected or skipped.
SoundSteps(submitter, steps) ==
    /\ \A k \in DOMAIN steps :
         /\ steps[k].by # NoUser <=> steps[k].status \in {"approved", "rejected"}
         /\ steps[k].by \in User \ Admin =>
              steps[k].by # submitter /\ steps[k].approver \in {Anyone, steps[k].by}
    /\ \A j, k \in DOMAIN steps : j < k /\ steps[k].by # NoUser => steps[j].status = "approved"
    /\ \A j, k \in DOMAIN steps :
         steps[j].status = "pending" => steps[k].status \in {"pending", "approved"}

\* What a request leaves behind, if it commits.
Outcome(new, steps, replaces) ==
    /\ new \in Row /\ new.version = inv.version + 1
    /\ steps \in Seq(Step) /\ SoundSteps(new.submitter, steps)
    /\ replaces \in BOOLEAN
    /\ ~replaces => DOMAIN steps = DOMAIN chain.steps

\* The one request in flight has loaded what is stored.
ReqInv ==
    /\ req = [s \in Slot |-> req[s]]
    /\ \A s \in Slot : Busy(s) =>
         /\ req[s] = [seen |-> inv, new |-> req[s].new, was |-> chain, steps |-> req[s].steps,
                      replaces |-> req[s].replaces]
         /\ Outcome(req[s].new, req[s].steps, req[s].replaces)
    /\ \A s, t \in Slot : Busy(s) /\ Busy(t) => s = t

\* Nobody has read a version that is still to come, or the current one in an
\* older shape.
ViewInv ==
    /\ view \in [User -> [version : Nat, current : BOOLEAN]]
    /\ \A u \in User :
         /\ view[u].version <= inv.version
         /\ view[u].version = inv.version => view[u].current

Inv ==
    /\ inv \in Row
    /\ chain \in ChainRow
    /\ SoundSteps(inv.submitter, chain.steps)
    /\ ViewInv
    /\ ReqInv

----------------------------------------------------------------------------
(* The chain of approvers. *)

\* Every set of numbers has a least one.
LEMMA Least ==
    ASSUME NEW S \in SUBSET Nat, S # {}
    PROVE  \E n \in S : \A m \in S : n <= m
<1>1. PICK n \in S : \A m \in S : ~(<<m, n>> \in OpToRel(<, Nat))
  BY NatLessThanWellFounded, WFMin
<1>2. \A m \in S : ~(m < n)
  BY <1>1 DEF OpToRel
<1> QED
  BY <1>2

LEMMA SeqOnDomain ==
    ASSUME NEW S, NEW T, NEW steps \in Seq(T), NEW f \in [DOMAIN steps -> S]
    PROVE  f \in Seq(S) /\ DOMAIN f = DOMAIN steps
OBVIOUS

\* pending_step: it exists, and everything before it was approved.
LEMMA PendingStepSound ==
    ASSUME NEW steps \in Seq(Step), NEW submitter, SoundSteps(submitter, steps),
           With(steps, "pending") # {}
    PROVE  LET k == PendingStep(steps) IN
           /\ k \in DOMAIN steps /\ steps[k].status = "pending"
           /\ \A j \in DOMAIN steps : j < k => steps[j].status = "approved"
<1> DEFINE k == PendingStep(steps)
<1>1. With(steps, "pending") \in SUBSET Nat
  BY DEF With
<1>2. k \in With(steps, "pending") /\ \A j \in With(steps, "pending") : k <= j
  BY <1>1, Least DEF PendingStep
<1>3. \A j \in DOMAIN steps : j < k => steps[j].status # "pending"
  BY <1>1, <1>2 DEF With
<1> QED
  BY <1>2, <1>3 DEF With, SoundSteps

LEMMA BuildChainSound ==
    ASSUME NEW approvers \in Seq(User \cup {Anyone}), NEW submitter
    PROVE  BuildChain(approvers) \in Seq(Step) /\ SoundSteps(submitter, BuildChain(approvers))
<1> DEFINE steps == BuildChain(approvers)
<1>1. \A k \in DOMAIN approvers :
        [approver |-> approvers[k], status |-> "pending", by |-> NoUser] \in Step
  BY DEF Step
<1>2. steps \in [DOMAIN approvers -> Step]
  BY <1>1 DEF BuildChain
<1>3. steps \in Seq(Step) /\ DOMAIN steps = DOMAIN approvers
  BY <1>2, SeqOnDomain
<1>4. \A k \in DOMAIN steps : steps[k].status = "pending" /\ steps[k].by = NoUser
  BY <1>3 DEF BuildChain
<1> QED
  BY <1>3, <1>4, ReviewAssumption DEF SoundSteps

LEMMA DecidedIs ==
    ASSUME NEW steps \in Seq(Step), NEW k \in DOMAIN steps, NEW u \in User,
           NEW status \in {"approved", "rejected"}
    PROVE  LET new == Decided(steps, k, status, u) IN
           /\ new \in Seq(Step) /\ DOMAIN new = DOMAIN steps
           /\ new[k].status = status /\ new[k].by = u /\ new[k].approver = steps[k].approver
           /\ \A j \in DOMAIN steps \ {k} : new[j] = steps[j]
<1> DEFINE new == Decided(steps, k, status, u)
           row == [steps[k] EXCEPT !.status = status, !.by = u]
<1>1. steps[k] \in Step
  OBVIOUS
<1>2. row \in Step /\ row.status = status /\ row.by = u /\ row.approver = steps[k].approver
  BY <1>1 DEF Step
<1>3. new = [steps EXCEPT ![k] = row]
  BY <1>1 DEF Decided, Step
<1> HIDE DEF row, new
<1>4. new \in Seq(Step) /\ DOMAIN new = DOMAIN steps /\ new[k] = row
      /\ \A j \in DOMAIN steps \ {k} : new[j] = steps[j]
  BY <1>2, <1>3
<1> QED
  BY <1>2, <1>4 DEF new

LEMMA SkipPendingIs ==
    ASSUME NEW steps \in Seq(Step)
    PROVE  LET new == SkipPending(steps) IN
           /\ new \in Seq(Step) /\ DOMAIN new = DOMAIN steps
           /\ \A k \in DOMAIN steps :
                /\ new[k].by = steps[k].by /\ new[k].approver = steps[k].approver
                /\ new[k].status = IF steps[k].status = "pending" THEN "skipped" ELSE steps[k].status
<1> DEFINE new == SkipPending(steps)
           row(k) == IF steps[k].status = "pending" THEN [steps[k] EXCEPT !.status = "skipped"]
                     ELSE steps[k]
<1>1. ASSUME NEW k \in DOMAIN steps
      PROVE  /\ row(k) \in Step
             /\ row(k).by = steps[k].by /\ row(k).approver = steps[k].approver
             /\ row(k).status = IF steps[k].status = "pending" THEN "skipped" ELSE steps[k].status
  <2>1. steps[k] \in Step
    OBVIOUS
  <2> QED
    BY <2>1 DEF Step
<1>2. new = [k \in DOMAIN steps |-> row(k)]
  BY DEF SkipPending
<1> HIDE DEF row, new
<1>3. new \in [DOMAIN steps -> Step]
  BY <1>1, <1>2
<1>4. new \in Seq(Step) /\ DOMAIN new = DOMAIN steps
  BY <1>3, SeqOnDomain
<1> QED
  BY <1>1, <1>2, <1>4 DEF new

\* skip_pending.
LEMMA SkipPendingSound ==
    ASSUME NEW steps \in Seq(Step), NEW submitter,
           /\ \A k \in DOMAIN steps :
                /\ steps[k].by # NoUser <=> steps[k].status \in {"approved", "rejected"}
                /\ steps[k].by \in User \ Admin =>
                     steps[k].by # submitter /\ steps[k].approver \in {Anyone, steps[k].by}
           /\ \A j, k \in DOMAIN steps : j < k /\ steps[k].by # NoUser => steps[j].status = "approved"
    PROVE  SkipPending(steps) \in Seq(Step) /\ SoundSteps(submitter, SkipPending(steps))
<1> DEFINE new == SkipPending(steps)
<1>1. /\ new \in Seq(Step) /\ DOMAIN new = DOMAIN steps
      /\ \A k \in DOMAIN steps :
           /\ new[k].by = steps[k].by /\ new[k].approver = steps[k].approver
           /\ new[k].status = IF steps[k].status = "pending" THEN "skipped" ELSE steps[k].status
  BY SkipPendingIs
<1> HIDE DEF new
<1>2. /\ \A k \in DOMAIN new :
           /\ new[k].by # NoUser <=> new[k].status \in {"approved", "rejected"}
           /\ new[k].by \in User \ Admin =>
                new[k].by # submitter /\ new[k].approver \in {Anyone, new[k].by}
      /\ \A k \in DOMAIN new : new[k].status # "pending"
  BY <1>1
<1>3. \A j, k \in DOMAIN new : j < k /\ new[k].by # NoUser => new[j].status = "approved"
  BY <1>1
<1>4. SoundSteps(submitter, new)
  BY <1>2, <1>3 DEF SoundSteps
<1> QED
  BY <1>1, <1>4 DEF new

\* A decision of somebody who may take it (_guard_decider) on the pending step.
LEMMA DecisionSound ==
    ASSUME inv \in Row, chain \in ChainRow, SoundSteps(inv.submitter, chain.steps),
           NEW u \in User, Deciding(u), NEW status \in {"approved", "rejected"}
    PROVE  LET new == Decided(chain.steps, PendingStep(chain.steps), status, u) IN
           /\ new \in Seq(Step) /\ DOMAIN new = DOMAIN chain.steps
           /\ \A k \in DOMAIN new :
                /\ new[k].by # NoUser <=> new[k].status \in {"approved", "rejected"}
                /\ new[k].by \in User \ Admin =>
                     new[k].by # inv.submitter /\ new[k].approver \in {Anyone, new[k].by}
           /\ \A j, k \in DOMAIN new : j < k /\ new[k].by # NoUser => new[j].status = "approved"
           /\ status = "approved" => SoundSteps(inv.submitter, new)
<1> DEFINE steps == chain.steps
           p == PendingStep(steps)
           new == Decided(steps, p, status, u)
<1>1. steps \in Seq(Step)
  BY DEF ChainRow
<1>2. p \in DOMAIN steps /\ steps[p].status = "pending"
      /\ \A j \in DOMAIN steps : j < p => steps[j].status = "approved"
  BY <1>1, PendingStepSound DEF Deciding
<1>3. /\ new \in Seq(Step) /\ DOMAIN new = DOMAIN steps
      /\ new[p].status = status /\ new[p].by = u /\ new[p].approver = steps[p].approver
      /\ \A j \in DOMAIN steps \ {p} : new[j] = steps[j]
  BY <1>1, <1>2, DecidedIs
<1>4. u \notin Admin => u # inv.submitter /\ steps[p].approver \in {Anyone, u}
  BY DEF Deciding, MayDecide, IsAssignedApprover
<1>5. DOMAIN steps \subseteq Nat /\ p \in Nat
  BY <1>1, <1>2
<1> HIDE DEF new, p
<1>6. \A k \in DOMAIN new :
         /\ new[k].by # NoUser <=> new[k].status \in {"approved", "rejected"}
         /\ new[k].by \in User \ Admin =>
              new[k].by # inv.submitter /\ new[k].approver \in {Anyone, new[k].by}
  BY <1>2, <1>3, <1>4, ReviewAssumption DEF SoundSteps
<1>7. ASSUME NEW j \in DOMAIN new, NEW k \in DOMAIN new, j < k, new[k].by # NoUser
      PROVE  new[j].status = "approved"
  <2>1. CASE k = p
    BY <1>2, <1>3, <1>5, <1>7, <2>1
  <2>2. CASE k # p
    <3>1. steps[k].by # NoUser
      BY <1>3, <1>7, <2>2
    <3>2. steps[j].status = "approved"
      BY <1>3, <1>7, <3>1 DEF SoundSteps
    <3>3. j # p
      BY <1>2, <3>2
    <3> QED
      BY <1>3, <1>7, <3>2, <3>3
  <2> QED
    BY <2>1, <2>2
<1>8. ASSUME status = "approved"
      PROVE  \A j, k \in DOMAIN new :
               new[j].status = "pending" => new[k].status \in {"pending", "approved"}
  BY <1>2, <1>3, <1>8 DEF SoundSteps
<1>9. status = "approved" => SoundSteps(inv.submitter, new)
  BY <1>6, <1>7, <1>8 DEF SoundSteps
<1> QED
  BY <1>3, <1>6, <1>7, <1>9 DEF new, p

----------------------------------------------------------------------------
(* The loads: what every request would leave behind is sound. *)

LEMMA InvInit == Init => Inv
<1> SUFFICES ASSUME Init PROVE Inv
  OBVIOUS
<1>1. inv \in Row
  BY DEF Init, Row, WorkflowState
<1>2. chain \in ChainRow /\ DOMAIN chain.steps = {}
  BY DEF Init, ChainRow
<1>3. SoundSteps(inv.submitter, chain.steps)
  BY <1>2 DEF SoundSteps
<1>4. ViewInv
  BY DEF Init, ViewInv
<1>5. ReqInv
  BY DEF Init, ReqInv, Busy
<1> QED
  BY <1>1, <1>2, <1>3, <1>4, <1>5 DEF Inv

\* The outcome of a request that moves the invoice to `state`, leaves the steps
\* `steps`, and what else it changes.
LEMMA OutcomeOf ==
    ASSUME inv \in Row, NEW new, NEW steps, NEW replaces \in BOOLEAN,
           new \in [state : WorkflowState, version : {inv.version}, rev : Nat,
                    submitter : User \cup {NoUser}, locked : BOOLEAN],
           steps \in Seq(Step), SoundSteps(new.submitter, steps),
           ~replaces => DOMAIN steps = DOMAIN chain.steps
    PROVE  Outcome(Bump(new), steps, replaces)
<1>1. inv.version + 1 \in Nat
  BY DEF Row
<1>2. Bump(new) \in Row /\ Bump(new).version = inv.version + 1 /\ Bump(new).submitter = new.submitter
  BY <1>1 DEF Bump, Row
<1> QED
  BY <1>2 DEF Outcome

LEMMA ChainStateIsState ==
    ASSUME NEW steps
    PROVE  ChainState(steps) \in WorkflowState
BY DEF ChainState, WorkflowState

LEMMA BeginKeeps ==
    ASSUME Serial, Inv, NEW s \in Slot, NEW u \in User, NEW new, NEW steps, NEW replaces,
           Begin(s, u, new, steps, replaces), Outcome(new, steps, replaces)
    PROVE  Inv'
<1>1. inv' = inv /\ chain' = chain /\ view' = view
  BY DEF Begin
<1>2. \A t \in Slot : ~Busy(t)
  BY DEF Begin, Serial
<1> DEFINE q == [seen |-> inv, new |-> new, was |-> chain, steps |-> steps, replaces |-> replaces]
<1>3. req' = [t \in Slot |-> req'[t]] /\ req'[s] = q /\ \A t \in Slot \ {s} : req'[t] = req[t]
  BY DEF Begin, Inv, ReqInv
<1>4. \A t \in Slot : Busy(t)' => t = s
  BY <1>2, <1>3 DEF Busy
<1>5. q.new = new /\ q.steps = steps /\ q.replaces = replaces
  OBVIOUS
<1>6. Outcome(new, steps, replaces)'
  BY <1>1 DEF Outcome, SoundSteps
<1>7. ReqInv'
  <2> SUFFICES ASSUME NEW t \in Slot, Busy(t)'
               PROVE  /\ req'[t] = [seen |-> inv', new |-> req'[t].new, was |-> chain',
                                    steps |-> req'[t].steps, replaces |-> req'[t].replaces]
                      /\ Outcome(req[t].new, req[t].steps, req[t].replaces)'
    BY <1>3, <1>4 DEF ReqInv
  <2>1. req'[t] = q
    BY <1>3, <1>4
  <2>2. (req[t].new)' = new /\ (req[t].steps)' = steps /\ (req[t].replaces)' = replaces
    BY <1>5, <2>1
  <2> QED
    BY <1>1, <2>1, <2>2 DEF Outcome, SoundSteps
<1>8. ViewInv'
  BY <1>1 DEF Inv, ViewInv
<1>9. SoundSteps(inv.submitter, chain.steps)'
  BY <1>1 DEF Inv, SoundSteps
<1> QED
  BY <1>1, <1>7, <1>8, <1>9 DEF Inv

LEMMA EditKeeps ==
    ASSUME Serial, Inv, NEW s \in Slot, NEW u \in User, LoadEdit(s, u)
    PROVE  Inv'
<1> DEFINE new == [inv EXCEPT !.rev = @ + 1]
<1>1. new \in [state : WorkflowState, version : {inv.version}, rev : Nat,
               submitter : User \cup {NoUser}, locked : BOOLEAN]
      /\ new.submitter = inv.submitter
  BY DEF Inv, Row
<1>2. chain.steps \in Seq(Step)
  BY DEF Inv, ChainRow
<1>3. Begin(s, u, Bump(new), chain.steps, FALSE)
  BY DEF LoadEdit
<1> HIDE DEF new
<1>4. Outcome(Bump(new), chain.steps, FALSE)
  BY <1>1, <1>2, OutcomeOf DEF Inv
<1> QED
  BY <1>3, <1>4, BeginKeeps

LEMMA SubmitKeeps ==
    ASSUME Serial, Inv, NEW s \in Slot, NEW u \in User, LoadSubmit(s, u)
    PROVE  Inv'
<1>1. PICK approvers \in Chains :
        LET steps == BuildChain(approvers) IN
        Begin(s, u, Bump([inv EXCEPT !.state = ChainState(steps), !.submitter = u]), steps, TRUE)
  BY DEF LoadSubmit
<1> DEFINE steps == BuildChain(approvers)
           new == [inv EXCEPT !.state = ChainState(steps), !.submitter = u]
<1>2. Begin(s, u, Bump(new), steps, TRUE)
  BY <1>1
<1>3. steps \in Seq(Step) /\ SoundSteps(u, steps)
  BY BuildChainSound, ReviewAssumption
<1>4. ChainState(steps) \in WorkflowState
  BY ChainStateIsState
<1> HIDE DEF steps
<1>5. new \in [state : WorkflowState, version : {inv.version}, rev : Nat,
               submitter : User \cup {NoUser}, locked : BOOLEAN]
      /\ new.submitter = u
  BY <1>4 DEF Inv, Row
<1> HIDE DEF new
<1>6. Outcome(Bump(new), steps, TRUE)
  BY <1>3, <1>5, OutcomeOf DEF Inv
<1> QED
  BY <1>2, <1>6, BeginKeeps

LEMMA ApproveKeeps ==
    ASSUME Serial, Inv, NEW s \in Slot, NEW u \in User, LoadApprove(s, u)
    PROVE  Inv'
<1> DEFINE steps == Decided(chain.steps, PendingStep(chain.steps), "approved", u)
           to == ChainState(steps)
           new == [inv EXCEPT !.state = to, !.locked = @ \/ to = "approved"]
<1>1. Begin(s, u, Bump(new), steps, FALSE) /\ Deciding(u)
  BY DEF LoadApprove
<1>2. steps \in Seq(Step) /\ DOMAIN steps = DOMAIN chain.steps /\ SoundSteps(inv.submitter, steps)
  BY <1>1, DecisionSound DEF Inv
<1>3. to \in WorkflowState
  BY ChainStateIsState
<1> HIDE DEF steps, to
<1>4. new \in [state : WorkflowState, version : {inv.version}, rev : Nat,
               submitter : User \cup {NoUser}, locked : BOOLEAN]
      /\ new.submitter = inv.submitter
  BY <1>3 DEF Inv, Row
<1> HIDE DEF new
<1>5. Outcome(Bump(new), steps, FALSE)
  BY <1>2, <1>4, OutcomeOf DEF Inv
<1> QED
  BY <1>1, <1>5, BeginKeeps

LEMMA RejectKeeps ==
    ASSUME Serial, Inv, NEW s \in Slot, NEW u \in User, LoadReject(s, u)
    PROVE  Inv'
<1> DEFINE decided == Decided(chain.steps, PendingStep(chain.steps), "rejected", u)
           steps == SkipPending(decided)
           new == [inv EXCEPT !.state = "rejected"]
<1>1. Begin(s, u, Bump(new), steps, FALSE) /\ Deciding(u)
  BY DEF LoadReject
<1>2. /\ decided \in Seq(Step) /\ DOMAIN decided = DOMAIN chain.steps
      /\ \A k \in DOMAIN decided :
           /\ decided[k].by # NoUser <=> decided[k].status \in {"approved", "rejected"}
           /\ decided[k].by \in User \ Admin =>
                decided[k].by # inv.submitter /\ decided[k].approver \in {Anyone, decided[k].by}
      /\ \A j, k \in DOMAIN decided :
           j < k /\ decided[k].by # NoUser => decided[j].status = "approved"
  BY <1>1, DecisionSound DEF Inv
<1> HIDE DEF decided
<1>3. steps \in Seq(Step) /\ SoundSteps(inv.submitter, steps)
  BY <1>2, SkipPendingSound
<1>4. DOMAIN steps = DOMAIN chain.steps
  BY <1>2, SkipPendingIs
<1>5. new \in [state : WorkflowState, version : {inv.version}, rev : Nat,
               submitter : User \cup {NoUser}, locked : BOOLEAN]
      /\ new.submitter = inv.submitter
  BY DEF Inv, Row, WorkflowState
<1> HIDE DEF new, steps
<1>6. Outcome(Bump(new), steps, FALSE)
  BY <1>3, <1>4, <1>5, OutcomeOf DEF Inv
<1> QED
  BY <1>1, <1>6, BeginKeeps

LEMMA ReturnKeeps ==
    ASSUME Serial, Inv, NEW s \in Slot, NEW u \in User, LoadReturn(s, u)
    PROVE  Inv'
<1> DEFINE steps == SkipPending(chain.steps)
           new == [inv EXCEPT !.state = "draft"]
<1>1. Begin(s, u, Bump(new), steps, FALSE)
  BY DEF LoadReturn
<1>2. chain.steps \in Seq(Step)
  BY DEF Inv, ChainRow
<1>3. steps \in Seq(Step) /\ SoundSteps(inv.submitter, steps)
  <2> DEFINE old == chain.steps
  <2>1. old \in Seq(Step) /\ SoundSteps(inv.submitter, old)
    BY <1>2 DEF Inv
  <2> HIDE DEF old
  <2>2. /\ \A k \in DOMAIN old :
             /\ old[k].by # NoUser <=> old[k].status \in {"approved", "rejected"}
             /\ old[k].by \in User \ Admin =>
                  old[k].by # inv.submitter /\ old[k].approver \in {Anyone, old[k].by}
        /\ \A j, k \in DOMAIN old : j < k /\ old[k].by # NoUser => old[j].status = "approved"
    BY <2>1 DEF SoundSteps
  <2> QED
    BY <2>1, <2>2, SkipPendingSound DEF old
<1>4. DOMAIN steps = DOMAIN chain.steps
  BY <1>2, SkipPendingIs
<1>5. new \in [state : WorkflowState, version : {inv.version}, rev : Nat,
               submitter : User \cup {NoUser}, locked : BOOLEAN]
      /\ new.submitter = inv.submitter
  BY DEF Inv, Row, WorkflowState
<1> HIDE DEF new, steps
<1>6. Outcome(Bump(new), steps, FALSE)
  BY <1>3, <1>4, <1>5, OutcomeOf DEF Inv
<1> QED
  BY <1>1, <1>6, BeginKeeps

LEMMA ReassignKeeps ==
    ASSUME Serial, Inv, NEW s \in Slot, NEW u \in User, NEW p \in DOMAIN chain.steps,
           NEW a \in User \cup {Anyone}, LoadReassign(s, u, p, a)
    PROVE  Inv'
<1> DEFINE row == [chain.steps[p] EXCEPT !.approver = a]
           steps == [chain.steps EXCEPT ![p] = row]
<1>1. Begin(s, u, Bump(inv), steps, FALSE) /\ chain.steps[p].status = "pending"
  BY DEF LoadReassign, With
<1>2. chain.steps \in Seq(Step)
  BY DEF Inv, ChainRow
<1>3. chain.steps[p] \in Step
  BY <1>2
<1>4. row \in Step /\ row.status = "pending" /\ row.by = chain.steps[p].by
  BY <1>1, <1>3 DEF Step
<1> HIDE DEF row
<1>5. /\ steps \in Seq(Step) /\ DOMAIN steps = DOMAIN chain.steps
      /\ steps[p] = row /\ \A k \in DOMAIN steps \ {p} : steps[k] = chain.steps[k]
  BY <1>2, <1>4
<1> HIDE DEF steps
<1>6. chain.steps[p].by = NoUser /\ SoundSteps(inv.submitter, chain.steps)
  BY <1>1 DEF Inv, SoundSteps
<1>7. SoundSteps(inv.submitter, steps)
  BY <1>1, <1>4, <1>5, <1>6, ReviewAssumption DEF SoundSteps
<1>8. inv \in [state : WorkflowState, version : {inv.version}, rev : Nat,
               submitter : User \cup {NoUser}, locked : BOOLEAN]
  BY DEF Inv, Row
<1>9. Outcome(Bump(inv), steps, FALSE)
  BY <1>5, <1>7, <1>8, OutcomeOf DEF Inv
<1> QED
  BY <1>1, <1>9, BeginKeeps

LEMMA TransitionKeeps ==
    ASSUME Serial, Inv, NEW s \in Slot, NEW u \in User, NEW target \in Target,
           LoadTransition(s, u, target)
    PROVE  Inv'
<1>1. CASE target = "draft"
  <2> DEFINE new == [inv EXCEPT !.state = "draft", !.submitter = NoUser, !.locked = FALSE]
  <2>1. Begin(s, u, Bump(new), <<>>, TRUE)
    BY <1>1 DEF LoadTransition
  <2>2. new \in [state : WorkflowState, version : {inv.version}, rev : Nat,
                 submitter : User \cup {NoUser}, locked : BOOLEAN]
    BY DEF Inv, Row, WorkflowState
  <2>3. <<>> \in Seq(Step) /\ \A submitter : SoundSteps(submitter, <<>>)
    BY DEF SoundSteps
  <2> HIDE DEF new
  <2>4. Outcome(Bump(new), <<>>, TRUE)
    BY <2>2, <2>3, OutcomeOf DEF Inv
  <2> QED
    BY <2>1, <2>4, BeginKeeps
<1>2. CASE target # "draft"
  <2> DEFINE new == [inv EXCEPT !.state = target]
  <2>1. Begin(s, u, Bump(new), chain.steps, FALSE)
    BY <1>2 DEF LoadTransition
  <2>2. new \in [state : WorkflowState, version : {inv.version}, rev : Nat,
                 submitter : User \cup {NoUser}, locked : BOOLEAN]
        /\ new.submitter = inv.submitter
    BY ReviewAssumption DEF Inv, Row
  <2>3. chain.steps \in Seq(Step)
    BY DEF Inv, ChainRow
  <2> HIDE DEF new
  <2>4. Outcome(Bump(new), chain.steps, FALSE)
    BY <2>2, <2>3, OutcomeOf DEF Inv
  <2> QED
    BY <2>1, <2>4, BeginKeeps
<1> QED
  BY <1>1, <1>2

----------------------------------------------------------------------------
(* The ends of a request. *)

\* The flush of the one request in flight stores what it holds.
LEMMA CommitStores ==
    ASSUME Inv, NEW s \in Slot, Commit(s)
    PROVE  /\ inv' = req[s].new
           /\ chain'.steps = req[s].steps /\ chain' \in ChainRow
<1> DEFINE q == req[s]
<1>1. /\ q = [seen |-> inv, new |-> q.new, was |-> chain, steps |-> q.steps, replaces |-> q.replaces]
      /\ Outcome(q.new, q.steps, q.replaces)
  BY DEF Commit, Inv, ReqInv
<1>2. q.seen = inv /\ q.was = chain
  BY <1>1
<1>3. /\ inv' = Flush(inv, q.seen, q.new)
      /\ chain' = IF q.replaces THEN [gen |-> chain.gen + 1, steps |-> q.steps]
                  ELSE IF q.steps = q.was.steps THEN chain
                  ELSE [chain EXCEPT !.steps =
                          [k \in DOMAIN chain.steps |-> FlushStep(chain.steps[k], q.was.steps[k], q.steps[k])]]
  BY DEF Commit
<1> HIDE DEF q
<1>4. inv' = q.new
  <2>1. q.new \in Row
    BY <1>1 DEF Outcome
  <2>2. q.new = [state |-> q.new.state, version |-> q.new.version, rev |-> q.new.rev,
                 submitter |-> q.new.submitter, locked |-> q.new.locked]
    BY <2>1 DEF Row
  <2>3. inv' = [state |-> q.new.state, version |-> q.new.version, rev |-> q.new.rev,
                submitter |-> q.new.submitter, locked |-> q.new.locked]
    BY <1>2, <1>3 DEF Flush
  <2> QED
    BY <2>2, <2>3
<1>5. chain'.steps = q.steps /\ chain' \in ChainRow
  <2>1. chain \in ChainRow /\ chain.gen + 1 \in Nat /\ q.steps \in Seq(Step) /\ chain.steps \in Seq(Step)
    BY <1>1 DEF Inv, ChainRow, Outcome
  <2>2. CASE q.replaces
    BY <1>3, <2>1, <2>2 DEF ChainRow
  <2>3. CASE ~q.replaces /\ q.steps = chain.steps
    BY <1>2, <1>3, <2>1, <2>3
  <2>4. CASE ~q.replaces /\ q.steps # chain.steps
    <3> DEFINE steps == [k \in DOMAIN chain.steps |-> FlushStep(chain.steps[k], chain.steps[k], q.steps[k])]
    <3>1. chain' = [chain EXCEPT !.steps = steps]
      BY <1>2, <1>3, <2>4
    <3>2. DOMAIN q.steps = DOMAIN chain.steps
      BY <1>1, <2>4 DEF Outcome
    <3>3. ASSUME NEW k \in DOMAIN q.steps
          PROVE  FlushStep(chain.steps[k], chain.steps[k], q.steps[k]) = q.steps[k]
      <4>1. q.steps[k] \in Step
        BY <2>1
      <4>2. q.steps[k] = [approver |-> q.steps[k].approver, status |-> q.steps[k].status, by |-> q.steps[k].by]
        BY <4>1 DEF Step
      <4>3. FlushStep(chain.steps[k], chain.steps[k], q.steps[k])
              = [approver |-> q.steps[k].approver, status |-> q.steps[k].status, by |-> q.steps[k].by]
        BY DEF FlushStep
      <4> QED
        BY <4>2, <4>3
    <3>4. steps = [k \in DOMAIN q.steps |-> q.steps[k]]
      BY <3>2, <3>3
    <3>5. q.steps = [k \in DOMAIN q.steps |-> q.steps[k]]
      BY <2>1
    <3> HIDE DEF steps
    <3>6. steps = q.steps
      BY <3>4, <3>5
    <3> QED
      BY <2>1, <3>1, <3>6 DEF ChainRow
  <2> QED
    BY <2>2, <2>3, <2>4
<1> QED
  BY <1>4, <1>5 DEF q

LEMMA CommitKeeps ==
    ASSUME Inv, NEW s \in Slot, Commit(s)
    PROVE  Inv'
<1>1. /\ inv' = req[s].new
      /\ chain'.steps = req[s].steps /\ chain' \in ChainRow
      /\ Outcome(req[s].new, req[s].steps, req[s].replaces)
  BY CommitStores DEF Commit, Inv, ReqInv
<1>2. inv' \in Row /\ inv'.version = inv.version + 1 /\ SoundSteps(inv.submitter, chain.steps)'
  BY <1>1 DEF Outcome, SoundSteps
<1>3. \A t \in Slot : ~Busy(t)'
  BY DEF Commit, Inv, ReqInv, Busy
<1>4. ReqInv'
  BY <1>3 DEF Commit, Inv, ReqInv
<1>5. ViewInv'
  <2> DEFINE same == [inv' EXCEPT !.version = inv.version] = inv /\ chain'.steps = chain.steps
  <2>1. view' = [u \in User |-> [view[u] EXCEPT !.current = @ /\ same]]
    BY DEF Commit
  <2>2. same \in BOOLEAN
    OBVIOUS
  <2> HIDE DEF same
  <2>3. ASSUME NEW u \in User
        PROVE  view'[u] \in [version : Nat, current : BOOLEAN] /\ view'[u].version = view[u].version
    <3>1. view[u] \in [version : Nat, current : BOOLEAN]
      BY DEF Inv, ViewInv
    <3> QED
      BY <2>1, <2>2, <3>1
  <2>4. \A u \in User : view[u].version <= inv.version /\ view[u].version \in Nat /\ inv.version \in Nat
    BY DEF Inv, ViewInv, Row
  <2>5. view' = [u \in User |-> view'[u]]
    BY <2>1
  <2> QED
    BY <1>2, <2>3, <2>4, <2>5 DEF ViewInv
<1> QED
  BY <1>1, <1>2, <1>4, <1>5 DEF Inv

LEMMA RollbackKeeps ==
    ASSUME Inv, NEW s \in Slot, Rollback(s)
    PROVE  Inv'
<1>1. inv' = inv /\ chain' = chain /\ view' = view
  BY DEF Rollback
<1>2. \A t \in Slot : ~Busy(t)'
  BY DEF Rollback, Inv, ReqInv, Busy
<1>3. ReqInv'
  BY <1>2 DEF Rollback, Inv, ReqInv
<1> QED
  BY <1>1, <1>3 DEF Inv, ViewInv, SoundSteps

LEMMA ReadKeeps ==
    ASSUME Inv, NEW u \in User, Read(u)
    PROVE  Inv'
<1>1. inv' = inv /\ chain' = chain /\ req' = req
  BY DEF Read
<1>2. inv.version \in Nat
  BY DEF Inv, Row
<1>3. ViewInv'
  BY <1>1, <1>2 DEF Read, Inv, ViewInv
<1>4. ReqInv'
  BY <1>1 DEF Inv, ReqInv, Busy, Outcome, SoundSteps
<1> QED
  BY <1>1, <1>3, <1>4 DEF Inv, SoundSteps

LEMMA InvNext == Serial /\ Inv /\ [Next]_vars => Inv'
<1> SUFFICES ASSUME Serial, Inv, [Next]_vars PROVE Inv'
  OBVIOUS
<1>1. ASSUME NEW s \in Slot, NEW u \in User, UserRequest(s, u)
      PROVE  Inv'
  BY <1>1, EditKeeps, SubmitKeeps, ApproveKeeps, RejectKeeps, ReturnKeeps, ReassignKeeps,
     TransitionKeeps DEF UserRequest
<1>2. ASSUME NEW s \in Slot, Commit(s) \/ Rollback(s)
      PROVE  Inv'
  BY <1>2, CommitKeeps, RollbackKeeps
<1>3. ASSUME NEW u \in User, Read(u)
      PROVE  Inv'
  BY <1>3, ReadKeeps
<1>4. CASE UNCHANGED vars
  BY <1>4 DEF vars, Inv, ViewInv, ReqInv, Busy, Outcome, SoundSteps
<1> QED
  BY <1>1, <1>2, <1>3, <1>4 DEF Next

----------------------------------------------------------------------------
(* The theorems. *)

LEMMA InvHolds == Serial => (Spec => []Inv)
<1> SUFFICES ASSUME Serial PROVE Spec => []Inv
  OBVIOUS
<1>1. Inv /\ [Next]_vars => Inv'
  BY InvNext
<1> QED
  BY <1>1, InvInit, PTL DEF Spec

\* The version stands for everything a reviewer saw (assert_version): when
\* requests do not overlap, whoever still holds the current version has seen the
\* current content, state and chain.
THEOREM VersionIsSnapshotCorrect == Serial => (Spec => []VersionIsSnapshot)
<1> SUFFICES ASSUME Serial PROVE Spec => []VersionIsSnapshot
  OBVIOUS
<1>1. Spec => []Inv
  BY InvHolds
<1>2. Inv => VersionIsSnapshot
  BY DEF Inv, ViewInv, VersionIsSnapshot
<1> QED
  BY <1>1, <1>2, PTL

\* The chain is well formed, decided in order, and by the people it was assigned
\* to who had not submitted the invoice, or by administrators (pending_step,
\* skip_pending, _guard_decider), when requests do not overlap.
THEOREM ChainSoundCorrect == Serial => (Spec => []ChainSound)
<1> SUFFICES ASSUME Serial PROVE Spec => []ChainSound
  OBVIOUS
<1>1. Spec => []Inv
  BY InvHolds
<1>2. ASSUME Inv
      PROVE  ChainSound
  <2>1. TypeOK
    <3>1. ASSUME NEW s \in Slot, Busy(s)
          PROVE  req[s] \in [seen : Row, new : Row, was : [gen : Nat, steps : Seq(Step)],
                             steps : Seq(Step), replaces : BOOLEAN]
      <4> DEFINE q == req[s]
      <4>1. /\ q = [seen |-> inv, new |-> q.new, was |-> chain, steps |-> q.steps,
                    replaces |-> q.replaces]
            /\ Outcome(q.new, q.steps, q.replaces) /\ inv \in Row /\ chain \in ChainRow
        BY <1>2, <3>1 DEF Inv, ReqInv
      <4> HIDE DEF q
      <4>2. q \in [seen : Row, new : Row, was : ChainRow, steps : Seq(Step), replaces : BOOLEAN]
        BY <4>1 DEF Outcome
      <4> QED
        BY <4>2 DEF ChainRow, q
    <3> QED
      BY <1>2, <3>1 DEF Inv, TypeOK, ChainRow, ViewInv, SoundSteps
  <2>2. ChainInOrder /\ DecisionsSegregated
    BY <1>2 DEF Inv, SoundSteps, ChainInOrder, DecisionsSegregated
  <2> QED
    BY <2>1, <2>2 DEF ChainSound
<1> QED
  BY <1>1, <1>2, PTL
=============================================================================
