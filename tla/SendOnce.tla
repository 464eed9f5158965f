------------------------------ MODULE SendOnce ------------------------------
(***************************************************************************)
(* What a durable outbox promises about a mail: before anything leaves,    *)
(* the intent is committed to an attempt; the attempt sends at most once;  *)
(* no second attempt follows, and only what the relay accepted is called   *)
(* sent, for good.                                                         *)
(***************************************************************************)
EXTENDS Naturals

CONSTANT Msg

VARIABLES
    stage,    \* stage[m]: "open", "committed", "uncertain" or "sent"
    sends     \* sends[m]: how often the relay accepted m

Init ==
    /\ stage = [m \in Msg |-> "open"]
    /\ sends = [m \in Msg |-> 0]

Commit(m) ==
    /\ stage[m] = "open"
    /\ stage' = [stage EXCEPT ![m] = "committed"]
    /\ UNCHANGED sends

\* The thread that talks to the relay may outlive its attempt.
Accept(m) ==
    /\ stage[m] \in {"committed", "uncertain"}
    /\ sends[m] = 0
    /\ sends' = [sends EXCEPT ![m] = 1]
    /\ UNCHANGED stage

\* Nobody knows whether the mail left.
GiveUp(m) ==
    /\ stage[m] = "committed"
    /\ stage' = [stage EXCEPT ![m] = "uncertain"]
    /\ UNCHANGED sends

Confirm(m) ==
    /\ stage[m] \in {"committed", "uncertain"}
    /\ sends[m] = 1
    /\ stage' = [stage EXCEPT ![m] = "sent"]
    /\ UNCHANGED sends

Next == \E m \in Msg : Commit(m) \/ Accept(m) \/ GiveUp(m) \/ Confirm(m)

Spec == Init /\ [][Next]_<<stage, sends>>
=============================================================================
