---------------------------- MODULE MCBackground ----------------------------
(***************************************************************************)
(* Instances of Background for TLC.                                        *)
(***************************************************************************)
EXTENDS Background

CONSTANTS w1, w2, c1, c2, r1, r2, primary, resend, d1, paid

TwoWorkers == {w1, w2}
TwoClients == {c1, c2}
TwoRuns == {r1, r2}
TwoMails == {primary, resend}
Paid == {paid}
TwoRows == {1, 2}

Mails2 == (TwoRuns \X {1, 2}) \cup TwoMails
Jobs == {<<"mail", m, g>> : m \in TwoRuns \X {1, 2}, g \in 0 .. MaxGen}
          \cup {<<"mail", m, 0>> : m \in TwoMails}
          \cup {<<"extract", d1, n>> : n \in 0 .. MaxSeq}
          \cup {<<"hook", e, d>> : e \in Paid, d \in TwoRows}

\* A rule with two mails and no direct action, and one with a mail and a note.
Rules == {[policy |-> "once_per_record", mails |-> 2, note |-> FALSE, faults |-> 1],
          [policy |-> "every_time", mails |-> 1, note |-> TRUE, faults |-> 2]}
=============================================================================
