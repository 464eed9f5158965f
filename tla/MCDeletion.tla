----------------------------- MODULE MCDeletion -----------------------------
(***************************************************************************)
(* Instances of Deletion, with its refund claims, for TLC.                 *)
(***************************************************************************)
EXTENDS Deletion, TLC

CONSTANTS q1, y1, t1, t2, b1, b2, s1, s2, shell

\* A claim for the first quarter (month 1 stands for it) and one for the year.
Claims == {q1, y1}
Annuals == {y1}
Months == q1 :> {1} @@ y1 :> {1, 2}

\* t1 names the bill b1; t2 names no bill.
Txns == {t1, t2}
Month == t1 :> 1 @@ t2 :> 2
Vat == t1 :> 100 @@ t2 :> 400
Bills == {b1, b2}
Suppliers == [x \in Txns \cup Bills |-> shell]
Numbers == t1 :> "n1" @@ t2 :> "n9" @@ b1 :> "n1" @@ b2 :> "n2"

Low == [pct |-> 10, min |-> 20]
High == [pct |-> 20, min |-> 30]
Rates == {Low, High}
TwoSlots == {s1, s2}
ThreeDays == {3}
TwoTiers == {2, 3}
NoneOrTwo == {0, 2}

Standard(r) == [g \in Rung |-> IF g = "org" THEN r ELSE NoRate]
Active == [customer |-> "active", country |-> "active"]
Unknown == [customer |-> "none", country |-> "none"]
Noted == <<shell, "n9">> :> b2

\* Operations on the claims of `open`, of an active customer, whose periods have
\* ended and whose bills are all there.
Work(ops, open) == [ops |-> ops, open |-> open, built |-> {}, rate |-> Standard(Low), party |-> Active,
                    note |-> Noted, ended |-> Claims, papers |-> Bills, slots |-> Slot]
Alone(w) == [w EXCEPT !.slots = {s1}]

Filing == Work({"build", "close", "submit", "withdraw", "decide"}, {y1})
Registering == [Work({"register", "build", "submit"}, {y1}) EXCEPT
                   !.note = <<>>, !.papers = {b1}, !.built = {y1}]
Deciding == [Work({"submit", "withdraw", "decide", "pay", "code"}, {y1}) EXCEPT !.built = {y1}]
Contending == [Work({"submit", "withdraw", "decide"}, Claims) EXCEPT !.built = Claims]
Closing == Alone(Work({"build", "close", "submit", "withdraw", "decide"}, Claims))
Rating == Alone([Work({"build", "submit", "decide", "rate"}, {y1}) EXCEPT !.rate = Standard(NoRate)])
Opening == Alone([Work({"open", "register", "build", "submit"}, {}) EXCEPT !.note = <<>>, !.papers = {}])
Resolving == Alone([Work({"register", "waive", "note", "build", "submit"}, {y1}) EXCEPT
                       !.note = <<>>, !.papers = {}])
Admitting == [Work({"end", "submit", "party"}, {q1}) EXCEPT !.party = Unknown, !.ended = {}, !.built = {q1}]

Binning == Work({"delete", "restore", "bin", "retention", "policy", "hold"}, {})
Archiving == [Work({"delete", "restore", "bin", "archive", "notice", "tier"}, {}) EXCEPT !.papers = {b1}]
Resting == Alone([Work({"build", "submit", "withdraw", "delete", "restore", "bin"}, {q1}) EXCEPT
                     !.papers = {b1}])

EveryWorkload == {Filing, Registering, Deciding, Contending, Closing, Rating, Opening, Resolving,
                  Admitting, Binning, Archiving, Resting}

Interchangeable == Permutations(Slot)
=============================================================================
