----------------------------- MODULE MCJobQueue -----------------------------
(***************************************************************************)
(* Instances of JobQueue for TLC.                                          *)
(***************************************************************************)
EXTENDS JobQueue

CONSTANTS j1, j2, j3, w1, w2, c1, c2

OneJob == {j1}
TwoJobs == {j1, j2}
ThreeJobs == {j1, j2, j3}
TwoWorkers == {w1, w2}
TwoClients == {c1, c2}
OneClient == {c1}

\* Every worker drains every kind.
AllLanes == [w \in Worker |-> Job]

\* A dedicated pool: w1 drains the kind of j1 only, w2 everything.
SplitLanes == [w \in Worker |-> IF w = w1 THEN {j1} ELSE Job]

CrashOnly == {"crash"}
OverlapOnly == {"overlap"}
Everything == {"crash", "stall", "overlap", "ackloss"}
=============================================================================
