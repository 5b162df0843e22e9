---------------------------- MODULE MCJobQueue ----------------------------
(* Instances of JobQueue for TLC.                                         *)
EXTENDS JobQueue, TLC

CONSTANTS r1, r2, r3, r4, j1, j2, j3, u1, u2

\* Two tenants; "stale" is a token the server does not know.
TwoTenants == [t \in {"keyA", "keyB"} |-> IF t = "keyA" THEN "A" ELSE "B"]
\* Dev mode: no keys at all.
NoKeys == [t \in {} |-> "A"]

QueueOps == {"create", "claim", "complete", "event"}
DataOps == {"create", "upload", "event", "get"}
AllOps == JobOps \cup OtherOps

Symmetry == Permutations(Requests) \cup Permutations(Jobs) \cup Permutations(Runners)
=============================================================================
