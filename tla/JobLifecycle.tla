---------------------------- MODULE JobLifecycle ----------------------------
(***************************************************************************)
(* What the runner job queue promises about one job, seen from outside:    *)
(* a job is enqueued once, claimed by at most one runner, and only moves   *)
(* forward to a terminal status.  The code lets a completion arrive in     *)
(* any status of an existing job, so that freedom is part of the promise.  *)
(* A queue without a durable store may lose all its jobs at once; a lost   *)
(* job never comes back.                                                   *)
(***************************************************************************)
CONSTANTS
  Jobs,       \* job identifiers
  Runners,    \* runners, by the name they claim under
  NoRunner,   \* "not claimed"
  Durable     \* whether the store survives a restart

VARIABLES
  status,     \* status[j]: where job j is in its life
  owner       \* owner[j]: the runner that claimed j, or NoRunner

vars == <<status, owner>>

Terminal == {"done", "failed"}
Live == {"pending", "claimed", "running"} \cup Terminal

Init ==
  /\ status = [j \in Jobs |-> "absent"]
  /\ owner = [j \in Jobs |-> NoRunner]

Enqueue(j) ==
  /\ status[j] = "absent"
  /\ status' = [status EXCEPT ![j] = "pending"]
  /\ UNCHANGED owner

Claim(j, u) ==
  /\ status[j] = "pending"
  /\ status' = [status EXCEPT ![j] = "claimed"]
  /\ owner' = [owner EXCEPT ![j] = u]

Start(j) ==
  /\ status[j] = "claimed"
  /\ status' = [status EXCEPT ![j] = "running"]
  /\ UNCHANGED owner

Finish(j, s) ==
  /\ status[j] \in Live
  /\ status' = [status EXCEPT ![j] = s]
  /\ UNCHANGED owner

LoseAll ==
  /\ ~Durable
  /\ status' = [j \in Jobs |-> IF status[j] \in Live THEN "lost" ELSE status[j]]
  /\ owner' = [j \in Jobs |-> NoRunner]

Next ==
  \/ \E j \in Jobs : Enqueue(j) \/ Start(j)
  \/ \E j \in Jobs, u \in Runners : Claim(j, u)
  \/ \E j \in Jobs, s \in Terminal : Finish(j, s)
  \/ LoseAll

Spec == Init /\ [][Next]_vars
=============================================================================
