--------------------------- MODULE JobQueue_proofs ---------------------------
(***************************************************************************)
(* Proofs about JobQueue for any set of requests, jobs, runners, tenants   *)
(* and keys, either store, with or without I/O errors, any number of       *)
(* restarts.                                                               *)
(***************************************************************************)
EXTENDS JobQueue, TLAPS

-----------------------------------------------------------------------------
(* Handlers make progress in order: nothing has landed before the store    *)
(* step and, but for a dropped heartbeat, something has after it.          *)

Progress ==
  \A r \in Requests :
    /\ phase[r] # "idle" => call[r] \in Call
    /\ phase[r] # "idle" /\ call[r].op = "heartbeat" => call[r].job = None
    /\ phase[r] \in Active \/ r \in landed => Authenticated(call[r])
    /\ phase[r] \in {"idle", "owned", "store"} => r \notin landed
    /\ phase[r] \in {"reread", "audit"} => r \in landed \/ MayBeDropped(r)

BaseInv == TypeOK /\ Progress

\* A caller whose token was accepted has a tenant.
LEMMA TenantType ==
  ASSUME NEW r \in Requests, Authenticated(call[r])
  PROVE  TenantOf(r) \in Tenants
  BY ConstantsAssumption DEF TenantOf, Authenticated

LEMMA CallsType ==
  ASSUME NEW c \in Calls
  PROVE  c \in Call /\ (c.op = "heartbeat" => c.job = None)
  BY ConstantsAssumption DEF Calls, Call, OtherOps

LEMMA InitBase == Init => BaseInv
  BY ConstantsAssumption
  DEF Init, BaseInv, TypeOK, Progress, NoCall, NoReply, Phases, Active, Reply, Codes

\* What the Store operations write is a job.
LEMMA JobType ==
  /\ \A t \in Tenants : NewJob(t) \in Job
  /\ \A job \in Job, u \in Runners : WithClaim(job, u) \in Job
  /\ \A job \in Job, s \in Completions : WithCompletion(job, s) \in Job
  /\ \A job \in Job, r \in Requests : WithEvent(job, r) \in Job
  /\ \A job \in Job, r \in Requests : WithResult(job, r) \in Job
<1>1. ASSUME NEW t \in Tenants PROVE NewJob(t) \in Job
  BY DEF Job, NewJob, Statuses
<1>2. ASSUME NEW job \in Job, NEW u \in Runners PROVE WithClaim(job, u) \in Job
  BY DEF Job, WithClaim, Statuses
<1>3. ASSUME NEW job \in Job, NEW s \in Completions PROVE WithCompletion(job, s) \in Job
  BY DEF Job, WithCompletion, Statuses
<1>4. ASSUME NEW job \in Job, NEW r \in Requests PROVE WithEvent(job, r) \in Job
  <2>1. Append(job.events, r) \in Seq(Requests)
    BY DEF Job
  <2>2. (IF Starts(job, call[r].arg) THEN "running" ELSE job.status) \in Statuses
    BY DEF Job, Statuses
  <2>3. QED
    BY <2>1, <2>2 DEF Job, WithEvent
<1>5. ASSUME NEW job \in Job, NEW r \in Requests PROVE WithResult(job, r) \in Job
  BY DEF Job, WithResult
<1>6. QED
  BY <1>1, <1>2, <1>3, <1>4, <1>5

\* An answer of the right type keeps the types of the request's variables.
LEMMA AnswerType ==
  ASSUME TypeOK, NEW r \in Requests, NEW code \in Codes,
         NEW seen \in SUBSET SeenJob, NEW log \in SUBSET AuditEntry,
         Answer(r, code, seen, log)
  PROVE  /\ phase' = [phase EXCEPT ![r] = "replied"]
         /\ phase' \in [Requests -> Phases]
         /\ reply' \in [Requests -> Reply]
  BY DEF TypeOK, Answer, Goto, Reply, SeenJob, Phases

LEMMA HoldType ==
  ASSUME TypeOK, NEW r \in Requests, NEW seen \in SUBSET SeenJob, Hold(r, seen)
  PROVE  reply' \in [Requests -> Reply]
  BY DEF TypeOK, Hold, Reply, SeenJob

LEMMA GotoType ==
  ASSUME TypeOK, NEW r \in Requests, NEW p \in Phases, Goto(r, p)
  PROVE  phase' \in [Requests -> Phases]
  BY DEF TypeOK, Goto

\* A job as it is stored can be shown.
LEMMA SeenType ==
  ASSUME NEW j \in Jobs, NEW job \in Job
  PROVE  {Seen(j, job)} \in SUBSET SeenJob
  BY DEF Seen, SeenJob

LEMMA UpdateType ==
  ASSUME TypeOK, NEW j \in DOMAIN jobs, NEW job \in Job, UpdateJob(j, job)
  PROVE  /\ DOMAIN jobs' = DOMAIN jobs
         /\ jobs' \in [DOMAIN jobs' -> Job]
  BY DEF TypeOK, UpdateJob

USE DEF Phases, Active

LEMMA ReceiveBase ==
  ASSUME BaseInv, NEW r \in Requests, NEW c \in Calls, Receive(r, c)
  PROVE  BaseInv'
<1> USE DEF BaseInv
<1>1. c \in Call /\ (c.op = "heartbeat" => c.job = None)
  BY CallsType
<1>2. call' = [call EXCEPT ![r] = c] /\ phase[r] = "idle" /\ call' \in [Requests -> Call \cup {NoCall}]
  BY <1>1 DEF Receive, TypeOK
<1>3. UNCHANGED <<server, restarts, store, history>>
  BY DEF Receive
<1>4. CASE \E code \in {"unauthorized", "invalid"} : Answer(r, code, {}, {})
  <2>1. PICK code \in {"unauthorized", "invalid"} : Answer(r, code, {}, {})
    BY <1>4
  <2>2. /\ phase' = [phase EXCEPT ![r] = "replied"]
        /\ phase' \in [Requests -> Phases]
        /\ reply' \in [Requests -> Reply]
    BY <2>1, AnswerType DEF Codes
  <2>3. TypeOK'
    BY <1>2, <1>3, <2>2 DEF TypeOK, store, history
  <2>4. Progress'
    BY <1>1, <1>2, <1>3, <2>2 DEF Progress, TypeOK, store, history, Authenticated, MayBeDropped
  <2>5. QED
    BY <2>3, <2>4
<1>5. CASE /\ Authenticated(c)
           /\ Goto(r, IF c.op \in JobOps THEN "owned" ELSE "store")
           /\ UNCHANGED reply
  <2>1. TypeOK'
    BY <1>2, <1>3, <1>5 DEF TypeOK, store, history, Goto
  <2>2. Progress'
    BY <1>1, <1>2, <1>3, <1>5 DEF Progress, TypeOK, store, history, Goto, Authenticated, MayBeDropped
  <2>3. QED
    BY <2>1, <2>2
<1>6. QED
  BY <1>4, <1>5 DEF Receive

\* A handler that answers without touching the store.
LEMMA AnswerBase ==
  ASSUME BaseInv, NEW r \in Requests, phase[r] \in {"owned", "store"},
         NEW code \in Codes, NEW seen \in SUBSET SeenJob, NEW log \in SUBSET AuditEntry,
         Answer(r, code, seen, log), UNCHANGED <<server, restarts, store, call, history>>
  PROVE  BaseInv'
<1> USE DEF BaseInv
<1>1. /\ phase' = [phase EXCEPT ![r] = "replied"]
      /\ phase' \in [Requests -> Phases]
      /\ reply' \in [Requests -> Reply]
  BY AnswerType
<1>2. TypeOK'
  BY <1>1 DEF TypeOK, store, history
<1>3. Progress'
  BY <1>1 DEF TypeOK, Progress, history, Authenticated, MayBeDropped
<1>4. QED
  BY <1>2, <1>3

\* A handler whose store operation took effect, or was dropped unnoticed, moves on.
LEMMA LandBase ==
  ASSUME BaseInv, NEW r \in Requests, phase[r] = "store",
         Record(r) \/ (landed' = landed /\ call' = call /\ MayBeDropped(r)),
         NEW p \in {"reread", "audit", "replied"}, phase' = [phase EXCEPT ![r] = p],
         DOMAIN jobs' \subseteq Jobs, jobs' \in [DOMAIN jobs' -> Job],
         heard' \subseteq Runners, reply' \in [Requests -> Reply],
         call' \in [Requests -> Call \cup {NoCall}],
         \A q \in Requests \ {r} : call'[q] = call[q],
         call'[r] \in Call, call'[r].token = call[r].token,
         call'[r].op = "heartbeat" => call'[r].job = None,
         UNCHANGED <<server, restarts, audit, forgotten, unlogged>>
  PROVE  BaseInv'
<1> USE DEF BaseInv
<1>1. TypeOK'
  BY DEF TypeOK, Record
<1>2. Progress'
  BY DEF TypeOK, Progress, Record, Authenticated, MayBeDropped
<1>3. QED
  BY <1>1, <1>2

LEMMA CheckOwnedBase ==
  ASSUME BaseInv, NEW r \in Requests, CheckOwned(r)
  PROVE  BaseInv'
<1> USE DEF BaseInv
<1>1. phase[r] = "owned" /\ UNCHANGED <<server, restarts, store, call, history>>
  BY DEF CheckOwned, At
<1>2. ASSUME NEW code \in Codes, NEW seen \in SUBSET SeenJob, Answer(r, code, seen, {})
      PROVE  BaseInv'
  BY <1>1, <1>2, AnswerBase
<1>3. CASE Goto(r, "store") /\ UNCHANGED reply
  <2>1. TypeOK'
    BY <1>1, <1>3 DEF TypeOK, store, history, Goto
  <2>2. Progress'
    BY <1>1, <1>3 DEF TypeOK, Progress, history, Goto, Authenticated, MayBeDropped
  <2>3. QED
    BY <2>1, <2>2
<1>4. Owned(r) => {Seen(call[r].job, jobs[call[r].job])} \in SUBSET SeenJob
  BY SeenType DEF TypeOK, Owned
<1>5. {"not_found", "invalid", "ok"} \subseteq Codes /\ {} \in SUBSET SeenJob
  BY DEF Codes
<1>6. QED
  BY <1>2, <1>3, <1>4, <1>5 DEF CheckOwned

LEMMA CreateBase ==
  ASSUME BaseInv, NEW r \in Requests, CreateJob(r)
  PROVE  BaseInv'
<1> USE DEF BaseInv
<1>1. PICK id \in NewIds, ok \in Outcomes :
        IF ok /\ id \notin DOMAIN jobs
         THEN /\ jobs' = [j \in DOMAIN jobs \cup {id} |->
                            IF j = id THEN NewJob(TenantOf(r)) ELSE jobs[j]]
              /\ call' = [call EXCEPT ![r].job = id]
              /\ Hold(r, {Seen(id, NewJob(TenantOf(r)))})
              /\ Record(r)
              /\ Goto(r, "audit")
         ELSE /\ Answer(r, "invalid", {}, {})
              /\ UNCHANGED <<jobs, call, landed>>
  BY DEF CreateJob
<1>2. /\ phase[r] = "store" /\ id \in Jobs
      /\ UNCHANGED <<server, restarts, heard, audit, forgotten, unlogged>>
  BY <1>1 DEF CreateJob, At, NewIds
<1>3. CASE ok /\ id \notin DOMAIN jobs
  <2>1. call[r] \in Call /\ Authenticated(call[r])
    BY <1>2 DEF Progress
  <2>2. NewJob(TenantOf(r)) \in Job
    BY <2>1, TenantType, JobType
  <2>3. jobs' \in [DOMAIN jobs' -> Job] /\ DOMAIN jobs' \subseteq Jobs
    BY <1>1, <1>2, <1>3, <2>2 DEF TypeOK
  <2>4. reply' \in [Requests -> Reply]
    BY <1>1, <1>2, <1>3, <2>2, SeenType, HoldType
  <2>5. [call[r] EXCEPT !.job = id] \in Call
    BY <1>2, <2>1 DEF Call
  <2>6. /\ call' \in [Requests -> Call \cup {NoCall}]
        /\ \A q \in Requests \ {r} : call'[q] = call[q]
        /\ call'[r] = [call[r] EXCEPT !.job = id]
    BY <1>1, <1>3, <2>5 DEF TypeOK
  <2>7. call'[r].token = call[r].token /\ call'[r].op # "heartbeat"
    BY <2>1, <2>6 DEF Call, CreateJob, At
  <2>8. phase' = [phase EXCEPT ![r] = "audit"] /\ Record(r) /\ heard' \subseteq Runners
    BY <1>1, <1>2, <1>3 DEF Goto, TypeOK
  <2>9. QED
    BY <1>2, <2>3, <2>4, <2>5, <2>6, <2>7, <2>8, LandBase
<1>4. CASE ~(ok /\ id \notin DOMAIN jobs)
  BY <1>1, <1>2, <1>4, AnswerBase DEF Codes, store, history
<1>5. QED
  BY <1>3, <1>4

\* The operations that change one job in place and keep the call.
LEMMA InPlaceBase ==
  ASSUME BaseInv, NEW r \in Requests, phase[r] = "store", Record(r),
         NEW p \in {"reread", "audit", "replied"}, phase' = [phase EXCEPT ![r] = p],
         call[r].job \in DOMAIN jobs, NEW job \in Job, UpdateJob(call[r].job, job),
         reply' \in [Requests -> Reply],
         UNCHANGED <<server, restarts, heard, audit, call, forgotten, unlogged>>
  PROVE  BaseInv'
<1> USE DEF BaseInv
<1>1. /\ DOMAIN jobs' = DOMAIN jobs
      /\ jobs' \in [DOMAIN jobs' -> Job]
  BY UpdateType
<1>2. call[r] \in Call /\ (call[r].op = "heartbeat" => call[r].job = None)
      /\ DOMAIN jobs \subseteq Jobs /\ heard \subseteq Runners
      /\ call \in [Requests -> Call \cup {NoCall}]
  BY DEF Progress, TypeOK
<1>3. QED
  BY <1>1, <1>2, LandBase

LEMMA ClaimBase ==
  ASSUME BaseInv, NEW r \in Requests, ClaimJob(r)
  PROVE  BaseInv'
<1> DEFINE j == call[r].job
           claimed == WithClaim(jobs[j], call[r].runner)
<1>1. /\ phase[r] = "store" /\ call[r] \in Call /\ reply \in [Requests -> Reply]
      /\ UNCHANGED <<server, restarts, heard, audit, call, forgotten, unlogged>>
  BY DEF ClaimJob, At, BaseInv, Progress, TypeOK
<1>2. CASE \E code \in {"error", "not_found", "conflict"} :
             Answer(r, code, {}, {}) /\ UNCHANGED <<jobs, landed>>
  BY <1>1, <1>2, AnswerBase DEF Codes, store, history
<1>3. CASE j \in DOMAIN jobs /\ UpdateJob(j, claimed) /\ Hold(r, {Seen(j, claimed)})
             /\ Record(r) /\ Goto(r, "audit")
  <2>1. call[r].runner \in Runners /\ jobs[j] \in Job /\ j \in Jobs
    BY <1>1, <1>3 DEF Call, BaseInv, TypeOK
  <2>2. claimed \in Job
    BY <2>1, JobType
  <2>3. reply' \in [Requests -> Reply]
    BY <1>3, <2>1, <2>2, SeenType, HoldType DEF BaseInv
  <2>4. phase' = [phase EXCEPT ![r] = "audit"]
    BY <1>3 DEF Goto
  <2>5. QED
    BY <1>1, <1>3, <2>2, <2>3, <2>4, InPlaceBase
<1>4. QED
  BY <1>2, <1>3 DEF ClaimJob

LEMMA CompleteBase ==
  ASSUME BaseInv, NEW r \in Requests, CompleteJob(r)
  PROVE  BaseInv'
<1> DEFINE j == call[r].job
<1>1. /\ phase[r] = "store" /\ reply \in [Requests -> Reply]
      /\ UNCHANGED <<server, restarts, heard, audit, call, forgotten, unlogged>>
  BY DEF CompleteJob, At, BaseInv, TypeOK
<1>2. CASE \E code \in {"invalid", "error", "not_found"} :
             Answer(r, code, {}, {}) /\ UNCHANGED <<jobs, landed>>
  BY <1>1, <1>2, AnswerBase DEF Codes, store, history
<1>3. CASE /\ call[r].arg \in Completions /\ j \in DOMAIN jobs
           /\ UpdateJob(j, WithCompletion(jobs[j], call[r].arg))
           /\ Record(r) /\ Goto(r, "reread") /\ UNCHANGED reply
  <2>1. WithCompletion(jobs[j], call[r].arg) \in Job
    BY <1>3, JobType DEF BaseInv, TypeOK
  <2>2. phase' = [phase EXCEPT ![r] = "reread"]
    BY <1>3 DEF Goto
  <2>3. QED
    BY <1>1, <1>3, <2>1, <2>2, InPlaceBase
<1>4. QED
  BY <1>2, <1>3 DEF CompleteJob, ValidCompletion

LEMMA RereadBase ==
  ASSUME BaseInv, NEW r \in Requests, RereadJob(r)
  PROVE  BaseInv'
<1> DEFINE j == call[r].job
<1> USE DEF BaseInv
<1>1. /\ phase[r] = "reread" /\ Goto(r, "audit")
      /\ UNCHANGED <<server, restarts, store, call, history>>
  BY DEF RereadJob, At
<1>2. PICK ok \in Outcomes :
        Hold(r, {IF ok /\ j \in DOMAIN jobs THEN Seen(j, jobs[j]) ELSE EmptyJob})
  BY DEF RereadJob
<1>3. {IF ok /\ j \in DOMAIN jobs THEN Seen(j, jobs[j]) ELSE EmptyJob} \in SUBSET SeenJob
  BY SeenType DEF TypeOK, SeenJob
<1>4. reply' \in [Requests -> Reply]
  BY <1>2, <1>3, HoldType
<1>5. TypeOK'
  BY <1>1, <1>4 DEF TypeOK, store, history, Goto
<1>6. Progress'
  BY <1>1 DEF TypeOK, Progress, history, Goto, Authenticated, MayBeDropped
<1>7. QED
  BY <1>5, <1>6

LEMMA EventBase ==
  ASSUME BaseInv, NEW r \in Requests, AppendEvent(r)
  PROVE  BaseInv'
<1> DEFINE j == call[r].job
<1>1. /\ phase[r] = "store"
      /\ UNCHANGED <<server, restarts, heard, audit, call, forgotten, unlogged>>
  BY DEF AppendEvent, At
<1>2. CASE Answer(r, "not_found", {}, {}) /\ UNCHANGED <<jobs, landed>>
  BY <1>1, <1>2, AnswerBase DEF Codes, store, history
<1>3. CASE j \in DOMAIN jobs /\ UpdateJob(j, WithEvent(jobs[j], r)) /\ Record(r)
             /\ Answer(r, "ok", {}, {})
  <2>1. WithEvent(jobs[j], r) \in Job
    BY <1>3, JobType DEF BaseInv, TypeOK
  <2>2. "ok" \in Codes /\ {} \in SUBSET SeenJob /\ {} \in SUBSET AuditEntry /\ TypeOK
    BY DEF Codes, BaseInv
  <2>3. phase' = [phase EXCEPT ![r] = "replied"] /\ reply' \in [Requests -> Reply]
    BY <1>3, <2>2, AnswerType
  <2>4. QED
    BY <1>1, <1>3, <2>1, <2>3, InPlaceBase
<1>4. QED
  BY <1>2, <1>3 DEF AppendEvent

LEMMA ResultBase ==
  ASSUME BaseInv, NEW r \in Requests, SetResult(r)
  PROVE  BaseInv'
<1> DEFINE j == call[r].job
<1>1. /\ phase[r] = "store" /\ reply \in [Requests -> Reply]
      /\ UNCHANGED <<server, restarts, heard, audit, call, forgotten, unlogged>>
  BY DEF SetResult, At, BaseInv, TypeOK
<1>2. CASE Answer(r, "not_found", {}, {}) /\ UNCHANGED <<jobs, landed>>
  BY <1>1, <1>2, AnswerBase DEF Codes, store, history
<1>3. CASE j \in DOMAIN jobs /\ UpdateJob(j, WithResult(jobs[j], r)) /\ Record(r)
             /\ Goto(r, "audit") /\ UNCHANGED reply
  <2>1. WithResult(jobs[j], r) \in Job
    BY <1>3, JobType DEF BaseInv, TypeOK
  <2>2. phase' = [phase EXCEPT ![r] = "audit"]
    BY <1>3 DEF Goto
  <2>3. QED
    BY <1>1, <1>3, <2>1, <2>2, InPlaceBase
<1>4. QED
  BY <1>2, <1>3 DEF SetResult

LEMMA HeartbeatBase ==
  ASSUME BaseInv, NEW r \in Requests, Heartbeat(r)
  PROVE  BaseInv'
<1>1. /\ phase[r] = "store" /\ Goto(r, "audit")
      /\ Record(r) \/ (landed' = landed /\ MayBeDropped(r))
      /\ call[r] \in Call /\ (call[r].op = "heartbeat" => call[r].job = None)
      /\ UNCHANGED <<server, restarts, jobs, audit, call, reply, forgotten, unlogged>>
  BY DEF Heartbeat, At, BaseInv, Progress, Outcomes, MayBeDropped
<1>2. heard' \subseteq Runners
  BY <1>1 DEF Heartbeat, Call, BaseInv, TypeOK
<1>3. /\ phase' = [phase EXCEPT ![r] = "audit"] /\ call' = call
      /\ call \in [Requests -> Call \cup {NoCall}] /\ reply' \in [Requests -> Reply]
      /\ DOMAIN jobs' \subseteq Jobs /\ jobs' \in [DOMAIN jobs' -> Job]
  BY <1>1 DEF BaseInv, TypeOK, Goto
<1>4. QED
  BY <1>1, <1>2, <1>3, LandBase

LEMMA ListPendingBase ==
  ASSUME BaseInv, NEW r \in Requests, ListPending(r)
  PROVE  BaseInv'
<1>1. phase[r] = "store" /\ UNCHANGED <<server, restarts, store, call, history>>
  BY DEF ListPending, At
<1>2. PICK ok \in Outcomes :
        Answer(r, "ok", { Seen(j, jobs[j]) : j \in
          { j \in DOMAIN jobs :
              ok /\ jobs[j].status = "pending" /\ jobs[j].tenant = TenantOf(r) } }, {})
  BY DEF ListPending
<1>3. \A j \in DOMAIN jobs : Seen(j, jobs[j]) \in SeenJob
  BY DEF Seen, SeenJob, BaseInv, TypeOK
<1>4. { Seen(j, jobs[j]) : j \in
          { j \in DOMAIN jobs :
              ok /\ jobs[j].status = "pending" /\ jobs[j].tenant = TenantOf(r) } }
        \in SUBSET SeenJob
  BY <1>3
<1>5. QED
  BY <1>1, <1>2, <1>4, AnswerBase DEF Codes

LEMMA ReadAuditLogBase ==
  ASSUME BaseInv, NEW r \in Requests, ReadAuditLog(r)
  PROVE  BaseInv'
<1>1. phase[r] = "store" /\ UNCHANGED <<server, restarts, store, call, history>>
  BY DEF ReadAuditLog, At
<1>2. PICK ok \in Outcomes :
        Answer(r, "ok", {}, { audit[i] : i \in
          { i \in 1..Len(audit) : ok /\ audit[i].tenant = TenantOf(r) } })
  BY DEF ReadAuditLog
<1>3. { audit[i] : i \in { i \in 1..Len(audit) : ok /\ audit[i].tenant = TenantOf(r) } }
        \in SUBSET AuditEntry
  BY DEF BaseInv, TypeOK
<1>4. QED
  BY <1>1, <1>2, <1>3, AnswerBase DEF Codes

LEMMA WriteAuditBase ==
  ASSUME BaseInv, NEW r \in Requests, WriteAudit(r)
  PROVE  BaseInv'
<1> USE DEF BaseInv
<1>1. /\ phase[r] = "audit" /\ call[r].op \in AuditedOps
      /\ Answer(r, "ok", reply[r].seen, {})
      /\ UNCHANGED <<server, restarts, jobs, heard, call, forgotten, landed>>
  BY DEF WriteAudit, At
<1>2. call[r] \in Call /\ TenantOf(r) \in Tenants
  BY <1>1, TenantType DEF Progress
<1>3. EntryOf(r) \in AuditEntry
  BY <1>1, <1>2 DEF EntryOf, AuditEntry, Call
<1>4. audit' \in Seq(AuditEntry) /\ unlogged' \subseteq Requests
  <2>1. audit \in Seq(AuditEntry) /\ unlogged \subseteq Requests
    BY DEF TypeOK
  <2>2. audit' \in Seq(AuditEntry)
    BY <1>3, <2>1 DEF WriteAudit, Extended
  <2>3. unlogged' \subseteq Requests
    BY <2>1 DEF WriteAudit
  <2>4. QED
    BY <2>2, <2>3
<1>5. reply[r].seen \in SUBSET SeenJob /\ "ok" \in Codes /\ {} \in SUBSET AuditEntry
  BY DEF TypeOK, Reply, SeenJob, Codes
<1>6. /\ phase' = [phase EXCEPT ![r] = "replied"]
      /\ phase' \in [Requests -> Phases]
      /\ reply' \in [Requests -> Reply]
  BY <1>1, <1>5, AnswerType
<1>7. TypeOK'
  BY <1>1, <1>4, <1>6 DEF TypeOK
<1>8. Progress'
  BY <1>1, <1>6 DEF TypeOK, Progress, Authenticated, MayBeDropped
<1>9. QED
  BY <1>7, <1>8

LEMMA StopBase ==
  ASSUME BaseInv, Stop
  PROVE  BaseInv'
<1> USE DEF BaseInv
<1>1. /\ server' = "down" /\ restarts' \in 0..MaxRestarts
      /\ phase' \in [Requests -> Phases]
      /\ UNCHANGED <<call, reply, landed, unlogged>>
  BY ConstantsAssumption DEF Stop, TypeOK
<1>2. /\ DOMAIN jobs' \subseteq Jobs /\ jobs' \in [DOMAIN jobs' -> Job]
      /\ heard' \subseteq Runners /\ audit' \in Seq(AuditEntry) /\ forgotten' \subseteq Jobs
  <2>1. CASE Durable
    BY <2>1 DEF Stop, TypeOK, store
  <2>2. CASE ~Durable
    <3>1. /\ jobs' = [j \in {} |-> None] /\ heard' = {} /\ audit' = <<>>
          /\ forgotten' = forgotten \cup DOMAIN jobs
      BY <2>2 DEF Stop
    <3>2. DOMAIN jobs' = {} /\ jobs' \in [DOMAIN jobs' -> Job]
      BY <3>1
    <3>3. QED
      BY <3>1, <3>2 DEF TypeOK
  <2>3. QED
    BY <2>1, <2>2
<1>3. TypeOK'
  BY <1>1, <1>2 DEF TypeOK
<1>4. Progress'
  BY <1>1 DEF Stop, Progress, TypeOK, Authenticated, MayBeDropped
<1>5. QED
  BY <1>3, <1>4

LEMMA ServerBase ==
  ASSUME BaseInv, Drain \/ Restart \/ UNCHANGED vars
  PROVE  BaseInv'
<1>1. server' \in {"up", "draining", "down"} /\ UNCHANGED <<restarts, store, phase, call, reply, history>>
  BY DEF Drain, Restart, vars, BaseInv, TypeOK
<1>2. QED
  BY <1>1 DEF BaseInv, TypeOK, Progress, store, history, Authenticated, MayBeDropped

LEMMA NextBase == BaseInv /\ [Next]_vars => BaseInv'
<1> SUFFICES ASSUME BaseInv, [Next]_vars PROVE BaseInv'
  OBVIOUS
<1>1. ASSUME NEW r \in Requests, NEW c \in Calls, Receive(r, c) PROVE BaseInv'
  BY <1>1, ReceiveBase
<1>2. ASSUME NEW r \in Requests, Step(r) PROVE BaseInv'
  BY <1>2, CheckOwnedBase, CreateBase, ClaimBase, CompleteBase, RereadBase, EventBase,
     ResultBase, HeartbeatBase, ListPendingBase, ReadAuditLogBase, WriteAuditBase DEF Step
<1>3. CASE Stop
  BY <1>3, StopBase
<1>4. CASE Drain \/ Restart \/ UNCHANGED vars
  BY <1>4, ServerBase
<1>5. QED
  BY <1>1, <1>2, <1>3, <1>4 DEF Next

\* The types hold in every behaviour: no handler, interleaving, I/O error or
\* restart leaves a job, a response or an audit entry of the wrong shape.
THEOREM TypeCorrect == Spec => []TypeOK
<1>1. Spec => []BaseInv
  BY InitBase, NextBase, PTL DEF Spec
<1>2. QED
  BY <1>1, PTL DEF BaseInv

-----------------------------------------------------------------------------
(* Safety.  The invariants SingleClaim, ClaimHonoured, CompletionSticks    *)
(* and TenantIsolation are not inductive alone.  What carries them:        *)
(* ids of dropped jobs are not stored again; a request that landed named a *)
(* job that is stored or was dropped; ownership, once checked, holds until *)
(* the handler is through with the store, because nothing changes a job's  *)
(* tenant and nothing but the end of the process removes a job.            *)

ForgottenGone == forgotten \cap DOMAIN jobs = {}

LandedKnown ==
  \A r \in landed : call[r].job \in DOMAIN jobs \cup forgotten \cup {None}

OwnershipHeld ==
  \A r \in Requests : phase[r] \in {"store", "reread"} /\ call[r].op \in JobOps => Owned(r)

NothingShownYet ==
  \A r \in Requests :
    /\ phase[r] \in {"idle", "owned", "store", "reread"} => reply[r].seen = {}
    /\ phase[r] \in {"idle"} \cup Active => reply[r].log = {}

\* ClaimHonoured, for every claim that landed, answered or not.
ClaimsHold ==
  \A r \in Landed("claim") :
    LET j == call[r].job
    IN /\ j \in DOMAIN jobs => /\ jobs[j].claimedBy = call[r].runner
                               /\ jobs[j].status # "pending"
       /\ \E s \in reply[r].seen : /\ s.id = j
                                   /\ s.job.claimedBy = call[r].runner
                                   /\ s.job.status = "claimed"

Safe ==
  /\ ForgottenGone
  /\ LandedKnown
  /\ OwnershipHeld
  /\ NothingShownYet
  /\ ClaimsHold
  /\ SingleClaim
  /\ CompletionSticks
  /\ TenantIsolation

\* What CompletionSticks says of a job a completion answers with.
FitAnswer(s) == s.job.status \in Completions \/ (s = EmptyJob /\ Durable /\ IOErrors)

LEMMA InitSafe == Init => Safe
  BY DEF Init, Safe, ForgottenGone, LandedKnown, OwnershipHeld, NothingShownYet, ClaimsHold,
         SingleClaim, CompletionSticks, TenantIsolation, Landed, NoReply

\* The steps of a handler that leave the jobs and what has landed alone.
LEMMA QuietSafe ==
  ASSUME BaseInv, Safe, NEW r \in Requests,
         UNCHANGED <<jobs, forgotten, landed>>,
         call' \in [Requests -> Call \cup {NoCall}],
         phase' \in [Requests -> Phases],
         reply' \in [Requests -> Reply],
         \A q \in Requests \ {r} :
           call'[q] = call[q] /\ phase'[q] = phase[q] /\ reply'[q] = reply[q],
         r \in landed => /\ call'[r] = call[r]
                         /\ call[r].op # "complete" => reply'[r].seen = reply[r].seen
                         /\ call[r].op = "complete" =>
                              \A s \in reply'[r].seen : FitAnswer(s),
         phase'[r] \in {"store", "reread"} /\ call'[r].op \in JobOps => Owned(r)',
         phase'[r] \in {"idle", "owned", "store", "reread"} => reply'[r].seen = {},
         phase'[r] \in {"idle"} \cup Active => reply'[r].log = {},
         \A s \in reply'[r].seen \ {EmptyJob} : s.job.tenant = TenantOf(r)',
         \A e \in reply'[r].log : e.tenant = TenantOf(r)'
  PROVE  Safe'
<1> USE DEF Safe
<1>1. \A q \in landed : call'[q] = call[q]
  BY DEF BaseInv, TypeOK
<1>2. \A q \in Requests \ {r} : TenantOf(q)' = TenantOf(q) /\ (Owned(q)' <=> Owned(q))
  BY DEF TenantOf, Owned
<1>3. \A q \in landed : TenantOf(q)' = TenantOf(q)
  BY <1>1 DEF TenantOf
<1>4. ForgottenGone' /\ LandedKnown'
  BY <1>1 DEF ForgottenGone, LandedKnown
<1>5. OwnershipHeld'
  BY <1>2 DEF OwnershipHeld
<1>6. NothingShownYet'
  BY DEF NothingShownYet
<1>7. ClaimsHold'
  BY <1>1 DEF ClaimsHold, Landed, BaseInv, TypeOK
<1>8. SingleClaim'
  BY <1>1 DEF SingleClaim, Landed
<1>9. CompletionSticks'
  BY <1>1 DEF CompletionSticks, Landed, BaseInv, TypeOK, FitAnswer
<1>10. TenantIsolation'
  <2>1. \A q \in Requests : \A s \in reply'[q].seen \ {EmptyJob} : s.job.tenant = TenantOf(q)'
    BY <1>2 DEF TenantIsolation
  <2>2. \A q \in Requests : \A e \in reply'[q].log : e.tenant = TenantOf(q)'
    BY <1>2 DEF TenantIsolation
  <2>3. \A q \in landed : call'[q].job \in DOMAIN jobs => jobs[call'[q].job].tenant = TenantOf(q)'
    BY <1>1, <1>3 DEF TenantIsolation
  <2>4. QED
    BY <2>1, <2>2, <2>3 DEF TenantIsolation
<1>11. QED
  BY <1>4, <1>5, <1>6, <1>7, <1>8, <1>9, <1>10

\* A store operation of r lands on its job and changes neither the tenant of
\* that job, nor, unless it is the claim, who claimed it; a job that is not
\* pending stays so, and a completed one stays completed.
LEMMA LandSafe ==
  ASSUME BaseInv, Safe, NEW r \in Requests, phase[r] = "store", call[r].op \in JobOps,
         NEW job \in Job, UpdateJob(call[r].job, job), Record(r),
         UNCHANGED <<call, forgotten>>,
         NEW p \in {"reread", "audit", "replied"}, phase' = [phase EXCEPT ![r] = p],
         p = "reread" => reply'[r].seen = {},
         reply' \in [Requests -> Reply],
         \A q \in Requests \ {r} : reply'[q] = reply[q],
         job.tenant = jobs[call[r].job].tenant,
         jobs[call[r].job].status # "pending" => /\ job.claimedBy = jobs[call[r].job].claimedBy
                                                 /\ job.status # "pending",
         jobs[call[r].job].status \in Completions => job.status \in Completions,
         call[r].op = "claim" =>
           /\ jobs[call[r].job].status = "pending"
           /\ job.status = "claimed"
           /\ job.claimedBy = call[r].runner
           /\ reply'[r].seen = {Seen(call[r].job, job)},
         call[r].op # "claim" => reply'[r].seen = {},
         call[r].op = "complete" => job.status \in Completions,
         reply'[r].log = {},
         \A s \in reply'[r].seen : s.job.tenant = job.tenant
  PROVE  Safe'
<1> USE DEF Safe
<1> DEFINE j == call[r].job
<1>1. /\ j \in DOMAIN jobs /\ DOMAIN jobs' = DOMAIN jobs
      /\ jobs'[j] = job /\ \A k \in DOMAIN jobs \ {j} : jobs'[k] = jobs[k]
      /\ jobs[j].tenant = TenantOf(r)
  BY DEF OwnershipHeld, Owned, UpdateJob
<1>2. r \notin landed /\ landed' = landed \cup {r} /\ landed \subseteq Requests
  BY DEF BaseInv, Progress, TypeOK, Record
<1>3. \A q \in Requests : TenantOf(q)' = TenantOf(q)
  BY DEF TenantOf
<1>4. \A k \in DOMAIN jobs : jobs'[k].tenant = jobs[k].tenant
  BY <1>1
<1>5. ForgottenGone' /\ LandedKnown'
  BY <1>1, <1>2 DEF ForgottenGone, LandedKnown
<1>6. OwnershipHeld'
  BY <1>1, <1>3, <1>4 DEF OwnershipHeld, Owned, BaseInv, TypeOK
<1>7. NothingShownYet'
  BY DEF NothingShownYet, BaseInv, TypeOK
<1>8. \A q \in Landed("claim") : call[q].job = j => jobs[j].status # "pending"
  BY <1>1 DEF ClaimsHold
<1>9. ClaimsHold'
  <2>1. ASSUME NEW q \in Landed("claim") PROVE q # r /\ q \in Requests /\ reply'[q] = reply[q]
    BY <1>2, <2>1 DEF Landed
  <2>2. ASSUME NEW q \in Landed("claim"), call[q].job \in DOMAIN jobs
        PROVE  /\ jobs'[call[q].job].claimedBy = call[q].runner
               /\ jobs'[call[q].job].status # "pending"
    BY <1>1, <1>8, <2>2 DEF ClaimsHold
  <2>3. call[r].op = "claim" =>
          /\ jobs'[j].claimedBy = call[r].runner /\ jobs'[j].status # "pending"
          /\ \E s \in reply'[r].seen : /\ s.id = j
                                       /\ s.job.claimedBy = call[r].runner
                                       /\ s.job.status = "claimed"
    <3>1. SUFFICES ASSUME call[r].op = "claim"
                   PROVE  /\ jobs'[j].claimedBy = call[r].runner /\ jobs'[j].status # "pending"
                          /\ \E s \in reply'[r].seen : /\ s.id = j
                                                       /\ s.job.claimedBy = call[r].runner
                                                       /\ s.job.status = "claimed"
      OBVIOUS
    <3>2. Seen(j, job).id = j /\ Seen(j, job).job = job
      BY DEF Seen
    <3>3. Seen(j, job) \in reply'[r].seen
      BY <3>1
    <3>4. job.claimedBy = call[r].runner /\ job.status = "claimed"
      BY <3>1
    <3>5. QED
      BY <1>1, <3>2, <3>3, <3>4
  <2>4. QED
    BY <1>1, <1>2, <2>1, <2>2, <2>3 DEF ClaimsHold, Landed
<1>10. SingleClaim'
  BY <1>1, <1>2, <1>8 DEF SingleClaim, Landed
<1>11. CompletionSticks'
  BY <1>1, <1>2 DEF CompletionSticks, Landed
<1>12. TenantIsolation'
  BY <1>1, <1>2, <1>3, <1>4 DEF TenantIsolation
<1>13. QED
  BY <1>5, <1>6, <1>7, <1>9, <1>10, <1>11, <1>12

\* A handler that has not landed answers, showing only its own tenant's data.
LEMMA AnswerSafe ==
  ASSUME BaseInv, Safe, NEW r \in Requests, phase[r] \in {"owned", "store"},
         NEW code \in Codes, NEW seen \in SUBSET SeenJob, NEW log \in SUBSET AuditEntry,
         Answer(r, code, seen, log), UNCHANGED <<jobs, call, forgotten, landed>>,
         \A s \in seen : s.job.tenant = TenantOf(r),
         \A e \in log : e.tenant = TenantOf(r)
  PROVE  Safe'
<1>1. /\ phase' = [phase EXCEPT ![r] = "replied"] /\ phase' \in [Requests -> Phases]
      /\ reply' \in [Requests -> Reply]
  BY AnswerType DEF BaseInv
<1>2. /\ call' \in [Requests -> Call \cup {NoCall}] /\ r \notin landed
      /\ TenantOf(r)' = TenantOf(r)
  BY DEF BaseInv, TypeOK, Progress, TenantOf
<1>3. /\ reply'[r].seen = seen /\ reply'[r].log = log /\ phase'[r] = "replied"
      /\ \A q \in Requests \ {r} :
           call'[q] = call[q] /\ phase'[q] = phase[q] /\ reply'[q] = reply[q]
  BY <1>1 DEF Answer, BaseInv, TypeOK
<1>4. QED
  BY <1>1, <1>2, <1>3, QuietSafe

LEMMA ReceiveSafe ==
  ASSUME BaseInv, BaseInv', Safe, NEW r \in Requests, NEW c \in Calls, Receive(r, c)
  PROVE  Safe'
<1>1. /\ phase[r] = "idle" /\ call' = [call EXCEPT ![r] = c]
      /\ UNCHANGED <<jobs, forgotten, landed>> /\ r \notin landed
  BY DEF Receive, store, history, BaseInv, Progress
<1>2. /\ call' \in [Requests -> Call \cup {NoCall}] /\ phase' \in [Requests -> Phases]
      /\ reply' \in [Requests -> Reply]
  BY DEF BaseInv, TypeOK
<1>3. reply[r].seen = {} /\ reply[r].log = {}
  BY <1>1 DEF Safe, NothingShownYet, BaseInv, TypeOK
<1>4. /\ \A q \in Requests \ {r} :
           call'[q] = call[q] /\ phase'[q] = phase[q] /\ reply'[q] = reply[q]
      /\ reply'[r].seen = {} /\ reply'[r].log = {}
      /\ phase'[r] \in {"store", "reread"} => call'[r].op \notin JobOps
  BY <1>1, <1>2, <1>3 DEF Receive, Answer, Goto, BaseInv, TypeOK
<1>5. QED
  BY <1>1, <1>2, <1>4, QuietSafe

LEMMA EmptyShown ==
  /\ {} \in SUBSET SeenJob /\ {} \in SUBSET AuditEntry
  /\ {"ok", "not_found", "invalid", "error", "conflict"} \subseteq Codes
  BY DEF Codes

LEMMA CheckOwnedSafe ==
  ASSUME BaseInv, BaseInv', Safe, NEW r \in Requests, CheckOwned(r)
  PROVE  Safe'
<1> DEFINE j == call[r].job
           shown == {Seen(j, jobs[j])}
<1>1. /\ phase[r] = "owned" /\ UNCHANGED <<jobs, call, forgotten, landed>>
  BY DEF CheckOwned, At, store, history
<1>2. CASE \E code \in {"not_found", "invalid"} : Answer(r, code, {}, {})
  BY <1>1, <1>2, EmptyShown, AnswerSafe
<1>3. CASE Owned(r) /\ Answer(r, "ok", shown, {})
  <2>1. shown \in SUBSET SeenJob
    BY <1>3, SeenType DEF Owned, BaseInv, TypeOK
  <2>2. \A s \in shown : s.job.tenant = TenantOf(r)
    BY <1>3 DEF Seen, Owned
  <2>3. QED
    BY <1>1, <1>3, <2>1, <2>2, EmptyShown, AnswerSafe
<1>4. CASE Owned(r) /\ Goto(r, "store") /\ UNCHANGED reply
  <2>1. /\ r \notin landed /\ Owned(r)' /\ reply[r].seen = {} /\ reply[r].log = {}
        /\ reply' = reply /\ call' = call
    BY <1>1, <1>4 DEF BaseInv, Progress, Owned, TenantOf, Safe, NothingShownYet
  <2>2. /\ phase' \in [Requests -> Phases] /\ reply' \in [Requests -> Reply]
        /\ call' \in [Requests -> Call \cup {NoCall}]
        /\ \A q \in Requests \ {r} : phase'[q] = phase[q]
    BY <1>4, <2>1 DEF BaseInv, TypeOK, Goto
  <2>3. QED
    BY <1>1, <2>1, <2>2, QuietSafe
<1>5. QED
  BY <1>2, <1>3, <1>4 DEF CheckOwned

LEMMA ClaimSafe ==
  ASSUME BaseInv, BaseInv', Safe, NEW r \in Requests, ClaimJob(r)
  PROVE  Safe'
<1> DEFINE j == call[r].job
           claimed == WithClaim(jobs[j], call[r].runner)
<1>1. /\ phase[r] = "store" /\ call[r].op = "claim" /\ UNCHANGED <<call, forgotten>>
      /\ Owned(r) /\ call[r] \in Call
  BY DEF ClaimJob, At, Safe, OwnershipHeld, JobOps, BaseInv, Progress
<1>2. CASE \E code \in {"error", "not_found", "conflict"} :
             Answer(r, code, {}, {}) /\ UNCHANGED <<jobs, landed>>
  BY <1>1, <1>2, EmptyShown, AnswerSafe
<1>3. CASE jobs[j].status = "pending" /\ UpdateJob(j, claimed) /\ Hold(r, {Seen(j, claimed)})
             /\ Record(r) /\ Goto(r, "audit")
  <2>1. jobs[j] \in Job /\ call[r].runner \in Runners
    BY <1>1 DEF Owned, BaseInv, TypeOK, Call
  <2>2. /\ claimed \in Job /\ claimed.tenant = jobs[j].tenant
        /\ claimed.status = "claimed" /\ claimed.claimedBy = call[r].runner
    BY <2>1, JobType DEF WithClaim, Job
  <2>3. /\ reply' \in [Requests -> Reply] /\ reply'[r].seen = {Seen(j, claimed)}
        /\ reply'[r].log = {} /\ \A q \in Requests \ {r} : reply'[q] = reply[q]
    BY <1>1, <1>3 DEF BaseInv, TypeOK, Hold, Reply, Safe, NothingShownYet
  <2>4. \A s \in reply'[r].seen : s.job.tenant = claimed.tenant
    BY <2>3 DEF Seen
  <2>5. phase' = [phase EXCEPT ![r] = "audit"] /\ "claim" \in JobOps /\ "pending" \notin Completions
    BY <1>3 DEF Goto, JobOps, Completions
  <2>6. QED
    BY <1>1, <1>3, <2>2, <2>3, <2>4, <2>5, LandSafe
<1>4. QED
  BY <1>2, <1>3 DEF ClaimJob, Claimable

LEMMA CompleteSafe ==
  ASSUME BaseInv, BaseInv', Safe, NEW r \in Requests, CompleteJob(r)
  PROVE  Safe'
<1> DEFINE j == call[r].job
           completed == WithCompletion(jobs[j], call[r].arg)
<1>1. /\ phase[r] = "store" /\ call[r].op = "complete" /\ UNCHANGED <<call, forgotten>>
      /\ Owned(r)
  BY DEF CompleteJob, At, Safe, OwnershipHeld, JobOps
<1>2. CASE \E code \in {"invalid", "error", "not_found"} :
             Answer(r, code, {}, {}) /\ UNCHANGED <<jobs, landed>>
  BY <1>1, <1>2, EmptyShown, AnswerSafe
<1>3. CASE call[r].arg \in Completions /\ UpdateJob(j, completed)
             /\ Record(r) /\ Goto(r, "reread") /\ UNCHANGED reply
  <2>1. jobs[j] \in Job
    BY <1>1 DEF Owned, BaseInv, TypeOK
  <2>2. /\ completed \in Job /\ completed.tenant = jobs[j].tenant
        /\ completed.status \in Completions /\ completed.claimedBy = jobs[j].claimedBy
    BY <1>3, <2>1, JobType DEF WithCompletion, Job
  <2>3. /\ reply' \in [Requests -> Reply] /\ reply'[r].seen = {} /\ reply'[r].log = {}
        /\ \A q \in Requests \ {r} : reply'[q] = reply[q]
    BY <1>1, <1>3 DEF BaseInv, TypeOK, Safe, NothingShownYet
  <2>4. /\ phase' = [phase EXCEPT ![r] = "reread"] /\ "complete" \in JobOps
        /\ completed.status # "pending"
    BY <1>3, <2>2 DEF Goto, JobOps, Completions
  <2>5. QED
    BY <1>1, <1>3, <2>2, <2>3, <2>4, LandSafe
<1>4. QED
  BY <1>2, <1>3 DEF CompleteJob, ValidCompletion

LEMMA EventSafe ==
  ASSUME BaseInv, BaseInv', Safe, NEW r \in Requests, AppendEvent(r)
  PROVE  Safe'
<1> DEFINE j == call[r].job
           job == WithEvent(jobs[j], r)
<1>1. /\ phase[r] = "store" /\ call[r].op = "event" /\ UNCHANGED <<call, forgotten>>
      /\ Owned(r)
  BY DEF AppendEvent, At, Safe, OwnershipHeld, JobOps
<1>2. CASE Answer(r, "not_found", {}, {}) /\ UNCHANGED <<jobs, landed>>
  BY <1>1, <1>2, EmptyShown, AnswerSafe
<1>3. CASE UpdateJob(j, job) /\ Record(r) /\ Answer(r, "ok", {}, {})
  <2>1. jobs[j] \in Job
    BY <1>1 DEF Owned, BaseInv, TypeOK
  <2>2. /\ job \in Job /\ job.tenant = jobs[j].tenant /\ job.claimedBy = jobs[j].claimedBy
        /\ job.status \in {jobs[j].status, "running"}
        /\ jobs[j].status # "claimed" => job.status = jobs[j].status
    BY <2>1, JobType DEF WithEvent, Job, Starts
  <2>3. /\ phase' = [phase EXCEPT ![r] = "replied"] /\ reply' \in [Requests -> Reply]
    BY <1>3, EmptyShown, AnswerType DEF BaseInv
  <2>4. /\ reply'[r].seen = {} /\ reply'[r].log = {}
        /\ \A q \in Requests \ {r} : reply'[q] = reply[q]
    BY <1>3 DEF Answer, BaseInv, TypeOK
  <2>5. /\ "event" \in JobOps /\ "claimed" \notin Completions
        /\ jobs[j].status # "pending" => job.status # "pending"
        /\ jobs[j].status \in Completions => job.status \in Completions
    BY <2>2 DEF JobOps, Completions
  <2>6. QED
    BY <1>1, <1>3, <2>2, <2>3, <2>4, <2>5, LandSafe
<1>4. QED
  BY <1>2, <1>3 DEF AppendEvent

LEMMA ResultSafe ==
  ASSUME BaseInv, BaseInv', Safe, NEW r \in Requests, SetResult(r)
  PROVE  Safe'
<1> DEFINE j == call[r].job
           job == WithResult(jobs[j], r)
<1>1. /\ phase[r] = "store" /\ call[r].op = "upload" /\ UNCHANGED <<call, forgotten>>
      /\ Owned(r)
  BY DEF SetResult, At, Safe, OwnershipHeld, JobOps
<1>2. CASE Answer(r, "not_found", {}, {}) /\ UNCHANGED <<jobs, landed>>
  BY <1>1, <1>2, EmptyShown, AnswerSafe
<1>3. CASE UpdateJob(j, job) /\ Record(r) /\ Goto(r, "audit") /\ UNCHANGED reply
  <2>1. jobs[j] \in Job
    BY <1>1 DEF Owned, BaseInv, TypeOK
  <2>2. /\ job \in Job /\ job.tenant = jobs[j].tenant /\ job.claimedBy = jobs[j].claimedBy
        /\ job.status = jobs[j].status
    BY <2>1, JobType DEF WithResult, Job
  <2>3. /\ reply' \in [Requests -> Reply] /\ reply'[r].seen = {} /\ reply'[r].log = {}
        /\ \A q \in Requests \ {r} : reply'[q] = reply[q]
    BY <1>1, <1>3 DEF BaseInv, TypeOK, Safe, NothingShownYet
  <2>4. phase' = [phase EXCEPT ![r] = "audit"] /\ "upload" \in JobOps
    BY <1>3 DEF Goto, JobOps
  <2>5. QED
    BY <1>1, <1>3, <2>2, <2>3, <2>4, LandSafe, ZenonT(60)
<1>4. QED
  BY <1>2, <1>3 DEF SetResult

LEMMA CreateSafe ==
  ASSUME BaseInv, BaseInv', Safe, NEW r \in Requests, CreateJob(r)
  PROVE  Safe'
<1> DEFINE new == NewJob(TenantOf(r))
<1>1. PICK id \in NewIds, ok \in Outcomes :
        IF ok /\ id \notin DOMAIN jobs
         THEN /\ jobs' = [j \in DOMAIN jobs \cup {id} |-> IF j = id THEN new ELSE jobs[j]]
              /\ call' = [call EXCEPT ![r].job = id]
              /\ Hold(r, {Seen(id, new)})
              /\ Record(r)
              /\ Goto(r, "audit")
         ELSE /\ Answer(r, "invalid", {}, {})
              /\ UNCHANGED <<jobs, call, landed>>
  BY DEF CreateJob
<1>2. /\ phase[r] = "store" /\ call[r].op = "create" /\ call[r] \in Call
      /\ forgotten' = forgotten /\ id \notin forgotten
  BY <1>1 DEF CreateJob, At, NewIds, BaseInv, Progress
<1>3. CASE ~(ok /\ id \notin DOMAIN jobs)
  BY <1>1, <1>2, <1>3, EmptyShown, AnswerSafe
<1>4. CASE ok /\ id \notin DOMAIN jobs
  <2> USE DEF Safe
  <2>1. /\ DOMAIN jobs' = DOMAIN jobs \cup {id} /\ jobs'[id] = new
        /\ \A k \in DOMAIN jobs : jobs'[k] = jobs[k]
        /\ landed' = landed \cup {r} /\ r \notin landed /\ landed \subseteq Requests
        /\ phase' = [phase EXCEPT ![r] = "audit"]
    BY <1>1, <1>2, <1>4 DEF Record, Goto, BaseInv, TypeOK, Progress
  <2>2. /\ \A q \in Requests \ {r} : call'[q] = call[q] /\ reply'[q] = reply[q]
        /\ call'[r].op = "create" /\ call'[r].job = id /\ call'[r].token = call[r].token
        /\ reply'[r].seen = {Seen(id, new)} /\ reply'[r].log = {}
    <3>1. /\ call' = [call EXCEPT ![r].job = id]
          /\ reply' = [reply EXCEPT ![r].seen = {Seen(id, new)}]
      BY <1>1, <1>4 DEF Hold
    <3>2. call'[r] = [call[r] EXCEPT !.job = id] /\ reply[r].log = {}
      BY <1>2, <3>1 DEF BaseInv, TypeOK, NothingShownYet
    <3>3. reply'[r] = [reply[r] EXCEPT !.seen = {Seen(id, new)}]
      BY <3>1 DEF BaseInv, TypeOK
    <3>4. reply'[r].seen = {Seen(id, new)} /\ reply'[r].log = {}
      BY <3>2, <3>3 DEF BaseInv, TypeOK, Reply
    <3>5. QED
      BY <1>2, <3>1, <3>2, <3>4 DEF BaseInv, TypeOK, Call
  <2>3. \A q \in Requests : TenantOf(q)' = TenantOf(q)
    BY <2>2 DEF TenantOf
  <2>4. new.tenant = TenantOf(r) /\ Seen(id, new).job = new
    BY DEF NewJob, Seen
  <2>5. ForgottenGone' /\ LandedKnown'
    BY <1>2, <2>1, <2>2 DEF ForgottenGone, LandedKnown
  <2>6. OwnershipHeld'
    BY <2>1, <2>2, <2>3 DEF OwnershipHeld, Owned, BaseInv, TypeOK
  <2>7. NothingShownYet'
    BY <2>1, <2>2 DEF NothingShownYet, BaseInv, TypeOK
  <2>8. \A q \in landed : call[q].job # id
    BY <1>2, <1>4, ConstantsAssumption DEF LandedKnown, NewIds
  <2>9. Landed("claim")' = Landed("claim") /\ Landed("complete")' = Landed("complete")
    BY <2>1, <2>2 DEF Landed
  <2>10. \A q \in Landed("claim") \cup Landed("complete") :
           /\ q # r /\ q \in Requests /\ call[q].job # id
           /\ call'[q] = call[q] /\ reply'[q] = reply[q]
    BY <2>1, <2>2, <2>8 DEF Landed
  <2>11. ClaimsHold'
    BY <2>1, <2>9, <2>10 DEF ClaimsHold
  <2>12. SingleClaim'
    BY <2>9, <2>10 DEF SingleClaim
  <2>13. CompletionSticks'
    BY <2>1, <2>9, <2>10 DEF CompletionSticks
  <2>14. TenantIsolation'
    <3>1. /\ \A q \in Requests : \A s \in reply'[q].seen \ {EmptyJob} : s.job.tenant = TenantOf(q)'
          /\ \A q \in Requests : \A e \in reply'[q].log : e.tenant = TenantOf(q)'
      BY <2>2, <2>3, <2>4 DEF TenantIsolation
    <3>2. ASSUME NEW q \in landed', call'[q].job \in DOMAIN jobs'
          PROVE  jobs'[call'[q].job].tenant = TenantOf(q)'
      <4>1. CASE q = r
        BY <2>1, <2>2, <2>3, <2>4, <4>1
      <4>2. CASE q # r
        BY <2>1, <2>2, <2>3, <2>8, <3>2, <4>2 DEF TenantIsolation
      <4>3. QED
        BY <4>1, <4>2
    <3>3. QED
      BY <3>1, <3>2 DEF TenantIsolation
  <2>15. QED
    BY <2>5, <2>6, <2>7, <2>11, <2>12, <2>13, <2>14
<1>5. QED
  BY <1>3, <1>4

LEMMA RereadSafe ==
  ASSUME BaseInv, BaseInv', Safe, NEW r \in Requests, RereadJob(r)
  PROVE  Safe'
<1> DEFINE j == call[r].job
<1>1. /\ phase[r] = "reread" /\ call[r].op = "complete" /\ r \in landed
      /\ phase' = [phase EXCEPT ![r] = "audit"]
      /\ UNCHANGED <<jobs, call, forgotten, landed>>
      /\ j \in DOMAIN jobs
  BY DEF RereadJob, At, Goto, store, history, BaseInv, Progress, MayBeDropped,
         Safe, OwnershipHeld, Owned, JobOps
<1>2. PICK ok \in Outcomes :
        Hold(r, {IF ok /\ j \in DOMAIN jobs THEN Seen(j, jobs[j]) ELSE EmptyJob})
  BY DEF RereadJob
<1>3. /\ call' \in [Requests -> Call \cup {NoCall}] /\ phase' \in [Requests -> Phases]
      /\ reply' \in [Requests -> Reply] /\ TenantOf(r)' = TenantOf(r)
  BY <1>1 DEF BaseInv, TypeOK, TenantOf
<1>4. \A s \in reply'[r].seen : s.job = jobs[j] \/ (s = EmptyJob /\ Durable /\ IOErrors)
  <2>1. reply'[r].seen = {IF ok /\ j \in DOMAIN jobs THEN Seen(j, jobs[j]) ELSE EmptyJob}
    BY <1>2 DEF Hold, BaseInv, TypeOK, Reply
  <2>2. Seen(j, jobs[j]).job = jobs[j]
    BY DEF Seen
  <2>3. ~ok => Durable /\ IOErrors
    BY DEF Outcomes
  <2>4. QED
    BY <1>1, <2>1, <2>2, <2>3
<1>5. reply'[r].log = {}
  BY <1>1, <1>2 DEF Hold, BaseInv, TypeOK, Reply, Safe, NothingShownYet
<1>6. j \in DOMAIN jobs => jobs[j].status \in Completions /\ jobs[j].tenant = TenantOf(r)
  BY <1>1 DEF Safe, CompletionSticks, TenantIsolation, Landed
<1>7. /\ \A q \in Requests \ {r} :
           call'[q] = call[q] /\ phase'[q] = phase[q] /\ reply'[q] = reply[q]
      /\ phase'[r] = "audit" /\ call'[r] = call[r]
  BY <1>1, <1>2 DEF Hold, BaseInv, TypeOK
<1>8. /\ \A s \in reply'[r].seen : FitAnswer(s)
      /\ \A s \in reply'[r].seen \ {EmptyJob} : s.job.tenant = TenantOf(r)'
  BY <1>1, <1>3, <1>4, <1>6 DEF FitAnswer
<1>9. QED
  BY <1>1, <1>3, <1>5, <1>7, <1>8, QuietSafe

LEMMA HeartbeatSafe ==
  ASSUME BaseInv, BaseInv', Safe, NEW r \in Requests, Heartbeat(r)
  PROVE  Safe'
<1> USE DEF Safe
<1>1. /\ phase[r] = "store" /\ call[r].op = "heartbeat" /\ call[r].job = None
      /\ phase' = [phase EXCEPT ![r] = "audit"] /\ landed' \in {landed, landed \cup {r}}
      /\ UNCHANGED <<jobs, call, reply, forgotten>>
  BY DEF Heartbeat, At, Record, Goto, BaseInv, Progress
<1>2. \A q \in Requests : TenantOf(q)' = TenantOf(q) /\ (Owned(q)' <=> Owned(q))
  BY <1>1 DEF TenantOf, Owned
<1>3. None \notin DOMAIN jobs
  BY ConstantsAssumption DEF BaseInv, TypeOK
<1>4. ForgottenGone' /\ LandedKnown'
  BY <1>1 DEF ForgottenGone, LandedKnown
<1>5. OwnershipHeld'
  BY <1>1, <1>2 DEF OwnershipHeld, BaseInv, TypeOK
<1>6. NothingShownYet'
  BY <1>1 DEF NothingShownYet, BaseInv, TypeOK
<1>7. Landed("claim")' = Landed("claim") /\ Landed("complete")' = Landed("complete")
  BY <1>1 DEF Landed
<1>8. ClaimsHold' /\ SingleClaim' /\ CompletionSticks'
  BY <1>1, <1>7 DEF ClaimsHold, SingleClaim, CompletionSticks
<1>9. TenantIsolation'
  <2>1. \A q \in Requests : \A s \in reply'[q].seen \ {EmptyJob} : s.job.tenant = TenantOf(q)'
    BY <1>1, <1>2 DEF TenantIsolation
  <2>2. \A q \in Requests : \A e \in reply'[q].log : e.tenant = TenantOf(q)'
    BY <1>1, <1>2 DEF TenantIsolation
  <2>3. ASSUME NEW q \in landed', call'[q].job \in DOMAIN jobs'
        PROVE  jobs'[call'[q].job].tenant = TenantOf(q)'
    <3>1. q \in landed /\ q \in Requests
      BY <1>1, <1>3, <2>3 DEF BaseInv, TypeOK
    <3>2. QED
      BY <1>1, <1>2, <2>3, <3>1 DEF TenantIsolation
  <2>4. QED
    BY <2>1, <2>2, <2>3 DEF TenantIsolation
<1>10. QED
  BY <1>4, <1>5, <1>6, <1>8, <1>9

LEMMA ListPendingSafe ==
  ASSUME BaseInv, BaseInv', Safe, NEW r \in Requests, ListPending(r)
  PROVE  Safe'
<1>1. phase[r] = "store" /\ UNCHANGED <<jobs, call, forgotten, landed>>
  BY DEF ListPending, At, store, history
<1>2. PICK ok \in Outcomes :
        Answer(r, "ok", { Seen(j, jobs[j]) : j \in
          { j \in DOMAIN jobs :
              ok /\ jobs[j].status = "pending" /\ jobs[j].tenant = TenantOf(r) } }, {})
  BY DEF ListPending
<1> DEFINE mine == { j \in DOMAIN jobs :
                       ok /\ jobs[j].status = "pending" /\ jobs[j].tenant = TenantOf(r) }
           shown == { Seen(j, jobs[j]) : j \in mine }
<1>3. \A j \in DOMAIN jobs : Seen(j, jobs[j]) \in SeenJob
  BY DEF Seen, SeenJob, BaseInv, TypeOK
<1>4. shown \in SUBSET SeenJob
  BY <1>3
<1>5. \A s \in shown : s.job.tenant = TenantOf(r)
  BY DEF Seen
<1>6. Answer(r, "ok", shown, {})
  BY <1>2
<1> HIDE DEF shown
<1>7. QED
  BY <1>1, <1>4, <1>5, <1>6, EmptyShown, AnswerSafe

LEMMA ReadAuditLogSafe ==
  ASSUME BaseInv, BaseInv', Safe, NEW r \in Requests, ReadAuditLog(r)
  PROVE  Safe'
<1>1. phase[r] = "store" /\ UNCHANGED <<jobs, call, forgotten, landed>>
  BY DEF ReadAuditLog, At, store, history
<1>2. PICK ok \in Outcomes :
        Answer(r, "ok", {}, { audit[i] : i \in
          { i \in 1..Len(audit) : ok /\ audit[i].tenant = TenantOf(r) } })
  BY DEF ReadAuditLog
<1> DEFINE log == { audit[i] : i \in { i \in 1..Len(audit) : ok /\ audit[i].tenant = TenantOf(r) } }
<1>3. log \in SUBSET AuditEntry /\ \A e \in log : e.tenant = TenantOf(r)
  BY DEF BaseInv, TypeOK
<1>4. Answer(r, "ok", {}, log)
  BY <1>2
<1> HIDE DEF log
<1>5. QED
  BY <1>1, <1>3, <1>4, EmptyShown, AnswerSafe

LEMMA WriteAuditSafe ==
  ASSUME BaseInv, BaseInv', Safe, NEW r \in Requests, WriteAudit(r)
  PROVE  Safe'
<1>1. /\ phase[r] = "audit" /\ Answer(r, "ok", reply[r].seen, {})
      /\ call[r].op = "complete" => r \in landed
      /\ UNCHANGED <<jobs, call, forgotten, landed>>
  BY DEF WriteAudit, At, BaseInv, Progress, MayBeDropped
<1>2. /\ call' \in [Requests -> Call \cup {NoCall}] /\ phase' \in [Requests -> Phases]
      /\ reply' \in [Requests -> Reply] /\ TenantOf(r)' = TenantOf(r)
  BY <1>1 DEF BaseInv, TypeOK, TenantOf
<1>3. /\ reply'[r].seen = reply[r].seen /\ reply'[r].log = {} /\ phase'[r] = "replied"
      /\ call'[r] = call[r]
      /\ \A q \in Requests \ {r} :
           call'[q] = call[q] /\ phase'[q] = phase[q] /\ reply'[q] = reply[q]
  BY <1>1 DEF Answer, Goto, BaseInv, TypeOK
<1>4. /\ \A s \in reply[r].seen \ {EmptyJob} : s.job.tenant = TenantOf(r)
      /\ call[r].op = "complete" => \A s \in reply[r].seen : FitAnswer(s)
  BY <1>1 DEF Safe, TenantIsolation, CompletionSticks, Landed, FitAnswer
<1>5. QED
  BY <1>1, <1>2, <1>3, <1>4, QuietSafe

LEMMA StopSafe ==
  ASSUME BaseInv, BaseInv', Safe, Stop
  PROVE  Safe'
<1> USE DEF Safe
<1>1. /\ UNCHANGED <<call, reply, landed>>
      /\ phase' = [q \in Requests |-> IF phase[q] \in Active THEN "cut" ELSE phase[q]]
      /\ phase \in [Requests -> Phases]
  BY DEF Stop, BaseInv, TypeOK
<1>2. \/ UNCHANGED <<jobs, forgotten>>
      \/ DOMAIN jobs' = {} /\ forgotten' = forgotten \cup DOMAIN jobs
  BY DEF Stop, store
<1>3. \A q \in Requests : TenantOf(q)' = TenantOf(q)
  BY <1>1 DEF TenantOf
<1>4. \A k \in DOMAIN jobs' : k \in DOMAIN jobs /\ jobs'[k] = jobs[k]
  BY <1>2
<1>5. ForgottenGone' /\ LandedKnown'
  BY <1>1, <1>2 DEF ForgottenGone, LandedKnown
<1>6. OwnershipHeld'
  BY <1>1 DEF OwnershipHeld
<1>7. NothingShownYet'
  BY <1>1 DEF NothingShownYet
<1>8. Landed("claim")' = Landed("claim") /\ Landed("complete")' = Landed("complete")
  BY <1>1 DEF Landed
<1>9. ClaimsHold' /\ SingleClaim'
  BY <1>1, <1>4, <1>8 DEF ClaimsHold, SingleClaim
<1>10. CompletionSticks'
  BY <1>1, <1>4, <1>8 DEF CompletionSticks
<1>11. TenantIsolation'
  <2>1. \A q \in Requests : \A s \in reply'[q].seen \ {EmptyJob} : s.job.tenant = TenantOf(q)'
    BY <1>1, <1>3 DEF TenantIsolation
  <2>2. \A q \in Requests : \A e \in reply'[q].log : e.tenant = TenantOf(q)'
    BY <1>1, <1>3 DEF TenantIsolation
  <2>3. ASSUME NEW q \in landed', call'[q].job \in DOMAIN jobs'
        PROVE  jobs'[call'[q].job].tenant = TenantOf(q)'
    <3>1. q \in landed /\ q \in Requests
      BY <1>1, <2>3 DEF BaseInv, TypeOK
    <3>2. QED
      BY <1>1, <1>3, <1>4, <2>3, <3>1 DEF TenantIsolation
  <2>4. QED
    BY <2>1, <2>2, <2>3 DEF TenantIsolation
<1>12. QED
  BY <1>5, <1>6, <1>7, <1>9, <1>10, <1>11

LEMMA ServerSafe ==
  ASSUME Safe, Drain \/ Restart \/ UNCHANGED vars
  PROVE  Safe'
<1>1. UNCHANGED <<store, phase, call, reply, history>>
  BY DEF Drain, Restart, vars
<1>2. QED
  BY <1>1 DEF store, history, Safe, ForgottenGone, LandedKnown, OwnershipHeld, Owned,
     TenantOf, NothingShownYet, ClaimsHold, SingleClaim, CompletionSticks, TenantIsolation, Landed

LEMMA NextSafe == BaseInv /\ BaseInv' /\ Safe /\ [Next]_vars => Safe'
<1> SUFFICES ASSUME BaseInv, BaseInv', Safe, [Next]_vars PROVE Safe'
  OBVIOUS
<1>1. ASSUME NEW r \in Requests, NEW c \in Calls, Receive(r, c) PROVE Safe'
  BY <1>1, ReceiveSafe
<1>2. ASSUME NEW r \in Requests, Step(r) PROVE Safe'
  BY <1>2, CheckOwnedSafe, CreateSafe, ClaimSafe, CompleteSafe, RereadSafe, EventSafe,
     ResultSafe, HeartbeatSafe, ListPendingSafe, ReadAuditLogSafe, WriteAuditSafe DEF Step
<1>3. CASE Stop
  BY <1>3, StopSafe
<1>4. CASE Drain \/ Restart \/ UNCHANGED vars
  BY <1>4, ServerSafe
<1>5. QED
  BY <1>1, <1>2, <1>3, <1>4 DEF Next

LEMMA AlwaysSafe == Spec => [](BaseInv /\ Safe)
  BY InitBase, InitSafe, NextBase, NextSafe, PTL DEF Spec

\* No job is ever claimed by two requests, so by two runners, whatever the
\* interleaving of claims, retries, I/O errors and restarts.
THEOREM ClaimedOnce == Spec => []SingleClaim
<1>1. BaseInv /\ Safe => SingleClaim
  BY DEF Safe
<1>2. QED
  BY <1>1, AlwaysSafe, PTL

\* A claim answered with a job showed the caller's own claim, and the job stays
\* claimed by that caller until a Memory store ends.
THEOREM ClaimsAreHonoured == Spec => []ClaimHonoured
<1>1. BaseInv /\ Safe => ClaimHonoured
  BY DEF Safe, ClaimsHold, ClaimHonoured
<1>2. QED
  BY <1>1, AlwaysSafe, PTL

\* A completed job stays completed, and no completion is answered with an
\* unfinished job although it is read again after the update.
THEOREM CompletionsStick == Spec => []CompletionSticks
<1>1. BaseInv /\ Safe => CompletionSticks
  BY DEF Safe
<1>2. QED
  BY <1>1, AlwaysSafe, PTL

\* Handlers check ownership in one critical section and act in another; still
\* no request shows or changes another tenant's job or audit entry.
THEOREM TenantsAreIsolated == Spec => []TenantIsolation
<1>1. BaseInv /\ Safe => TenantIsolation
  BY DEF Safe
<1>2. QED
  BY <1>1, AlwaysSafe, PTL

-----------------------------------------------------------------------------
(* The queue implements JobLifecycle: what each step does to the lives of  *)
(* all jobs as JobLifecycle sees them.                                     *)

StatusSeen == [j \in Jobs |-> IF j \in DOMAIN jobs THEN jobs[j].status
                              ELSE IF j \in forgotten THEN "lost" ELSE "absent"]
OwnerSeen == [j \in Jobs |-> IF j \in DOMAIN jobs THEN jobs[j].claimedBy ELSE None]

\* Steps that leave the jobs alone.
LEMMA LifeStays ==
  ASSUME UNCHANGED <<jobs, forgotten>>
  PROVE  UNCHANGED Lifecycle!vars
BY DEF Lifecycle!vars

\* A change of one stored job is a change of one life.
LEMMA LifeChanges ==
  ASSUME BaseInv, NEW j \in DOMAIN jobs, NEW job \in Job, UpdateJob(j, job), forgotten' = forgotten
  PROVE  /\ StatusSeen' = [StatusSeen EXCEPT ![j] = job.status]
         /\ OwnerSeen' = [OwnerSeen EXCEPT ![j] = job.claimedBy]
         /\ j \in Jobs /\ StatusSeen[j] = jobs[j].status /\ OwnerSeen[j] = jobs[j].claimedBy
<1>1. j \in Jobs /\ DOMAIN jobs \subseteq Jobs
  BY DEF BaseInv, TypeOK
<1>2. DOMAIN jobs' = DOMAIN jobs /\ jobs'[j] = job
      /\ \A k \in DOMAIN jobs : k # j => jobs'[k] = jobs[k]
  BY DEF UpdateJob
<1>3. \A k \in Jobs : StatusSeen'[k] = IF k = j THEN job.status ELSE StatusSeen[k]
  BY <1>1, <1>2 DEF StatusSeen
<1>4. \A k \in Jobs : OwnerSeen'[k] = IF k = j THEN job.claimedBy ELSE OwnerSeen[k]
  BY <1>1, <1>2 DEF OwnerSeen
<1>5. StatusSeen' = [StatusSeen EXCEPT ![j] = job.status]
  BY <1>3 DEF StatusSeen
<1>6. OwnerSeen' = [OwnerSeen EXCEPT ![j] = job.claimedBy]
  BY <1>4 DEF OwnerSeen
<1>7. StatusSeen[j] = jobs[j].status /\ OwnerSeen[j] = jobs[j].claimedBy
  BY <1>1 DEF StatusSeen, OwnerSeen
<1>8. QED
  BY <1>1, <1>5, <1>6, <1>7

\* A change that keeps status and claimant is none to JobLifecycle.
LEMMA LifeKept ==
  ASSUME BaseInv, NEW j \in DOMAIN jobs, NEW job \in Job, UpdateJob(j, job), forgotten' = forgotten,
         job.status = jobs[j].status, job.claimedBy = jobs[j].claimedBy
  PROVE  UNCHANGED Lifecycle!vars
<1>1. /\ StatusSeen' = [StatusSeen EXCEPT ![j] = StatusSeen[j]]
      /\ OwnerSeen' = [OwnerSeen EXCEPT ![j] = OwnerSeen[j]]
  BY LifeChanges
<1>2. StatusSeen' = StatusSeen /\ OwnerSeen' = OwnerSeen
  BY <1>1 DEF StatusSeen, OwnerSeen
<1>3. QED
  BY <1>2 DEF Lifecycle!vars, StatusSeen, OwnerSeen

LEMMA StoredJob ==
  ASSUME BaseInv, NEW j \in DOMAIN jobs
  PROVE  jobs[j] \in Job /\ jobs[j].status \in Statuses /\ jobs[j].claimedBy \in Runners \cup {None}
BY DEF BaseInv, TypeOK, Job

LEMMA CallType ==
  ASSUME BaseInv, NEW r \in Requests, phase[r] # "idle"
  PROVE  call[r].runner \in Runners
BY DEF BaseInv, Progress, Call

LEMMA CreateLives ==
  ASSUME BaseInv, NEW r \in Requests, CreateJob(r)
  PROVE  [Lifecycle!Next]_(Lifecycle!vars)
<1>1. CASE UNCHANGED <<jobs, forgotten>>
  BY <1>1, LifeStays
<1>2. CASE \E id \in NewIds : /\ id \notin DOMAIN jobs
                              /\ jobs' = [j \in DOMAIN jobs \cup {id} |->
                                            IF j = id THEN NewJob(TenantOf(r)) ELSE jobs[j]]
  <2>1. PICK id \in NewIds : /\ id \notin DOMAIN jobs
                             /\ jobs' = [j \in DOMAIN jobs \cup {id} |->
                                            IF j = id THEN NewJob(TenantOf(r)) ELSE jobs[j]]
    BY <1>2
  <2>2. id \in Jobs /\ id \notin forgotten /\ forgotten' = forgotten /\ DOMAIN jobs \subseteq Jobs
    BY <2>1 DEF NewIds, CreateJob, BaseInv, TypeOK
  <2>3. NewJob(TenantOf(r)).status = "pending" /\ NewJob(TenantOf(r)).claimedBy = None
    BY DEF NewJob
  <2>4. \A k \in Jobs : /\ StatusSeen'[k] = IF k = id THEN "pending" ELSE StatusSeen[k]
                        /\ OwnerSeen'[k] = OwnerSeen[k]
    BY <2>1, <2>2, <2>3 DEF StatusSeen, OwnerSeen
  <2>5. StatusSeen' = [StatusSeen EXCEPT ![id] = "pending"] /\ OwnerSeen' = OwnerSeen
    BY <2>4 DEF StatusSeen, OwnerSeen
  <2>6. StatusSeen[id] = "absent"
    BY <2>1, <2>2 DEF StatusSeen
  <2>7. Lifecycle!Enqueue(id)
    BY <2>5, <2>6 DEF Lifecycle!Enqueue, StatusSeen, OwnerSeen
  <2>8. QED
    BY <2>2, <2>7 DEF Lifecycle!Next
<1>3. QED
  BY <1>1, <1>2 DEF CreateJob

LEMMA ClaimLives ==
  ASSUME BaseInv, NEW r \in Requests, ClaimJob(r)
  PROVE  [Lifecycle!Next]_(Lifecycle!vars)
<1>1. CASE UNCHANGED <<jobs, forgotten>>
  BY <1>1, LifeStays
<1>2. ASSUME NEW j \in DOMAIN jobs, NEW u, u = call[r].runner,
             Claimable(jobs[j]), UpdateJob(j, WithClaim(jobs[j], u))
      PROVE  [Lifecycle!Next]_(Lifecycle!vars)
  <2>1. forgotten' = forgotten /\ u \in Runners
    BY <1>2, CallType DEF ClaimJob, At
  <2>2. jobs[j] \in Job /\ jobs[j].status = "pending"
    BY <1>2, StoredJob DEF Claimable
  <2>3. WithClaim(jobs[j], u) \in Job
    BY <2>1, <2>2, JobType
  <2>4. WithClaim(jobs[j], u).status = "claimed" /\ WithClaim(jobs[j], u).claimedBy = u
    BY <2>2 DEF WithClaim, Job
  <2>5. /\ StatusSeen' = [StatusSeen EXCEPT ![j] = "claimed"]
        /\ OwnerSeen' = [OwnerSeen EXCEPT ![j] = u]
        /\ j \in Jobs /\ StatusSeen[j] = "pending"
    BY <1>2, <2>1, <2>2, <2>3, <2>4, LifeChanges
  <2>6. Lifecycle!Claim(j, u)
    BY <2>5 DEF Lifecycle!Claim, StatusSeen, OwnerSeen
  <2>7. QED
    BY <2>1, <2>5, <2>6 DEF Lifecycle!Next
<1>3. QED
  BY <1>1, <1>2 DEF ClaimJob

LEMMA CompleteLives ==
  ASSUME BaseInv, NEW r \in Requests, CompleteJob(r)
  PROVE  [Lifecycle!Next]_(Lifecycle!vars)
<1>1. CASE UNCHANGED <<jobs, forgotten>>
  BY <1>1, LifeStays
<1>2. ASSUME NEW j \in DOMAIN jobs, NEW s, ValidCompletion(s),
             UpdateJob(j, WithCompletion(jobs[j], s))
      PROVE  [Lifecycle!Next]_(Lifecycle!vars)
  <2>1. forgotten' = forgotten /\ s \in Completions
    BY <1>2 DEF CompleteJob, ValidCompletion
  <2>2. jobs[j] \in Job /\ jobs[j].status \in Statuses
    BY <1>2, StoredJob
  <2>3. WithCompletion(jobs[j], s) \in Job
    BY <2>1, <2>2, JobType
  <2>4. WithCompletion(jobs[j], s).status = s
        /\ WithCompletion(jobs[j], s).claimedBy = jobs[j].claimedBy
    BY <2>2 DEF WithCompletion, Job
  <2>5. /\ StatusSeen' = [StatusSeen EXCEPT ![j] = s]
        /\ OwnerSeen' = [OwnerSeen EXCEPT ![j] = OwnerSeen[j]]
        /\ j \in Jobs /\ StatusSeen[j] \in Statuses
    BY <1>2, <2>1, <2>2, <2>3, <2>4, LifeChanges
  <2>6. OwnerSeen' = OwnerSeen
    BY <2>5 DEF OwnerSeen
  <2>7. Lifecycle!Finish(j, s)
    BY <2>5, <2>6 DEF Lifecycle!Finish, Lifecycle!Live, Lifecycle!Terminal, Statuses, Completions,
                      StatusSeen, OwnerSeen
  <2>8. QED
    BY <2>1, <2>5, <2>7 DEF Lifecycle!Next, Lifecycle!Terminal, Completions
<1>3. QED
  BY <1>1, <1>2 DEF CompleteJob

LEMMA EventLives ==
  ASSUME BaseInv, NEW r \in Requests, AppendEvent(r) \/ SetResult(r)
  PROVE  [Lifecycle!Next]_(Lifecycle!vars)
<1>1. CASE UNCHANGED <<jobs, forgotten>>
  BY <1>1, LifeStays
<1>2. ASSUME NEW j \in DOMAIN jobs, UpdateJob(j, WithEvent(jobs[j], r))
      PROVE  [Lifecycle!Next]_(Lifecycle!vars)
  <2>1. forgotten' = forgotten
    BY DEF AppendEvent, SetResult
  <2>2. jobs[j] \in Job
    BY <1>2, StoredJob
  <2>3. WithEvent(jobs[j], r) \in Job
    BY <2>2, JobType
  <2>4. /\ WithEvent(jobs[j], r).claimedBy = jobs[j].claimedBy
        /\ WithEvent(jobs[j], r).status =
             IF Starts(jobs[j], call[r].arg) THEN "running" ELSE jobs[j].status
    BY <2>2 DEF WithEvent, Job
  <2>5. CASE Starts(jobs[j], call[r].arg)
    <3>1. /\ StatusSeen' = [StatusSeen EXCEPT ![j] = "running"]
          /\ OwnerSeen' = [OwnerSeen EXCEPT ![j] = OwnerSeen[j]]
          /\ j \in Jobs /\ StatusSeen[j] = "claimed"
      BY <1>2, <2>1, <2>2, <2>3, <2>4, <2>5, LifeChanges DEF Starts
    <3>2. OwnerSeen' = OwnerSeen
      BY <3>1 DEF OwnerSeen
    <3>3. Lifecycle!Start(j)
      BY <3>1, <3>2 DEF Lifecycle!Start, StatusSeen, OwnerSeen
    <3>4. QED
      BY <3>1, <3>3 DEF Lifecycle!Next
  <2>6. CASE ~Starts(jobs[j], call[r].arg)
    BY <1>2, <2>1, <2>3, <2>4, <2>6, LifeKept
  <2>7. QED
    BY <2>5, <2>6
<1>3. ASSUME NEW j \in DOMAIN jobs, UpdateJob(j, WithResult(jobs[j], r))
      PROVE  [Lifecycle!Next]_(Lifecycle!vars)
  <2>1. forgotten' = forgotten
    BY DEF AppendEvent, SetResult
  <2>2. jobs[j] \in Job
    BY <1>3, StoredJob
  <2>3. WithResult(jobs[j], r) \in Job
    BY <2>2, JobType
  <2>4. /\ WithResult(jobs[j], r).claimedBy = jobs[j].claimedBy
        /\ WithResult(jobs[j], r).status = jobs[j].status
    BY <2>2 DEF WithResult, Job
  <2>5. QED
    BY <1>3, <2>1, <2>3, <2>4, LifeKept
<1>4. QED
  BY <1>1, <1>2, <1>3 DEF AppendEvent, SetResult

LEMMA StopLives ==
  ASSUME BaseInv, Safe, Stop
  PROVE  [Lifecycle!Next]_(Lifecycle!vars)
<1>1. CASE Durable
  BY <1>1, LifeStays DEF Stop, store
<1>2. CASE ~Durable
  <2>1. DOMAIN jobs' = {} /\ forgotten' = forgotten \cup DOMAIN jobs
    BY <1>2 DEF Stop
  <2>2. forgotten \cap DOMAIN jobs = {}
    BY DEF Safe, ForgottenGone
  <2>3. \A k \in Jobs : k \in DOMAIN jobs => jobs[k].status \in Lifecycle!Live
    BY StoredJob DEF Lifecycle!Live, Lifecycle!Terminal, Statuses, Completions
  <2>4. \A k \in Jobs : StatusSeen'[k] = IF StatusSeen[k] \in Lifecycle!Live
                                         THEN "lost" ELSE StatusSeen[k]
    BY <2>1, <2>2, <2>3 DEF StatusSeen, Lifecycle!Live, Lifecycle!Terminal
  <2>5. StatusSeen' = [k \in Jobs |-> IF StatusSeen[k] \in Lifecycle!Live
                                      THEN "lost" ELSE StatusSeen[k]]
    BY <2>4 DEF StatusSeen
  <2>6. OwnerSeen' = [k \in Jobs |-> None]
    BY <2>1 DEF OwnerSeen
  <2>7. Lifecycle!LoseAll
    BY <1>2, <2>5, <2>6 DEF Lifecycle!LoseAll, StatusSeen, OwnerSeen
  <2>8. QED
    BY <2>7 DEF Lifecycle!Next
<1>3. QED
  BY <1>1, <1>2

LEMMA NextLives == BaseInv /\ Safe /\ [Next]_vars => [Lifecycle!Next]_(Lifecycle!vars)
<1> SUFFICES ASSUME BaseInv, Safe, [Next]_vars PROVE [Lifecycle!Next]_(Lifecycle!vars)
  OBVIOUS
<1>1. ASSUME NEW r \in Requests, NEW c \in Calls, Receive(r, c)
      PROVE  [Lifecycle!Next]_(Lifecycle!vars)
  BY <1>1, LifeStays DEF Receive, store, history
<1>2. ASSUME NEW r \in Requests,
             CheckOwned(r) \/ RereadJob(r) \/ Heartbeat(r) \/ ListPending(r)
               \/ ReadAuditLog(r) \/ WriteAudit(r)
      PROVE  [Lifecycle!Next]_(Lifecycle!vars)
  BY <1>2, LifeStays DEF CheckOwned, RereadJob, Heartbeat, ListPending, ReadAuditLog,
                          WriteAudit, store, history
<1>3. ASSUME NEW r \in Requests,
             CreateJob(r) \/ ClaimJob(r) \/ CompleteJob(r) \/ AppendEvent(r) \/ SetResult(r)
      PROVE  [Lifecycle!Next]_(Lifecycle!vars)
  BY <1>3, CreateLives, ClaimLives, CompleteLives, EventLives
<1>4. CASE Stop
  BY <1>4, StopLives
<1>5. CASE Drain \/ Restart \/ UNCHANGED vars
  BY <1>5, LifeStays DEF Drain, Restart, vars, store, history
<1>6. QED
  BY <1>1, <1>2, <1>3, <1>4, <1>5 DEF Next, Step

\* Whatever handlers, retries, I/O errors, crashes and restarts do to the queue, each
\* job lives as JobLifecycle says: enqueued once, claimed once and for good, forward
\* only, lost only with a Memory store, never back.
THEOREM QueueKeepsLifecycle == Spec => ImplementsLifecycle
<1>1. Init => Lifecycle!Init
  BY DEF Init, Lifecycle!Init
<1>2. BaseInv /\ Safe /\ [Next]_vars => [Lifecycle!Next]_(Lifecycle!vars)
  BY NextLives
<1>3. QED
  BY <1>1, <1>2, AlwaysSafe, PTL DEF Spec, ImplementsLifecycle, Lifecycle!Spec

-----------------------------------------------------------------------------
(* The audit trail, and what was acknowledged.                             *)

\* A step of one handler leaves the others alone, takes nothing back, and stores at
\* most one job, under an id no landed request knows.
LEMMA OneHandler ==
  ASSUME BaseInv, NEW r \in Requests, Step(r) \/ \E c \in Calls : Receive(r, c)
  PROVE  /\ \A q \in Requests \ {r} :
              call'[q] = call[q] /\ phase'[q] = phase[q] /\ reply'[q] = reply[q]
         /\ landed \subseteq landed' /\ landed' \subseteq landed \cup {r}
         /\ unlogged \subseteq unlogged' /\ UNCHANGED <<restarts, forgotten>>
         /\ phase[r] \in {"idle"} \cup Active
         /\ phase[r] # "idle" => call'[r].op = call[r].op
         /\ r \in landed => call'[r] = call[r]
         /\ ~WriteAudit(r) => audit' = audit
         /\ DOMAIN jobs \subseteq DOMAIN jobs' /\ DOMAIN jobs' \subseteq DOMAIN jobs \cup NewIds
<1> USE DEF BaseInv, TypeOK, Progress, Active, store, history, Answer, Goto, Hold, Record, At
<1>1. CASE \E c \in Calls : Receive(r, c)
  BY <1>1 DEF Receive, WriteAudit
<1>2. CASE CheckOwned(r) \/ RereadJob(r) \/ Heartbeat(r) \/ ListPending(r) \/ ReadAuditLog(r)
  BY <1>2 DEF CheckOwned, RereadJob, Heartbeat, ListPending, ReadAuditLog
<1>3. CASE CreateJob(r)
  <2>1. PICK id \in NewIds :
          \/ /\ jobs' = [j \in DOMAIN jobs \cup {id} |->
                            IF j = id THEN NewJob(TenantOf(r)) ELSE jobs[j]]
             /\ call' = [call EXCEPT ![r].job = id]
             /\ Goto(r, "audit") /\ \E seen : Hold(r, seen)
             /\ Record(r)
          \/ Answer(r, "invalid", {}, {}) /\ UNCHANGED <<jobs, call, landed>>
    BY <1>3 DEF CreateJob
  <2>2. /\ phase[r] = "store" /\ r \notin landed
        /\ UNCHANGED <<restarts, forgotten, unlogged, audit>>
    BY <1>3 DEF CreateJob
  <2>3. DOMAIN jobs \subseteq DOMAIN jobs' /\ DOMAIN jobs' \subseteq DOMAIN jobs \cup NewIds
    BY <2>1
  <2>4. /\ \A q \in Requests \ {r} :
              call'[q] = call[q] /\ phase'[q] = phase[q] /\ reply'[q] = reply[q]
        /\ call'[r].op = call[r].op
    <3>1. call[r] \in Call
      BY <2>2
    <3>2. CASE call' = [call EXCEPT ![r].job = id]
      <4>1. \A q \in Requests \ {r} : call'[q] = call[q]
        BY <3>2
      <4>2. call'[r] = [call[r] EXCEPT !.job = id]
        BY <3>2
      <4>3. call'[r].op = call[r].op
        BY <3>1, <4>2 DEF Call
      <4>4. QED
        BY <2>1, <4>1, <4>3
    <3>3. CASE call' = call
      BY <2>1, <3>3
    <3>4. QED
      BY <2>1, <3>2, <3>3
  <2>5. landed \subseteq landed' /\ landed' \subseteq landed \cup {r}
    BY <2>1
  <2>6. QED
    BY <2>2, <2>3, <2>4, <2>5
<1>4. CASE ClaimJob(r) \/ CompleteJob(r)
  BY <1>4 DEF ClaimJob, CompleteJob, UpdateJob
<1>5. CASE AppendEvent(r) \/ SetResult(r)
  BY <1>5 DEF AppendEvent, SetResult, UpdateJob
<1>6. CASE WriteAudit(r)
  BY <1>6 DEF WriteAudit
<1>7. QED
  BY <1>1, <1>2, <1>3, <1>4, <1>5, <1>6 DEF Step

\* A request that has landed, or whose statement failed unnoticed.
Done(q) == q \in landed \/ MayBeDropped(q)

\* Every entry is that of a request which is done and was answered.
Trail ==
  /\ \A i \in 1..Len(audit) :
       /\ audit[i].by \in Requests /\ Done(audit[i].by) /\ phase[audit[i].by] = "replied"
       /\ audit[i].action = call[audit[i].by].op /\ audit[i].job = call[audit[i].by].job
       /\ audit[i].tenant = TenantOf(audit[i].by)
  /\ \A i, k \in 1..Len(audit) : audit[i].by = audit[k].by => i = k

\* Who was told of a success, is done, and is in the trail unless the insert failed.
Told ==
  \A q \in Requests :
    Succeeded(q) =>
      /\ call[q].op \in AuditedOps \cup {"event"} => Done(q)
      /\ call[q].op \in AuditedOps /\ (Durable \/ restarts = 0 \/ call[q].job \in DOMAIN jobs)
           => Audited(q) \/ q \in unlogged

\* A trail that stays is a trail of the same requests.
LEMMA TrailStays ==
  ASSUME BaseInv, Trail, audit' = audit, landed \subseteq landed',
         \A q \in Requests : phase[q] = "replied" => phase'[q] = "replied" /\ call'[q] = call[q]
  PROVE  Trail'
BY DEF Trail, TenantOf, Done, MayBeDropped

LEMMA TrailGrows ==
  ASSUME BaseInv, Trail, NEW r \in Requests, WriteAudit(r)
  PROVE  Trail'
<1>1. /\ phase[r] = "audit" /\ Done(r) /\ UNCHANGED <<call, landed>>
      /\ phase' = [phase EXCEPT ![r] = "replied"]
      /\ audit' = audit \/ audit' = Append(audit, EntryOf(r))
  BY DEF WriteAudit, At, Answer, Goto, Extended, BaseInv, Progress, Done
<1>2. \A q \in Requests : q # r => phase'[q] = phase[q]
  BY <1>1 DEF BaseInv, TypeOK
<1>3. phase'[r] = "replied"
  BY <1>1 DEF BaseInv, TypeOK
<1>4. \A q \in Requests : phase[q] = "replied" => phase'[q] = "replied" /\ call'[q] = call[q]
  BY <1>1, <1>2, <1>3 DEF BaseInv, TypeOK
<1>5. CASE audit' = audit
  BY <1>1, <1>4, <1>5, TrailStays
<1>6. CASE audit' = Append(audit, EntryOf(r))
  <2>1. audit \in Seq(AuditEntry)
    BY DEF BaseInv, TypeOK
  <2>2. /\ Len(audit') = Len(audit) + 1 /\ Len(audit) \in Nat
        /\ \A i \in 1..Len(audit) : audit'[i] = audit[i]
        /\ audit'[Len(audit) + 1] = EntryOf(r)
    BY <1>6, <2>1
  <2>3. /\ EntryOf(r).by = r /\ EntryOf(r).tenant = TenantOf(r)
        /\ EntryOf(r).action = call[r].op /\ EntryOf(r).job = call[r].job
    BY DEF EntryOf
  <2>5. \A i \in 1..Len(audit) : audit[i].by # r
    BY <1>1 DEF Trail
  <2>6. \A i \in 1..Len(audit') :
          /\ audit'[i].by \in Requests /\ Done(audit'[i].by) /\ phase'[audit'[i].by] = "replied"
          /\ audit'[i].action = call'[audit'[i].by].op /\ audit'[i].job = call'[audit'[i].by].job
          /\ audit'[i].tenant = TenantOf(audit'[i].by)
    <3>1. SUFFICES ASSUME NEW i \in 1..Len(audit')
                   PROVE  /\ audit'[i].by \in Requests /\ Done(audit'[i].by)
                          /\ phase'[audit'[i].by] = "replied"
                          /\ audit'[i].action = call'[audit'[i].by].op
                          /\ audit'[i].job = call'[audit'[i].by].job
                          /\ audit'[i].tenant = TenantOf(audit'[i].by)
      OBVIOUS
    <3>2. CASE i = Len(audit) + 1
      BY <1>1, <1>3, <2>2, <2>3, <3>2
    <3>3. CASE i # Len(audit) + 1
      <4>1. i \in 1..Len(audit) /\ audit'[i] = audit[i]
        BY <2>2, <3>1, <3>3
      <4>2. QED
        BY <1>1, <1>4, <4>1 DEF Trail
    <3>4. QED
      BY <3>2, <3>3
  <2>7. ASSUME NEW i \in 1..Len(audit'), NEW k \in 1..Len(audit'), audit'[i].by = audit'[k].by
        PROVE  i = k
    <3>1. \A n \in 1..Len(audit') : n = Len(audit) + 1 \/ n \in 1..Len(audit)
      BY <2>2
    <3>2. CASE i \in 1..Len(audit) /\ k \in 1..Len(audit)
      BY <2>2, <2>7, <3>2 DEF Trail
    <3>3. CASE i = Len(audit) + 1 \/ k = Len(audit) + 1
      BY <2>2, <2>3, <2>5, <2>7, <3>1, <3>3
    <3>4. QED
      BY <3>1, <3>2, <3>3
  <2>8. call' = call /\ landed' = landed
    BY <1>1
  <2>9. QED
    BY <2>6, <2>7, <2>8 DEF Trail, TenantOf, Done, MayBeDropped
<1>7. QED
  BY <1>1, <1>5, <1>6

\* The end of the process forgets no answer; a Memory store loses all at once.
LEMMA StopKeeps ==
  ASSUME BaseInv, Stop
  PROVE  /\ UNCHANGED <<call, reply, landed, unlogged>>
         /\ \A q \in Requests : phase'[q] = phase[q] \/ phase'[q] = "cut"
         /\ \A q \in Requests : phase[q] = "replied" => phase'[q] = "replied"
         /\ \/ Durable /\ UNCHANGED <<jobs, audit, forgotten>>
            \/ ~Durable /\ DOMAIN jobs' = {} /\ audit' = <<>> /\ restarts' # 0
               /\ forgotten' = forgotten \cup DOMAIN jobs
<1>1. restarts \in Nat /\ restarts' = restarts + 1
  BY ConstantsAssumption DEF Stop, BaseInv, TypeOK
<1>2. phase' = [q \in Requests |-> IF phase[q] \in Active THEN "cut" ELSE phase[q]]
  BY DEF Stop
<1>3. UNCHANGED <<call, reply, landed, unlogged>>
  BY DEF Stop
<1>4. CASE Durable
  BY <1>2, <1>3, <1>4 DEF Stop, store, Active
<1>5. CASE ~Durable
  BY <1>1, <1>2, <1>3, <1>5 DEF Stop, Active
<1>6. QED
  BY <1>4, <1>5

LEMMA TrailStep == BaseInv /\ Trail /\ [Next]_vars => Trail'
<1> SUFFICES ASSUME BaseInv, Trail, [Next]_vars PROVE Trail'
  OBVIOUS
<1>1. ASSUME NEW r \in Requests, Step(r) \/ \E c \in Calls : Receive(r, c), ~WriteAudit(r)
      PROVE  Trail'
  <2>1. audit' = audit /\ landed \subseteq landed'
    BY <1>1, OneHandler
  <2>2. \A q \in Requests : phase[q] = "replied" => phase'[q] = "replied" /\ call'[q] = call[q]
    BY <1>1, OneHandler DEF Active, BaseInv, TypeOK
  <2>3. QED
    BY <2>1, <2>2, TrailStays
<1>2. ASSUME NEW r \in Requests, WriteAudit(r) PROVE Trail'
  BY <1>2, TrailGrows
<1>3. CASE Stop
  <2>1. CASE audit' = audit
    BY <1>3, <2>1, StopKeeps, TrailStays DEF BaseInv, TypeOK
  <2>2. CASE audit' = <<>>
    BY <2>2 DEF Trail
  <2>3. QED
    BY <1>3, <2>1, <2>2, StopKeeps
<1>4. CASE Drain \/ Restart \/ UNCHANGED vars
  BY <1>4, TrailStays DEF Drain, Restart, vars, store, history
<1>5. QED
  BY <1>1, <1>2, <1>3, <1>4 DEF Next

\* Whose answer a step writes, and what that answer is about.
LEMMA WhoIsTold ==
  ASSUME BaseInv, NEW r \in Requests, Step(r) \/ \E c \in Calls : Receive(r, c), Succeeded(r)'
  PROVE  \/ call'[r].op \in {"get", "pending", "auditlog"}
         \/ AppendEvent(r) /\ call'[r].op = "event" /\ r \in landed'
         \/ WriteAudit(r) /\ Done(r)'
<1>1. phase'[r] = "replied" /\ reply'[r].code = "ok"
  BY DEF Succeeded
<1> USE DEF BaseInv, TypeOK, Answer, Goto, At
<1>2. CASE \E c \in Calls : Receive(r, c)
  BY <1>1, <1>2 DEF Receive
<1>3. CASE CheckOwned(r)
  BY <1>1, <1>3 DEF CheckOwned
<1>4. CASE CreateJob(r)
  BY <1>1, <1>4 DEF CreateJob
<1>5. CASE ClaimJob(r) \/ CompleteJob(r)
  BY <1>1, <1>5 DEF ClaimJob, CompleteJob
<1>6. CASE RereadJob(r) \/ Heartbeat(r)
  BY <1>1, <1>6 DEF RereadJob, Heartbeat
<1>7. CASE AppendEvent(r)
  BY <1>1, <1>7 DEF AppendEvent, Record
<1>8. CASE SetResult(r)
  BY <1>1, <1>8 DEF SetResult
<1>9. CASE ListPending(r) \/ ReadAuditLog(r)
  BY <1>9 DEF ListPending, ReadAuditLog
<1>10. CASE WriteAudit(r)
  BY <1>10 DEF WriteAudit, Progress, Done, MayBeDropped
<1>11. QED
  BY <1>2, <1>3, <1>4, <1>5, <1>6, <1>7, <1>8, <1>9, <1>10 DEF Step

\* An audited request finds its entry after the insert.
LEMMA WrittenDown ==
  ASSUME BaseInv, NEW r \in Requests, WriteAudit(r)
  PROVE  /\ Audited(r)' \/ r \in unlogged'
         /\ \A q : Audited(q) => Audited(q)'
<1>1. audit \in Seq(AuditEntry)
  BY DEF BaseInv, TypeOK
<1>2. CASE audit' = Append(audit, EntryOf(r))
  <2>1. /\ Len(audit') = Len(audit) + 1 /\ Len(audit) \in Nat
        /\ \A i \in 1..Len(audit) : audit'[i] = audit[i]
        /\ audit'[Len(audit) + 1] = EntryOf(r)
    BY <1>1, <1>2
  <2>2. EntryOf(r).by = r
    BY DEF EntryOf
  <2>3. QED
    BY <2>1, <2>2 DEF Audited
<1>3. CASE audit' = audit /\ r \in unlogged'
  BY <1>3 DEF Audited
<1>4. QED
  BY <1>2, <1>3 DEF WriteAudit, Extended

LEMMA ToldStep == BaseInv /\ Safe /\ Told /\ [Next]_vars => Told'
<1> SUFFICES ASSUME BaseInv, Safe, Told, [Next]_vars PROVE Told'
  OBVIOUS
<1>1. ASSUME NEW r \in Requests, Step(r) \/ \E c \in Calls : Receive(r, c) PROVE Told'
  <2>1. SUFFICES ASSUME NEW q \in Requests, Succeeded(q)'
                 PROVE  /\ call'[q].op \in AuditedOps \cup {"event"} => Done(q)'
                        /\ call'[q].op \in AuditedOps
                             /\ (Durable \/ restarts' = 0 \/ call'[q].job \in DOMAIN jobs')
                             => Audited(q)' \/ q \in unlogged'
    BY DEF Told
  <2>2. CASE q = r
    BY <1>1, <2>1, <2>2, WhoIsTold, WrittenDown DEF AuditedOps, Done
  <2>3. CASE q # r
    <3>1. Succeeded(q) /\ call'[q] = call[q]
      BY <1>1, <2>1, <2>3, OneHandler DEF Succeeded
    <3>2. call[q].op \in AuditedOps \cup {"event"} => Done(q) /\ Done(q)'
      BY <1>1, <3>1, OneHandler DEF Told, Done, MayBeDropped
    <3>3. Done(q) /\ call[q].job \in DOMAIN jobs' =>
            Durable \/ call[q].job \in DOMAIN jobs \/ call[q].job = None
      BY <1>1, OneHandler DEF Safe, LandedKnown, NewIds, Done, MayBeDropped
    <3>4. None \notin DOMAIN jobs'
      <4>1. DOMAIN jobs' \subseteq Jobs
        BY <1>1, OneHandler DEF NewIds, BaseInv, TypeOK
      <4>2. QED
        BY <4>1, ConstantsAssumption
    <3>5. Audited(q) => Audited(q)'
      <4>1. CASE WriteAudit(r)
        BY <4>1, WrittenDown
      <4>2. CASE ~WriteAudit(r)
        BY <1>1, <4>2, OneHandler DEF Audited
      <4>3. QED
        BY <4>1, <4>2
    <3>6. unlogged \subseteq unlogged' /\ restarts' = restarts
      BY <1>1, OneHandler
    <3>7. QED
      BY <3>1, <3>2, <3>3, <3>4, <3>5, <3>6 DEF Told
  <2>4. QED
    BY <2>2, <2>3
<1>2. CASE Stop
  <2>1. \A q \in Requests : Succeeded(q)' <=> Succeeded(q)
    BY <1>2, StopKeeps DEF Succeeded
  <2>2. CASE Durable
    BY <1>2, <2>1, <2>2, StopKeeps DEF Told, Audited, Done, MayBeDropped
  <2>3. CASE ~Durable
    BY <1>2, <2>1, <2>3, StopKeeps DEF Told, Done, MayBeDropped
  <2>4. QED
    BY <2>2, <2>3
<1>3. CASE Drain \/ Restart \/ UNCHANGED vars
  BY <1>3 DEF Drain, Restart, vars, store, history, Told, Succeeded, Audited, Done, MayBeDropped
<1>4. QED
  BY <1>1, <1>2, <1>3 DEF Next

\* Every entry of the trail is of one request that did what the entry says, under the
\* tenant that owns the job, and no request has two -- although the job is changed in
\* one critical section and the entry written in a later one.  Only a heartbeat over a
\* SQLite store whose statements can fail may have an entry for nothing.
THEOREM TrailIsTruthful == Spec => []AuditTruthful
<1>1. Init => Trail
  BY DEF Init, Trail
<1>2. BaseInv /\ Safe /\ Trail => AuditTruthful
  <2>1. SUFFICES ASSUME BaseInv, Safe, Trail, NEW i \in 1..Len(audit)
                 PROVE  /\ audit[i].action = call[audit[i].by].op
                        /\ audit[i].by \in landed \/ MayBeDropped(audit[i].by)
                        /\ audit[i].job = call[audit[i].by].job
                        /\ audit[i].tenant = TenantOf(audit[i].by)
                        /\ audit[i].job \in DOMAIN jobs =>
                             jobs[audit[i].job].tenant = audit[i].tenant
    BY DEF AuditTruthful, Trail
  <2>2. QED
    <3>1. audit[i].by \in Requests /\ Done(audit[i].by) /\ call[audit[i].by] \in Call
      BY <2>1 DEF Trail, BaseInv, Progress
    <3>2. MayBeDropped(audit[i].by) => call[audit[i].by].job = None
      BY <2>1, <3>1 DEF Trail, BaseInv, Progress, MayBeDropped
    <3>3. None \notin DOMAIN jobs
      BY <2>1, ConstantsAssumption DEF BaseInv, TypeOK
    <3>4. QED
      BY <2>1, <3>1, <3>2, <3>3 DEF Trail, Done, Safe, TenantIsolation
<1>3. QED
  BY <1>1, <1>2, TrailStep, AlwaysSafe, PTL DEF Spec

\* Whoever was told that an audited action succeeded finds it in the trail unless the
\* insert itself failed, for as long as the store that holds the trail lives, and the
\* action took effect unless it is a heartbeat that was dropped.
THEOREM SuccessIsAudited == Spec => []AnsweredIsAudited
<1>1. Init => Told
  BY DEF Init, Told, Succeeded
<1>2. Told => AnsweredIsAudited
  BY DEF Told, AnsweredIsAudited, Done
<1>3. QED
  BY <1>1, <1>2, ToldStep, AlwaysSafe, PTL DEF Spec

-----------------------------------------------------------------------------
(* What was acknowledged is kept.                                          *)

Once(events, q) ==
  \E i \in 1..Len(events) : \A k \in 1..Len(events) : events[k] = q <=> k = i

\* The requests of one kind about j among those that are done.
Of(op, j, done, asked) == { q \in done : asked[q].op = op /\ asked[q].job = j }

\* A job j has every landed event of j once and nobody's that did not land, and the
\* result of one of its landed uploads as soon as there is one.
KeptIn(j, job, done, asked) ==
  /\ \A i \in 1..Len(job.events) : job.events[i] \in done
  /\ \A q \in Of("event", j, done, asked) : Once(job.events, q)
  /\ job.result # None => job.result \in Of("upload", j, done, asked)
  /\ job.result = None => Of("upload", j, done, asked) = {}

Kept ==
  /\ \A j \in DOMAIN jobs : KeptIn(j, jobs[j], landed, call)
  /\ \A q \in Landed("create") : call[q].job # None
  /\ Durable => forgotten = {}

\* A handler that changes neither events nor result of a job, and brought it neither.
LEMMA OthersKept ==
  ASSUME BaseInv, NEW r \in Requests, Step(r) \/ \E c \in Calls : Receive(r, c),
         NEW j, NEW job, KeptIn(j, job, landed, call), NEW new, new.events = job.events, new.result = job.result,
         r \in landed' /\ r \notin landed => call'[r].op \notin {"event", "upload"} \/ call'[r].job # j
  PROVE  KeptIn(j, new, landed', call')
<1>1. /\ landed \subseteq landed' /\ landed' \subseteq landed \cup {r} /\ landed \subseteq Requests
      /\ \A q \in landed : call'[q] = call[q]
  BY OneHandler DEF BaseInv, TypeOK
<1>2. /\ Of("event", j, landed', call') = Of("event", j, landed, call)
      /\ Of("upload", j, landed', call') = Of("upload", j, landed, call)
  BY <1>1 DEF Of
<1>3. QED
  BY <1>1, <1>2 DEF KeptIn

\* The event a handler appends is there once, since it had not landed before.
LEMMA EventKept ==
  ASSUME BaseInv, NEW r \in Requests, AppendEvent(r), NEW j \in DOMAIN jobs, call[r].job = j,
         KeptIn(j, jobs[j], landed, call), UpdateJob(j, WithEvent(jobs[j], r)), landed' = landed \cup {r}
  PROVE  KeptIn(j, jobs'[j], landed', call')
<1>1. jobs[j] \in Job /\ jobs[j].events \in Seq(Requests) /\ landed \subseteq Requests
  BY StoredJob DEF Job, BaseInv, TypeOK
<1>2. /\ jobs'[j].events = Append(jobs[j].events, r)
      /\ jobs'[j].result = jobs[j].result
  BY <1>1 DEF UpdateJob, WithEvent, Job
<1>3. call' = call /\ r \notin landed /\ call[r].op = "event"
  BY DEF AppendEvent, At, BaseInv, Progress
<1> DEFINE old == jobs[j].events
           new == jobs'[j].events
<1>4. /\ Len(new) = Len(old) + 1 /\ Len(old) \in Nat
      /\ \A i \in 1..Len(old) : new[i] = old[i]
      /\ new[Len(old) + 1] = r
  BY <1>1, <1>2
<1>5. \A i \in 1..Len(old) : old[i] # r /\ old[i] \in landed
  BY <1>3 DEF KeptIn
<1>6. \A i \in 1..Len(new) : i = Len(old) + 1 \/ i \in 1..Len(old)
  BY <1>4
<1> HIDE DEF old, new
<1>7. \A i \in 1..Len(new) : new[i] \in landed'
  BY <1>4, <1>5, <1>6
<1>8. Once(new, r)
  <2>1. Len(old) + 1 \in 1..Len(new)
    BY <1>4
  <2>2. \A k \in 1..Len(new) : new[k] = r <=> k = Len(old) + 1
    BY <1>4, <1>5, <1>6
  <2>3. QED
    BY <2>1, <2>2 DEF Once
<1>9. ASSUME NEW q \in landed, q # r, Once(old, q) PROVE Once(new, q)
  <2>1. PICK i \in 1..Len(old) : \A k \in 1..Len(old) : old[k] = q <=> k = i
    BY <1>9 DEF Once
  <2>2. i \in 1..Len(new) /\ i # Len(old) + 1
    BY <1>4
  <2>3. \A k \in 1..Len(new) : new[k] = q <=> k = i
    BY <1>4, <1>6, <1>9, <2>1, <2>2
  <2>4. QED
    BY <2>2, <2>3 DEF Once
<1>10. \A q \in Of("event", j, landed', call') : Once(new, q)
  <2>1. \A q \in Of("event", j, landed, call) : q \in landed /\ Once(old, q)
    BY DEF KeptIn, Of, old
  <2>2. QED
    BY <1>3, <1>8, <1>9, <2>1 DEF Of
<1>11. Of("upload", j, landed', call') = Of("upload", j, landed, call)
  BY <1>3 DEF Of
<1>12. QED
  BY <1>2, <1>3, <1>7, <1>10, <1>11 DEF KeptIn, new

LEMMA ResultKept ==
  ASSUME BaseInv, NEW r \in Requests, SetResult(r), NEW j \in DOMAIN jobs, call[r].job = j,
         KeptIn(j, jobs[j], landed, call), UpdateJob(j, WithResult(jobs[j], r)), landed' = landed \cup {r}
  PROVE  KeptIn(j, jobs'[j], landed', call')
<1>1. jobs[j] \in Job
  BY StoredJob
<1>2. jobs'[j].events = jobs[j].events /\ jobs'[j].result = r
  BY <1>1 DEF UpdateJob, WithResult, Job
<1>3. call' = call /\ call[r].op = "upload" /\ r # None
  BY ConstantsAssumption DEF SetResult, At
<1>4. /\ Of("event", j, landed', call') = Of("event", j, landed, call)
      /\ r \in Of("upload", j, landed', call') /\ landed \subseteq landed'
  BY <1>3 DEF Of
<1>5. QED
  BY <1>2, <1>3, <1>4 DEF KeptIn

\* A new job is nobody's: no landed request names its id.
LEMMA CreateKept ==
  ASSUME BaseInv, Safe, Kept, NEW r \in Requests, CreateJob(r)
  PROVE  /\ \A j \in DOMAIN jobs' : KeptIn(j, jobs'[j], landed', call')
         /\ \A q \in Landed("create")' : call'[q].job # None
<1>1. CASE UNCHANGED <<jobs, call, landed>>
  BY <1>1 DEF Kept, Landed
<1>2. ASSUME NEW id \in NewIds, id \notin DOMAIN jobs,
             jobs' = [j \in DOMAIN jobs \cup {id} |->
                        IF j = id THEN NewJob(TenantOf(r)) ELSE jobs[j]],
             call' = [call EXCEPT ![r].job = id], landed' = landed \cup {r}
      PROVE  /\ \A j \in DOMAIN jobs' : KeptIn(j, jobs'[j], landed', call')
             /\ \A q \in Landed("create")' : call'[q].job # None
  <2>1. /\ id \in Jobs /\ id \notin forgotten /\ id # None
        /\ r \notin landed /\ call[r] \in Call /\ call[r].op = "create" /\ landed \subseteq Requests
    BY <1>2, ConstantsAssumption DEF NewIds, CreateJob, At, BaseInv, TypeOK, Progress
  <2>2. /\ \A q \in landed : call'[q] = call[q]
        /\ call'[r].job = id /\ call'[r].op = "create"
    BY <1>2, <2>1 DEF BaseInv, TypeOK, Call
  <2>3. \A q \in landed : call[q].job # id
    BY <1>2, <2>1 DEF Safe, LandedKnown
  <2>4. ASSUME NEW j \in DOMAIN jobs PROVE KeptIn(j, jobs'[j], landed', call')
    <3>1. jobs'[j] = jobs[j] /\ KeptIn(j, jobs[j], landed, call) /\ j # id
      BY <1>2, <2>4 DEF Kept
    <3>2. QED
      BY <2>2, <3>1, OthersKept DEF Step
  <2>5. KeptIn(id, jobs'[id], landed', call')
    <3>1. jobs'[id].events = <<>> /\ jobs'[id].result = None
      BY <1>2 DEF NewJob
    <3>2. \A q \in landed' : call'[q].op \in {"event", "upload"} => call'[q].job # id
      BY <1>2, <2>2, <2>3
    <3>3. QED
      BY <3>1, <3>2 DEF KeptIn, Of
  <2>6. \A q \in Landed("create")' : call'[q].job # None
    BY <1>2, <2>1, <2>2 DEF Kept, Landed
  <2>7. DOMAIN jobs' = DOMAIN jobs \cup {id}
    BY <1>2
  <2>8. QED
    BY <2>4, <2>5, <2>6, <2>7
<1>3. QED
  BY <1>1, <1>2 DEF CreateJob, Record

\* A handler that lands neither a creation, an event nor an upload, or lands nothing.
LEMMA QuietKept ==
  ASSUME BaseInv, Kept, NEW r \in Requests, Step(r) \/ \E c \in Calls : Receive(r, c),
         DOMAIN jobs' = DOMAIN jobs,
         \A j \in DOMAIN jobs : jobs'[j].events = jobs[j].events /\ jobs'[j].result = jobs[j].result,
         r \in landed' /\ r \notin landed => call'[r].op \notin {"create", "event", "upload"}
  PROVE  Kept'
<1>1. \A j \in DOMAIN jobs' : KeptIn(j, jobs'[j], landed', call')
  <2>1. SUFFICES ASSUME NEW j \in DOMAIN jobs PROVE KeptIn(j, jobs'[j], landed', call')
    OBVIOUS
  <2>2. KeptIn(j, jobs[j], landed, call)
    BY DEF Kept
  <2>3. QED
    BY <2>2, OthersKept
<1>2. \A q \in Landed("create")' : call'[q].job # None
  BY OneHandler DEF Kept, Landed, BaseInv, TypeOK
<1>3. forgotten' = forgotten
  BY OneHandler
<1>4. QED
  BY <1>1, <1>2, <1>3 DEF Kept

LEMMA KeptStep == BaseInv /\ Safe /\ Kept /\ [Next]_vars => Kept'
<1> SUFFICES ASSUME BaseInv, Safe, Kept, [Next]_vars PROVE Kept'
  OBVIOUS
<1>1. ASSUME NEW r \in Requests, \E c \in Calls : Receive(r, c) PROVE Kept'
  <2>1. UNCHANGED <<jobs, landed>>
    BY <1>1 DEF Receive, store, history
  <2>2. QED
    BY <1>1, <2>1, QuietKept
<1>2. ASSUME NEW r \in Requests,
             CheckOwned(r) \/ RereadJob(r) \/ ListPending(r) \/ ReadAuditLog(r) \/ WriteAudit(r)
      PROVE  Kept'
  <2>1. UNCHANGED <<jobs, landed>>
    BY <1>2 DEF CheckOwned, RereadJob, ListPending, ReadAuditLog, WriteAudit, store, history
  <2>2. Step(r)
    BY <1>2 DEF Step
  <2>3. QED
    BY <2>1, <2>2, QuietKept
<1>3. ASSUME NEW r \in Requests, Heartbeat(r) PROVE Kept'
  <2>1. UNCHANGED <<jobs, call>> /\ call[r].op = "heartbeat"
    BY <1>3 DEF Heartbeat, At
  <2>2. QED
    BY <1>3, <2>1, QuietKept DEF Step
<1>4. ASSUME NEW r \in Requests, ClaimJob(r) \/ CompleteJob(r) PROVE Kept'
  <2>1. call' = call /\ call[r].op \in {"claim", "complete"}
    BY <1>4 DEF ClaimJob, CompleteJob, At
  <2>2. CASE jobs' = jobs
    BY <1>4, <2>1, <2>2, QuietKept DEF Step
  <2>3. ASSUME NEW j \in DOMAIN jobs, NEW job, job.events = jobs[j].events,
               job.result = jobs[j].result, UpdateJob(j, job)
        PROVE  Kept'
    <3>1. DOMAIN jobs' = DOMAIN jobs /\ \A k \in DOMAIN jobs : jobs'[k] = IF k = j THEN job ELSE jobs[k]
      BY <2>3 DEF UpdateJob
    <3>2. \A k \in DOMAIN jobs : jobs'[k].events = jobs[k].events /\ jobs'[k].result = jobs[k].result
      BY <2>3, <3>1
    <3>3. QED
      BY <1>4, <2>1, <3>1, <3>2, QuietKept DEF Step
  <2>4. \A j \in DOMAIN jobs : \A x :
          /\ WithClaim(jobs[j], x).events = jobs[j].events
          /\ WithClaim(jobs[j], x).result = jobs[j].result
          /\ WithCompletion(jobs[j], x).events = jobs[j].events
          /\ WithCompletion(jobs[j], x).result = jobs[j].result
    BY StoredJob DEF WithClaim, WithCompletion, Job
  <2>5. QED
    BY <1>4, <2>2, <2>3, <2>4 DEF ClaimJob, CompleteJob
<1>5. ASSUME NEW r \in Requests, AppendEvent(r) \/ SetResult(r) PROVE Kept'
  <2>1. /\ call' = call /\ call[r].op \in {"event", "upload"} /\ forgotten' = forgotten
        /\ Step(r)
    BY <1>5 DEF AppendEvent, SetResult, At, Step
  <2>2. CASE UNCHANGED <<jobs, landed>>
    BY <2>1, <2>2, QuietKept
  <2> DEFINE j == call[r].job
  <2>3. CASE /\ j \in DOMAIN jobs /\ landed' = landed \cup {r}
             /\ \/ AppendEvent(r) /\ UpdateJob(j, WithEvent(jobs[j], r))
                \/ SetResult(r) /\ UpdateJob(j, WithResult(jobs[j], r))
    <3>1. DOMAIN jobs' = DOMAIN jobs /\ \A k \in DOMAIN jobs : k # j => jobs'[k] = jobs[k]
      BY <2>3 DEF UpdateJob
    <3>2. \A k \in DOMAIN jobs : KeptIn(k, jobs[k], landed, call)
      BY DEF Kept
    <3>3. KeptIn(j, jobs'[j], landed', call')
      BY <2>3, <3>2, EventKept, ResultKept
    <3>4. ASSUME NEW k \in DOMAIN jobs, k # j PROVE KeptIn(k, jobs'[k], landed', call')
      <4>1. jobs'[k] = jobs[k] /\ KeptIn(k, jobs[k], landed, call) /\ call'[r].job # k
        BY <2>1, <3>1, <3>2, <3>4
      <4>2. QED
        BY <2>1, <4>1, OthersKept
    <3>5. Landed("create")' = Landed("create")
      BY <2>1, <2>3 DEF Landed
    <3>6. QED
      BY <2>1, <3>1, <3>3, <3>4, <3>5 DEF Kept
  <2>4. QED
    BY <1>5, <2>2, <2>3 DEF AppendEvent, SetResult, Record
<1>6. ASSUME NEW r \in Requests, CreateJob(r) PROVE Kept'
  <2>1. forgotten' = forgotten
    BY <1>6 DEF CreateJob
  <2>2. QED
    BY <1>6, <2>1, CreateKept DEF Kept
<1>7. CASE Stop
  <2>1. CASE Durable
    BY <1>7, <2>1, StopKeeps DEF Kept, Landed
  <2>2. CASE ~Durable
    BY <1>7, <2>2, StopKeeps DEF Kept, Landed
  <2>3. QED
    BY <2>1, <2>2
<1>8. CASE Drain \/ Restart \/ UNCHANGED vars
  BY <1>8 DEF Drain, Restart, vars, store, history, Kept, Landed
<1>9. QED
  BY <1>1, <1>2, <1>3, <1>4, <1>5, <1>6, <1>7, <1>8 DEF Next, Step

\* What a runner was told is stored: a job enqueued is not lost but by the end of a
\* Memory store, an event is in the list of its job exactly once, and after an upload
\* the job has the result of one -- through retries, failing statements and restarts.
THEOREM SuccessIsKept == Spec => []AnsweredIsKept
<1>1. Init => Kept
  BY DEF Init, Kept, Landed
<1>2. Init => Told
  BY DEF Init, Told, Succeeded
<1>3. BaseInv /\ Safe /\ Told /\ Kept => AnsweredIsKept
  <2>1. SUFFICES ASSUME BaseInv, Safe, Told, Kept, NEW r \in Requests, Succeeded(r)
                 PROVE  LET j == call[r].job
                        IN  /\ call[r].op = "create" => j \in DOMAIN jobs \/ (~Durable /\ j \in forgotten)
                            /\ call[r].op = "event" /\ j \in DOMAIN jobs => Once(jobs[j].events, r)
                            /\ call[r].op = "upload" /\ j \in DOMAIN jobs =>
                                 jobs[j].result \in { u \in Landed("upload") : call[u].job = j }
    BY DEF AnsweredIsKept, Once
  <2>2. call[r].op \in {"create", "event", "upload"} => r \in Landed(call[r].op)
    BY <2>1 DEF Told, Landed, AuditedOps, Done, MayBeDropped
  <2>3. call[r].op = "create" => call[r].job \in DOMAIN jobs \/ (~Durable /\ call[r].job \in forgotten)
    BY <2>1, <2>2 DEF Kept, Safe, LandedKnown, Landed
  <2>4. QED
    BY <2>1, <2>2, <2>3 DEF Kept, KeptIn, Of, Landed
<1>4. QED
  BY <1>1, <1>2, <1>3, ToldStep, KeptStep, AlwaysSafe, PTL DEF Spec
=============================================================================
