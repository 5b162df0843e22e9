------------------------------ MODULE JobQueue ------------------------------
(***************************************************************************)
(* The runner job queue of `vardrgate serve`: the HTTP handlers of         *)
(* internal/api over a Store of internal/store (Memory or SQLite).         *)
(*                                                                         *)
(* Every Store operation holds one mutex from beginning to end, so it is   *)
(* one step.  A handler makes several of them and holds nothing in         *)
(* between, so it is a process of several steps, interleaved with the      *)
(* other handlers, with a shutdown and with a crash of the server.         *)
(* A retried or duplicated call is simply another request.                 *)
(***************************************************************************)
EXTENDS Naturals, Sequences, FiniteSets

CONSTANTS
  Requests,       \* HTTP requests; each is received at most once
  Jobs,           \* job identifiers newID may return
  Runners,        \* callers, by User-Agent (claimed_by, actor) and hostname
  Tokens,         \* bearer tokens a caller may present
  Tenants,        \* tenants
  Keys,           \* the server's token -> tenant map; empty in dev mode
  DefaultTenant,  \* the tenant of every caller in dev mode
  Ops,            \* endpoints exercised
  Bodies,         \* request bodies exercised: "ok", "bad" (malformed or incomplete)
  Durable,        \* TRUE: SQLite (VARDRGATE_DB), FALSE: Memory
  IOErrors,       \* whether a SQLite statement may fail
  MaxRestarts,    \* bound on stops of the server
  None            \* no job, no runner, no result

JobOps == {"get", "claim", "complete", "event", "upload"}
OtherOps == {"create", "heartbeat", "pending", "auditlog"}
AuditedOps == {"create", "claim", "complete", "upload", "heartbeat"}
Completions == {"done", "failed"}
Statuses == {"pending", "claimed", "running"} \cup Completions

ASSUME ConstantsAssumption ==
  /\ Keys \in [DOMAIN Keys -> Tenants]
  /\ DOMAIN Keys \subseteq Tokens
  /\ DefaultTenant \in Tenants
  /\ Ops \subseteq JobOps \cup OtherOps
  /\ Bodies \subseteq {"ok", "bad"}
  /\ Durable \in BOOLEAN
  /\ IOErrors \in BOOLEAN
  /\ MaxRestarts \in Nat
  /\ None \notin Jobs \cup Runners \cup Requests

VARIABLES
  server,     \* "up", "draining" (graceful shutdown) or "down"
  restarts,   \* how many times the server has stopped
  jobs,       \* the jobs table: a function from the ids it holds
  heard,      \* runner registry: the runners a heartbeat is recorded for
  audit,      \* the audit trail, oldest entry first
  phase,      \* phase[r]: where the handler of r is
  call,       \* call[r]: what request r asks for
  reply,      \* reply[r]: the response of r, as far as it is built
  forgotten,  \* history: ids whose jobs a restart of Memory dropped
  landed,     \* history: requests whose store operation took effect
  unlogged    \* history: requests whose audit insert failed

store == <<jobs, heard, audit>>
history == <<forgotten, landed, unlogged>>
vars == <<server, restarts, store, phase, call, reply, history>>

-----------------------------------------------------------------------------
(* Data.                                                                   *)

\* A stored job.  Config, tool type, error message and timestamps are left
\* out; an event and a result stand for themselves as the request that
\* brought them.
Job == [tenant    : Tenants,
        status    : Statuses,
        claimedBy : Runners \cup {None},
        events    : Seq(Requests),
        result    : Requests \cup {None}]

\* An audit entry; `by` stands for its actor, detail and time.
AuditEntry == [by : Requests, tenant : Tenants, action : AuditedOps, job : Jobs \cup {None}]

\* A call: `arg` is the status of a completion and the kind of an event; `body`
\* says whether the handler finds the body well-formed and complete.
Call == [op : JobOps \cup OtherOps, token : Tokens, runner : Runners,
         job : Jobs \cup {None}, arg : {"none", "done", "failed", "running", "other"},
         body : {"ok", "bad"}]

\* The calls a client can make over the endpoints exercised.
Calls ==
  { c \in [op : Ops, token : Tokens, runner : Runners, job : Jobs \cup {None},
           arg : {"none", "done", "failed", "running", "other"}, body : Bodies] :
      /\ (c.job = None) <=> (c.op \in OtherOps)
      /\ CASE c.op = "complete" -> c.arg \in Completions \cup {"other"}
           [] c.op = "event"    -> c.arg \in {"running", "other"}
           [] OTHER             -> c.arg = "none"
      /\ c.op \in {"get", "claim", "pending", "auditlog"} => c.body = "ok" }

NoCall == [op |-> "none", token |-> "none", runner |-> None, job |-> None,
           arg |-> "none", body |-> "ok"]
NoReply == [code |-> "none", seen |-> {}, log |-> {}]
Codes == {"none", "ok", "unauthorized", "invalid", "not_found", "conflict", "error"}

\* A job as a response shows it; the zero Job that a completion answers with when
\* its re-read failed; a response.
Seen(j, job) == [id |-> j, job |-> job]
EmptyJob == Seen(None, [tenant |-> None, status |-> "none", claimedBy |-> None,
                        events |-> <<>>, result |-> None])
SeenJob == [id : Jobs, job : Job] \cup {EmptyJob}
Reply == [code : Codes, seen : SUBSET SeenJob, log : SUBSET AuditEntry]

Phases == {"idle", "owned", "store", "reread", "audit", "replied", "cut"}
Active == {"owned", "store", "reread", "audit"}

-----------------------------------------------------------------------------
(* Tenants.                                                                *)

Authenticated(c) == DOMAIN Keys = {} \/ c.token \in DOMAIN Keys

TenantOf(r) == IF DOMAIN Keys = {} THEN DefaultTenant ELSE Keys[call[r].token]

\* Mutant: only the existence of the job is checked.
Owned_Existing(r) == call[r].job \in DOMAIN jobs

Owned(r) == call[r].job \in DOMAIN jobs /\ jobs[call[r].job].tenant = TenantOf(r)

-----------------------------------------------------------------------------
(* What the Store operations read and write of one job.  The mutants are   *)
(* bugs the properties below must notice.                                  *)

NewJob(tenant) ==
  [tenant |-> tenant, status |-> "pending", claimedBy |-> None, events |-> <<>>, result |-> None]

\* Mutant: a job may be claimed again until it is finished.
Claimable_Unfinished(job) == job.status \notin Completions

Claimable(job) == job.status = "pending"

WithClaim(job, u) == [job EXCEPT !.status = "claimed", !.claimedBy = u]

\* Mutant: Complete stores whatever status it is given.
ValidCompletion_Any(s) == TRUE

ValidCompletion(s) == s \in Completions

\* Mutant: completing a job releases it.
WithCompletion_Releases(job, s) == [job EXCEPT !.status = s, !.claimedBy = None]

\* Neither the status of the job nor the runner that claimed it is consulted.
WithCompletion(job, s) == [job EXCEPT !.status = s]

\* Mutant: a "running" event moves any job to running.
Starts_Any(job, kind) == kind = "running"

\* A "running" event also moves a claimed job to running.
Starts(job, kind) == kind = "running" /\ job.status = "claimed"

WithEvent(job, r) ==
  [job EXCEPT !.events = Append(@, r),
              !.status = IF Starts(job, call[r].arg) THEN "running" ELSE @]

\* Mutant: the document is rewritten without the events it had.
WithResult_DropsEvents(job, r) == [job EXCEPT !.result = r, !.events = <<>>]

WithResult(job, r) == [job EXCEPT !.result = r]

\* Mutant: entries are filed under the default tenant.
EntryOf_Untagged(r) ==
  [by |-> r, tenant |-> DefaultTenant, action |-> call[r].op, job |-> call[r].job]

EntryOf(r) == [by |-> r, tenant |-> TenantOf(r), action |-> call[r].op, job |-> call[r].job]

\* Mutant: only the newest entry is kept.
Extended_NewestOnly(trail, e) == <<e>>

Extended(trail, e) == Append(trail, e)

-----------------------------------------------------------------------------
(* Building blocks of the handlers.                                        *)

\* Whether the SQLite statements of one Store operation succeed.
Outcomes == IF Durable /\ IOErrors THEN {TRUE, FALSE} ELSE {TRUE}

At(r, p, ops) == phase[r] = p /\ call[r].op \in ops

Goto(r, p) == phase' = [phase EXCEPT ![r] = p]

\* The handler writes its response and ends.
Answer(r, code, seen, log) ==
  /\ Goto(r, "replied")
  /\ reply' = [reply EXCEPT ![r] = [code |-> code, seen |-> seen, log |-> log]]

\* The response under construction: the handler's local `job`.
Hold(r, seen) == reply' = [reply EXCEPT ![r].seen = seen]

Record(r) == landed' = landed \cup {r}

UpdateJob(j, job) == jobs' = [jobs EXCEPT ![j] = job]

-----------------------------------------------------------------------------
(* Receiving a request: authentication, then the body where the handler    *)
(* decodes it first.                                                       *)

\* Ops whose handler decodes and validates the body before anything else.
\* (An upload is read after the ownership check.)
DecodesFirst == {"create", "complete", "event", "heartbeat"}

Receive(r, c) ==
  /\ server = "up"
  /\ phase[r] = "idle"
  /\ call' = [call EXCEPT ![r] = c]
  /\ \/ /\ ~Authenticated(c)
        /\ Answer(r, "unauthorized", {}, {})
     \/ /\ Authenticated(c)
        /\ c.op \in DecodesFirst /\ c.body = "bad"
        /\ Answer(r, "invalid", {}, {})
     \/ /\ Authenticated(c)
        /\ ~(c.op \in DecodesFirst /\ c.body = "bad")
        /\ Goto(r, IF c.op \in JobOps THEN "owned" ELSE "store")
        /\ UNCHANGED reply
  /\ UNCHANGED <<server, restarts, store, history>>

\* requireOwned: a missing job, another tenant's job and a failing read are
\* all "not found".  A GET answers at once with what it read; an upload then
\* reads and validates its body.
CheckOwned(r) ==
  /\ At(r, "owned", JobOps)
  /\ \E ok \in Outcomes :
       IF ~ok \/ ~Owned(r)
         THEN Answer(r, "not_found", {}, {})
       ELSE IF call[r].op = "get"
         THEN Answer(r, "ok", {Seen(call[r].job, jobs[call[r].job])}, {})
       ELSE IF call[r].op = "upload" /\ call[r].body = "bad"
         THEN Answer(r, "invalid", {}, {})
       ELSE Goto(r, "store") /\ UNCHANGED reply
  /\ UNCHANGED <<server, restarts, store, call, history>>

-----------------------------------------------------------------------------
(* The Store operations, each with what its handler does of the outcome.   *)

\* A random id: never one this server has forgotten.
NewIds == Jobs \ forgotten

CreateJob(r) ==
  /\ At(r, "store", {"create"})
  /\ \E id \in NewIds, ok \in Outcomes :
       IF ok /\ id \notin DOMAIN jobs
         THEN /\ jobs' = [j \in DOMAIN jobs \cup {id} |->
                            IF j = id THEN NewJob(TenantOf(r)) ELSE jobs[j]]
              /\ call' = [call EXCEPT ![r].job = id]
              /\ Hold(r, {Seen(id, NewJob(TenantOf(r)))})
              /\ Record(r)
              /\ Goto(r, "audit")
         ELSE /\ Answer(r, "invalid", {}, {})
              /\ UNCHANGED <<jobs, call, landed>>
  /\ UNCHANGED <<server, restarts, heard, audit, forgotten, unlogged>>

ClaimJob(r) ==
  /\ At(r, "store", {"claim"})
  /\ LET j == call[r].job
         claimed == WithClaim(jobs[j], call[r].runner)
     IN \E ok \in Outcomes :
          IF ~ok
            THEN Answer(r, "error", {}, {}) /\ UNCHANGED <<jobs, landed>>
          ELSE IF j \notin DOMAIN jobs
            THEN Answer(r, "not_found", {}, {}) /\ UNCHANGED <<jobs, landed>>
          ELSE IF ~Claimable(jobs[j])
            THEN Answer(r, "conflict", {}, {}) /\ UNCHANGED <<jobs, landed>>
          ELSE /\ UpdateJob(j, claimed)
               /\ Hold(r, {Seen(j, claimed)})
               /\ Record(r)
               /\ Goto(r, "audit")
  /\ UNCHANGED <<server, restarts, heard, audit, call, forgotten, unlogged>>

CompleteJob(r) ==
  /\ At(r, "store", {"complete"})
  /\ LET j == call[r].job
     IN \E ok \in Outcomes :
          IF ~ValidCompletion(call[r].arg)
            THEN Answer(r, "invalid", {}, {}) /\ UNCHANGED <<jobs, landed>>
          ELSE IF ~ok
            THEN Answer(r, "error", {}, {}) /\ UNCHANGED <<jobs, landed>>
          ELSE IF j \notin DOMAIN jobs
            THEN Answer(r, "not_found", {}, {}) /\ UNCHANGED <<jobs, landed>>
          ELSE /\ UpdateJob(j, WithCompletion(jobs[j], call[r].arg))
               /\ Record(r)
               /\ Goto(r, "reread")
               /\ UNCHANGED reply
  /\ UNCHANGED <<server, restarts, heard, audit, call, forgotten, unlogged>>

\* Mutant: the job is read again before the store's mutex, which is not
\* reentrant, is released.
RereadJob_InsideLock(r) == FALSE

\* complete() reads the job again for its response.  The error of a failed read is
\* ignored and the empty job it returned is what the caller is shown.
RereadJob(r) ==
  /\ At(r, "reread", {"complete"})
  /\ \E ok \in Outcomes :
       Hold(r, {IF ok /\ call[r].job \in DOMAIN jobs
                  THEN Seen(call[r].job, jobs[call[r].job]) ELSE EmptyJob})
  /\ Goto(r, "audit")
  /\ UNCHANGED <<server, restarts, store, call, history>>

AppendEvent(r) ==
  /\ At(r, "store", {"event"})
  /\ LET j == call[r].job
     IN \E ok \in Outcomes :
          IF ~ok \/ j \notin DOMAIN jobs
            THEN Answer(r, "not_found", {}, {}) /\ UNCHANGED <<jobs, landed>>
            ELSE /\ UpdateJob(j, WithEvent(jobs[j], r))
                 /\ Record(r)
                 /\ Answer(r, "ok", {}, {})
  /\ UNCHANGED <<server, restarts, heard, audit, call, forgotten, unlogged>>

SetResult(r) ==
  /\ At(r, "store", {"upload"})
  /\ LET j == call[r].job
     IN \E ok \in Outcomes :
          IF ~ok \/ j \notin DOMAIN jobs
            THEN Answer(r, "not_found", {}, {}) /\ UNCHANGED <<jobs, landed>>
            ELSE /\ UpdateJob(j, WithResult(jobs[j], r))
                 /\ Record(r)
                 /\ Goto(r, "audit")
                 /\ UNCHANGED reply
  /\ UNCHANGED <<server, restarts, heard, audit, call, forgotten, unlogged>>

\* A failed upsert is ignored: the heartbeat, which changed nothing, is audited
\* and acknowledged all the same.
Heartbeat(r) ==
  /\ At(r, "store", {"heartbeat"})
  /\ \E ok \in Outcomes :
       IF ok THEN heard' = heard \cup {call[r].runner} /\ Record(r)
             ELSE UNCHANGED <<heard, landed>>
  /\ Goto(r, "audit")
  /\ UNCHANGED <<server, restarts, jobs, audit, call, reply, forgotten, unlogged>>

\* A failing query lists nothing.
ListPending(r) ==
  /\ At(r, "store", {"pending"})
  /\ \E ok \in Outcomes :
       LET mine == { j \in DOMAIN jobs :
                       ok /\ jobs[j].status = "pending" /\ jobs[j].tenant = TenantOf(r) }
       IN  Answer(r, "ok", { Seen(j, jobs[j]) : j \in mine }, {})
  /\ UNCHANGED <<server, restarts, store, call, history>>

\* The entries of the caller's tenant; ?limit=N would keep the newest N.
ReadAuditLog(r) ==
  /\ At(r, "store", {"auditlog"})
  /\ \E ok \in Outcomes :
       LET mine == { i \in 1..Len(audit) : ok /\ audit[i].tenant = TenantOf(r) }
       IN  Answer(r, "ok", {}, { audit[i] : i \in mine })
  /\ UNCHANGED <<server, restarts, store, call, history>>

\* h.audit, then the response.  A failed insert is ignored.
WriteAudit(r) ==
  /\ At(r, "audit", AuditedOps)
  /\ \E ok \in Outcomes :
       IF ok THEN audit' = Extended(audit, EntryOf(r)) /\ UNCHANGED unlogged
             ELSE UNCHANGED audit /\ unlogged' = unlogged \cup {r}
  /\ Answer(r, "ok", reply[r].seen, {})
  /\ UNCHANGED <<server, restarts, jobs, heard, call, forgotten, landed>>

Step(r) ==
  \/ CheckOwned(r) \/ CreateJob(r) \/ ClaimJob(r) \/ CompleteJob(r) \/ RereadJob(r)
  \/ AppendEvent(r) \/ SetResult(r) \/ Heartbeat(r) \/ ListPending(r)
  \/ ReadAuditLog(r) \/ WriteAudit(r)

-----------------------------------------------------------------------------
(* The server process.                                                     *)

\* SIGINT or SIGTERM: Shutdown stops accepting and waits for the handlers.
Drain ==
  /\ server = "up"
  /\ restarts < MaxRestarts
  /\ server' = "draining"
  /\ UNCHANGED <<restarts, store, phase, call, reply, history>>

\* The process ends: when every handler has returned, when Shutdown's ten
\* seconds are over, or by a crash.  Handlers still running are cut where
\* they are; the Memory store goes with the process.
Stop ==
  /\ server \in {"up", "draining"}
  /\ restarts < MaxRestarts
  /\ server' = "down"
  /\ restarts' = restarts + 1
  /\ phase' = [r \in Requests |-> IF phase[r] \in Active THEN "cut" ELSE phase[r]]
  /\ IF Durable
       THEN UNCHANGED <<store, forgotten>>
       ELSE /\ jobs' = [j \in {} |-> None]
            /\ heard' = {}
            /\ audit' = <<>>
            /\ forgotten' = forgotten \cup DOMAIN jobs
  /\ UNCHANGED <<call, reply, landed, unlogged>>

\* A new process opens the same database, or an empty Memory store.
Restart ==
  /\ server = "down"
  /\ server' = "up"
  /\ UNCHANGED <<restarts, store, phase, call, reply, history>>

-----------------------------------------------------------------------------
Init ==
  /\ server = "up"
  /\ restarts = 0
  /\ jobs = [j \in {} |-> None]
  /\ heard = {}
  /\ audit = <<>>
  /\ phase = [r \in Requests |-> "idle"]
  /\ call = [r \in Requests |-> NoCall]
  /\ reply = [r \in Requests |-> NoReply]
  /\ forgotten = {}
  /\ landed = {}
  /\ unlogged = {}

Next ==
  \/ \E r \in Requests, c \in Calls : Receive(r, c)
  \/ \E r \in Requests : Step(r)
  \/ Drain \/ Stop \/ Restart

Spec == Init /\ [][Next]_vars

\* net/http runs each handler in a goroutine of its own and no Store operation
\* waits for another handler's progress, so a handler in progress keeps taking
\* steps.  Nothing obliges a client to call or a server to stop or restart.
FairSpec == Spec /\ \A r \in Requests : WF_vars(Step(r))

-----------------------------------------------------------------------------
(* Properties.                                                             *)

\* Every variable has its type.
TypeOK ==
  /\ server \in {"up", "draining", "down"}
  /\ restarts \in 0..MaxRestarts
  /\ DOMAIN jobs \subseteq Jobs
  /\ jobs \in [DOMAIN jobs -> Job]
  /\ heard \subseteq Runners
  /\ audit \in Seq(AuditEntry)
  /\ phase \in [Requests -> Phases]
  /\ call \in [Requests -> Call \cup {NoCall}]
  /\ reply \in [Requests -> Reply]
  /\ forgotten \subseteq Jobs
  /\ landed \subseteq Requests
  /\ unlogged \subseteq Requests

Landed(op) == { r \in landed : call[r].op = op }

Succeeded(r) == phase[r] = "replied" /\ reply[r].code = "ok"

Audited(r) == \E i \in 1..Len(audit) : audit[i].by = r

\* The one audited operation whose failure its handler cannot see: SQLite.Heartbeat
\* drops the error of its upsert.
MayBeDropped(r) == call[r].op = "heartbeat" /\ Durable /\ IOErrors

\* A job is claimed at most once, however the claims, their retries and the
\* restarts of the server interleave (Claim's check and update are one
\* critical section, and no operation ever makes a job pending again).
SingleClaim ==
  \A r1, r2 \in Landed("claim") : call[r1].job = call[r2].job => r1 = r2

\* A claim that was answered with the job showed the caller's own claim, and as
\* long as the job exists it is that caller's: no completion, event, upload or
\* restart hands it to somebody else or back to the queue.
ClaimHonoured ==
  \A r \in Landed("claim") :
    LET j == call[r].job
    IN /\ j \in DOMAIN jobs => /\ jobs[j].claimedBy = call[r].runner
                               /\ jobs[j].status # "pending"
       /\ Succeeded(r) => \E s \in reply[r].seen :
                            /\ s.id = j
                            /\ s.job.claimedBy = call[r].runner
                            /\ s.job.status = "claimed"

\* Tenants are isolated: a response shows only jobs and audit entries of the
\* caller's tenant, and only that tenant's requests change a job -- although
\* ownership is checked in an earlier critical section than the change.  (The
\* empty job is no tenant's.)
TenantIsolation ==
  /\ \A r \in Requests : \A s \in reply[r].seen \ {EmptyJob} : s.job.tenant = TenantOf(r)
  /\ \A r \in Requests : \A e \in reply[r].log : e.tenant = TenantOf(r)
  /\ \A r \in landed : call[r].job \in DOMAIN jobs => jobs[call[r].job].tenant = TenantOf(r)

\* The audit trail does not lie about jobs: every entry is of one request that did
\* what the entry says, under the tenant that owns the job, and no request has two.
\* The code gives no such promise for a heartbeat over SQLite: its entry shows only
\* that it was received, since a failed upsert is audited as well.
AuditTruthful ==
  /\ \A i \in 1..Len(audit) :
       LET e == audit[i]
       IN /\ e.action = call[e.by].op
          /\ e.by \in landed \/ MayBeDropped(e.by)
          /\ e.job = call[e.by].job
          /\ e.tenant = TenantOf(e.by)
          /\ e.job \in DOMAIN jobs => jobs[e.job].tenant = e.tenant
  /\ \A i, k \in 1..Len(audit) : audit[i].by = audit[k].by => i = k

\* Whoever was told that an audited action succeeded finds it in the trail,
\* unless the insert itself failed, for as long as the store that holds the
\* trail lives (SQLite: for ever; Memory: as long as its jobs); and the action did
\* take effect, unless it is a heartbeat whose upsert failed.
AnsweredIsAudited ==
  \A r \in Requests :
    /\ Succeeded(r)
    /\ call[r].op \in AuditedOps
    /\ Durable \/ restarts = 0 \/ call[r].job \in DOMAIN jobs
    => (r \in landed \/ MayBeDropped(r)) /\ (Audited(r) \/ r \in unlogged)

\* What was acknowledged is kept: an enqueued job is not lost (but by the end of
\* a Memory store), an event is in the job's list exactly once, and after an
\* upload the job has a result, one that some upload for this job brought.
AnsweredIsKept ==
  \A r \in Requests :
    Succeeded(r) =>
      LET j == call[r].job
      IN /\ call[r].op = "create" => j \in DOMAIN jobs \/ (~Durable /\ j \in forgotten)
         /\ call[r].op = "event" /\ j \in DOMAIN jobs =>
              \E i \in 1..Len(jobs[j].events) :
                 \A k \in 1..Len(jobs[j].events) : jobs[j].events[k] = r <=> k = i
         /\ call[r].op = "upload" /\ j \in DOMAIN jobs =>
              jobs[j].result \in { u \in Landed("upload") : call[u].job = j }

\* Once a completion took effect the job stays completed, whatever late events,
\* uploads or claims arrive; so the job a completion answers with, read in a
\* later critical section than the update, is never shown unfinished -- but the
\* answer is the empty job when that read failed, which only SQLite's can.
CompletionSticks ==
  \A r \in Landed("complete") :
    /\ call[r].job \in DOMAIN jobs => jobs[call[r].job].status \in Completions
    /\ \A s \in reply[r].seen :
         s.job.status \in Completions \/ (s = EmptyJob /\ Durable /\ IOErrors)

\* Every request whose handler started is answered or cut off by the end of the
\* process: no handler waits for another one or falls out of its cases.
AcceptedIsAnswered ==
  \A r \in Requests : phase[r] \in Active ~> phase[r] \in {"replied", "cut"}

\* The queue keeps the promise of JobLifecycle: enqueued once, claimed by one
\* runner for good, forward only, lost only with a Memory store.
Lifecycle == INSTANCE JobLifecycle WITH
  NoRunner <- None,
  status <- [j \in Jobs |-> IF j \in DOMAIN jobs THEN jobs[j].status
                            ELSE IF j \in forgotten THEN "lost" ELSE "absent"],
  owner <- [j \in Jobs |-> IF j \in DOMAIN jobs THEN jobs[j].claimedBy ELSE None]

ImplementsLifecycle == Lifecycle!Spec

\* The lifecycle as docs/adr/0003-runner-job-queue.md:26-27 gives it: "Job
\* statuses are pending -> claimed -> running -> done|failed".  Complete does
\* not look at the status, so the code allows more (see README, findings).
DocumentedEdges ==
  {<<"pending", "claimed">>, <<"claimed", "running">>,
   <<"running", "done">>, <<"running", "failed">>}

LifecycleAsDocumented ==
  [][\A j \in DOMAIN jobs \cap DOMAIN jobs' :
       jobs'[j].status # jobs[j].status =>
         <<jobs[j].status, jobs'[j].status>> \in DocumentedEdges]_vars

=============================================================================
