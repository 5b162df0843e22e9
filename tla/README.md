# VardrGate in TLA+

VardrGate executes authorization test cases: it sends one request as several
identities, compares the access it observes with the access that was expected,
and reports the differences. It runs as a command (`vardrgate run`, `policy
run`), or as a server that keeps a queue of such jobs for remote runners
(`vardrgate serve`). This directory models that program, checks the models with
TLC and proves the central results with TLAPS.

Source paths are relative to the root of the repository.

## 1. The system

| component | state | operations | interacts with |
|---|---|---|---|
| **Control plane** `internal/api`, `cmd/vardrgate/serve.go` | none of its own; a handler's local variables | create, pending, get, claim, event, upload, done, failed, heartbeat, audit log | one goroutine per request over one shared Store; shutdown cuts handlers off |
| **Job store** `internal/store` | jobs, runner registry, audit trail (maps, or three SQLite tables) | Create, Get, Pending, Claim, AppendEvent, SetResult, Complete, Heartbeat, Audit, AuditLog | called by handlers; each call is one critical section |
| **Engine** `internal/engine` | one run: captured variables, preflight results, executions, assessments, findings, the reset baseline | setup, preflight, execute or verified execute per identity, assess, classify | sends every request through the client; the target answers, changes, fails |
| **HTTP client** `internal/client` | none | Execute | asks the request guard and the URL check first; never follows redirects |
| **Request guard** `internal/requestguard` | counts per planned dispatch, total, stage | New, Allow | shared by everything that sends in a guarded run |
| **Command line** `cmd/vardrgate/execute.go` | loaded cases, results, interruption, the output files | run (with `--job`, `--cases`, `--request-guard`), policy run (with `--suite`), demo, gate, gateInconclusive | runs the engine case by case, writes the files, decides the exit code |
| **Regression save** `cmd/vardrgate/regression.go` | a directory with two files | save | reads the case file and the result file some command wrote |
| **Policy compiler** `internal/policy`, `internal/suite`, `internal/secretref` | identity files already read, problems collected | Load, bindRoles, Compile, expand references | produces test cases for the engine |
| **Comparison** `internal/compare`, `internal/model` | none (pure) | deny conditions, field lookup, sensitive scan, outcome classification | called by the engine |
| **URL check** `internal/urlcheck` | none (pure) | Check, CheckIP | called by the client, at parse time and at connect time |
| Reports, discovery, importers, scaffold, demo target, coverage, authbench | none that outlives a call | formatting, generation, measurement | read results or documents |

What is hard in this code:

* **Interleaving.** A handler of the control plane makes up to four separate
  calls to the store (ownership, change, re-read, audit) and holds nothing in
  between. Requests are retried by runners that lost an answer. Two saves may
  race for one directory while the case file is edited and a command runs.
* **Crash.** Shutdown waits ten seconds; then, or on a crash, handlers end
  where they are. SQLite keeps what was committed, Memory keeps nothing. A
  command may be killed in the middle of any of its output files.
* **Partial failure.** SQLite errors of audits, heartbeats and reads are not
  reported; the operation goes on or reads as "not found". The guard refuses one
  exchange of a turn and the engine goes on with an error it cannot tell from
  others.
* **Observing a remote system.** Write verification concludes from reads before
  and after a write whether the write happened. Other writers, late commits,
  failed reads, cancellation, and earlier identities of the same case all get
  in between.
* **Stale files.** A save trusts a case file that may have been edited since the
  run and a result file that may be from another run; a suite reads identity
  files that may change while it compiles.
* **Two paths to one verdict.** A finding and the assessment of the same
  execution are computed by different functions, and a finding's category again
  by different rules than those by which a save judges it.
* **Boundaries.** A guard that reserves dispatches at its limit; a gate whose
  "nothing was tested" must never read as "nothing was found".

The hazards, each at its line with the properties that would notice it, are
listed in `PROJECT.json`.


## 2. The modules

| module | models | status |
|---|---|---|
| `JobQueue` | handlers of `internal/api` over `internal/store`, shutdown, crash, restart | all endpoints of the runner protocol |
| `JobLifecycle` | abstract: what the queue promises about one job | implemented by `JobQueue` |
| `RequestGuard` | `internal/requestguard` | complete |
| `EngineRun` | `engine.Run` with `verify.go`, `preflight.go`, `assertions.go`, `credential.go`, and the target it observes | everything that decides access; see section 7 for the rest |
| `GuardedRun` | `EngineRun` with an instance of `RequestGuard` in front of every exchange | complete |
| `CaseSetup` | `engine/setup.go`, and what the exchanges of the run carry | complete |
| `PolicySuite` | `internal/suite`, `internal/policy`, and how the engine judges what they compile | everything that decides who is tested, and how an answer is judged |
| `RunCommand` | the commands of `cmd/vardrgate` that execute cases, from loading to the exit code | complete |
| `Regression` | `regression save` beside commands and edits; extends `RunCommand` | complete |
| `MC…` | cases, plans, policies, sessions, tokens and symmetry for TLC | |
| `…_proofs` | theorems and proofs | seven modules |
| `CountingLemmas` | induction over finite sets and up to a number, sums as counts, a finite set as a list | used by the proofs |

They fit together as the code does. `RunCommand` takes one run of a case as one
step with any result a run can end in; `EngineRun` is that step in detail.
`PolicySuite` compiles the cases and takes all answers of a case at once, a
verified write with its verdict; `EngineRun` has the order of the requests and
how the verdict comes about. `CaseSetup` has what the steps before the run
carry; `EngineRun` has them as steps that succeed or fail. `GuardedRun` composes
`EngineRun` and `RequestGuard`, which share nothing but the exchanges.

### JobQueue

A `Store` operation holds one mutex from beginning to end, in `Memory` and in
`SQLite`, so it is one action. A handler is a process `r \in Requests` whose
`phase[r]` says what it does next:

| phase | code | actions |
|---|---|---|
| `idle` → | `protected`, `resolveTenant`, `decodeJSON` | `Receive` |
| `owned` | `requireOwned`; `handleGetJob` answers here | `CheckOwned` |
| `store` | the one Store call of the handler | `CreateJob`, `ClaimJob`, `CompleteJob`, `AppendEvent`, `SetResult`, `Heartbeat`, `ListPending`, `ReadAuditLog` |
| `reread` | the second `Get` in `complete` | `RereadJob` |
| `audit` | `h.audit`, then `writeJSON` | `WriteAudit` |

`reply[r]` holds the handler's local job until it is written. `Drain`, `Stop`
and `Restart` are `serve`'s shutdown, its end (also by a crash) and a new
process; `Stop` cuts off every handler where it is. With `Durable` the tables
survive; otherwise they are emptied. With `IOErrors` any SQLite statement may
fail, and each handler does with the failure what the code does: reads become
"not found", the second read of `complete` an empty job (`EmptyJob`) that is
answered with success, audit and heartbeat errors vanish. `forgotten`, `landed`
(whose store operation took effect) and `unlogged` are history variables, which no action's guard reads but
`CreateJob`'s (a random id is not drawn twice).

### RequestGuard

`Allow` is one action under the guard's mutex: `InTime` is its first check
(stage, known phase, total, context), `canonical` stands for its checks of the
headers and body, `Fits` for the comparison with one dispatch and its budget.
`Reserve` takes the first dispatch that fits; `Refuse` changes nothing. `Init`
admits the plans `New` accepts. A plan may list a request twice.

### EngineRun

One action is one exchange with the target and what the engine computes from
its answer:

| `pc` | code | actions |
|---|---|---|
| `setup` | `runSetup`, `applySetupVars` | `SetupStep`, `ApplySetup` |
| `preflight` | `runPreflight` | `Probe`, `EndPreflight` |
| `turn` | the loop of `Run` over `executionOrder` | `SendPlain`, `StartVerified`, `Conclude` |
| `reset`, `before`, `again`, `write`, `after` | `verifiedExecute` | `Reset`, `ReadBefore`, `ReadAgain`, `SendWrite`, `ReadAfter` |

`Valid` is `validate`, and `Init` admits invalid cases too, which end at once.
`Conclude` is the rest of `Run`: `guardVerifiedDenials` (`Guarded`), `assess`
(`Assessed`), `demoteRejectedCredential` (`Demoted`), `evaluate` and
`assessmentFinding` (`FindingOf`). Whether a body holds a declared refusal is
looked up twice, once for the record of the execution (`Recorded`) and once more
in `evaluate`, and a body with two keys that differ only in case may be read
differently each time: an execution keeps the set of answers a lookup may give
(`Lookups`), and `Conclude` draws from it for each of the two. The order of identities is not a counter but
a relation between those that wait (`IsNext`), since `executionOrder` sorts.

The target is the environment and is not trusted. `world` fixes, in the initial
state, whose requests it lets through, whose credentials are dead, what a write
and a reset leave behind, and what the reader's request really looks at: the
record, a constant, or something that changes by itself (a "clock", which shows
any value at each read, also the same one twice). A write may take effect
at once, later (`TakeEffect`) or, if it failed, not at all; reads may fail
whatever the record holds; others may change the record (`ForeignChange`). What
the author of a case declares limits this: in an environment declared
`synchronous_isolated` nobody else writes, and a write is late only if it was
answered with 202 or not at all.

### GuardedRun

Each action is an action of `EngineRun` and, for the exchange it makes, one of
`RequestGuard` with the phase the engine labels that exchange with (`Through`):
either the guard reserves it and the target answers, or it refuses, nothing
reaches the target, and the engine takes the step it takes for an exchange that
failed. A case in `Watched` runs behind a guard; the others run as `EngineRun`
says. The guard's plan comes from outside the program: `Needed` counts what
`request_guard_test.go` counts, and `Short` is that plan with one exchange less.

### CaseSetup

A text (a request, a credential, an object id) is the set of variables it
references; as it is sent, it maps each of them to the step whose capture stands
in its place, or to 0 where the placeholder itself is sent. `StepMet`,
`StepFailed` and `StepUnresolved` are the iterations of `runSetup`; `ApplySetup`
and `ApplyFails` are `applySetupVars`. `StepUnresolved` and `ApplyFails` also
stand for a substituted body that is no JSON any more. The exchanges of the run
(`SendProbe`, `SendRequest`, `SendRead`, `SendReset`) may happen in any order
and number, since only what they carry matters here; `EngineRun` has their
order. There `SetupStep` and `ApplySetup` stand for all of this module.

### PolicySuite

An invocation is a suite or a single policy with the identity files it finds.
`CompileEntry` is one round of the loop of `Suite.Compile`: the file is read
once and cached (`cache`), `bindRoles` leaves out whom the policy does not name
(`Bound`, `Staffed`), and `Compiles` has every reason for which an entry is
refused; refusals are collected in `problems`. `EndCompile` validates all cases
and runs them only if there was none. `Edit` changes the files meanwhile.
`RunEntry` judges one combination of answers: `Outcomes` is `classify`,
`Assessed` is `assess` with `demoteRejectedCredential`, `FindingsOf` is
`evaluate`, `assessmentFinding` and `sensitiveDataFindings`, and
`UnexpectedCategory` is `classifyUnexpectedAccess`. `FailEntry` is a case whose
setup or preflight failed. A rule of an assertion or a profile matches an answer
or does not; which it does is a choice of the answer.

### RunCommand and Regression

`pc` goes through a command in the order of the code:

| `pc` | code | actions |
|---|---|---|
| `ended` → `load` | the next command line | `Start` |
| `load`, `check` | `loadCases`, `validateSuite`, the flags | `Load`, `Check` |
| `run`, `ran` | the loop over the cases, `runCasesContext` | `RunCase`, `Settle` |
| `out` … `rename` | `writeJSON`, `writeJSONAtomic` | `SkipOut`, `OpenOut`, `FillOut`, `OpenTemp`, `FillTemp`, `Rename` |
| `sarif`, `fill sarif`, `show` | `writeSARIF`, the report | `OpenSarif`, `FillSarif`, `Show` |
| `gate` | `gate`, `gateInconclusive`, `runError`, the interrupted result | `Gate` |

A file is opened, which truncates it, and filled in separate steps, and a step
between may be the last one (`Kill`). `Signal` is the first signal of a guarded
job. `ran` is a history of which text ran and what was found in it.

`Regression` puts a desk around it: `RunNext` starts the next command, `Edit`
changes the case file at any moment, and each save goes from `ReadCases` over
`ReadResult`, `MakeDirectory`, `WriteSpec` to `WriteConfirmation`, failing or
being killed anywhere (`FailSave`). A session is what may happen at the desk and
bounds it.

## 3. The runs

Every run but `queue_documented`, `setup_documented` and `policies_documented`
passes; each finishes within three minutes on two workers.

| run | question | instance |
|---|---|---|
| `queue_memory` | Are tenants isolated, and does the queue implement `JobLifecycle`, while the store dies with the process? | 3 requests, 1 job, 2 tenants, an unknown token, bad bodies, 1 restart |
| `queue_claims` | Can interleaved claims, events, completions and a crash hand a job to two runners, or take it from the one that has it? Is every accepted request answered? | 3 requests, 1 job, 2 runners, 1 restart, fairness |
| `queue_durable` | Can a finished job come back or be answered as unfinished, is the audit trail true and complete, is what was acknowledged kept, and `JobLifecycle` implemented, over SQLite when every statement may fail? | 3 requests, 2 jobs, 2 tenants, I/O errors, 1 restart |
| `queue_documented` | Are the transitions the documented ones? No: see section 6. | 3 requests |
| `guard` | Can any sequence of requests get more past the guard than its plan approves, or out of order? Does it refuse what is approved? | 5 plan shapes, every request over 2 keys, 6 phases, well formed or not |
| `engine_writes` | Can a changing record, a wrong reader, a late or lost write, a dead credential, cancellation, or another identity's write make a verified conclusion false? Are they tried in an order in which they can be judged? | changes, creations, deletions and logins; 2 or 3 identities of every role, 2 values, statuses 200, 202 and 401, 1 foreign change, a reader of the record or of a constant |
| `engine_answers` | Do finding and assessment agree on every answer that can be read in one way only, and does a dead token ever read as protection? Is anything sent before every probe has passed? Is a plan that counts what the case needs always enough, does a refused exchange ever judge anybody, and does every run end? | every expectation, refusal (found, not found, or found by one lookup only), combination of matched assertions; 5 statuses; setup, preflight of identities and reader; readers of the record, a constant or a clock; cases behind a guard whose plan is whole or one exchange short; fairness |
| `setup` | Which value does each step, request and credential carry, and what is sent after a failed step? | 8 lists of up to 3 steps, 2 variables, references in every kind of part, with and without verification, reset and probes |
| `setup_documented` | Is a placeholder ever sent? Yes: see section 6. | the handshake of the repository's README |
| `commands` | Does the exit code say what happened, is what it speaks of in the files, and are they whole? What can a confirmation stand beside after edits, old result files, racing saves and kills? | 9 kinds and options of commands over batches of 2 cases of 8 texts, every result of each; sessions with 1 edit, 2 commands, 2 saves |
| `policies` | Is every control a suite lists tried? Does anything forbidden pass in silence, and can all that is found be saved? | suites of 2 entries of which one fails in each way an entry can, while an identity file changes; 20 policies, each with and without shared profiles and as a single policy, against every combination of 14 answers |
| `policies_documented` | Can the record of an execution and its finding disagree? Yes: see section 6. | the same with one more answer |

Why the bounds suffice. The safety properties of the queue relate two requests
on one job (two claims, a check and a change, a change and its audit) and one
event from outside (another request, a crash), so three requests on one
job show every case; two jobs and two tenants are there for confusion between
them. Requests, jobs and runners are interchangeable, hence the symmetry in the
safety runs (the liveness run has none). One restart suffices because a second
meets the same states with fewer handlers left. In the engine identities
interact through the record and the control only: one allowed, one denied and a
third between them are all the roles there are; the three of `PeersCases` that
must all be judged send no credentials, so that none is dead. Two values plus
absence tell apart "changed", "back" and "something else". Statuses are chosen
so that each rule of classification has one on either side. What a reset brings
back is left out for readers that do not look at the record (`WorldFor`), to
which it makes no difference; and readers of a clock are left to
`engine_answers`, since what `engine_writes` says of single conclusions is not
claimed for them. For setup three
steps are enough for a value that is captured, used and captured again. A gate
looks at its cases one by one and takes the worst, so two cases show every way
one outranks another. Of the saves that race for a directory one gets it and the
others see it made, so two are enough; one edit and two commands give every
order of edit, run and save that the binding must tell apart. Entries of a suite
meet only in an identity file and in an id, so two entries meet in every way.
The bounds are `MaxRestarts`, `MaxForeign`, the fields of a `Session` and the
sizes of the sets. What is proved (section 5) holds without them.

`CHECK_DEADLOCK FALSE` is set because the systems do stop: when every request is
answered, when the result is there, when the context is cancelled and the plan
used up, when the session is over. What must not stop is stated as a liveness
property.

Each property has a mutant listed in `PROJECT.json`, an alternative definition
written next to the one it replaces (`Claimable_Unfinished` next to
`Claimable`), which a plausible bug would amount to and which breaks the
property.

## 4. Fairness

* `JobQueue!FairSpec`: weak fairness of each handler's steps. `net/http` runs
  each handler in a goroutine of its own, the store mutex is never held while
  waiting for another handler, and no step of a handler is disabled by another.
  No fairness of clients, of shutdown or of restart.
* `GuardedRun!GuardedFairSpec`: weak fairness of the engine's steps, guarded or
  not. Every exchange has a timeout (`client.go:127`), a refusal of the guard
  comes back at once, and an exchange that fails is a step as well. No fairness
  of the target: a pending write need never take effect.
* `RunCommand`, `Regression`, `PolicySuite`, `CaseSetup`, `RequestGuard`: none.
  Their properties are about what is true when something was done. A command may
  be killed at any moment.

## 5. What is proved

TLAPS checks the theorems below for every value of the constants: any number of
requests, jobs, tenants, plans, cases, identities, values, policies, commands,
sessions and saves. They rest on the assumptions stated in the modules
(`ConstantsAssumption`, `PlansAssumption`, `CasesAssumption`,
`OraclesAssumption`, `CommandAssumption`, `ResultAssumption`,
`SessionAssumption`, `PolicyAssumption`, `WatchedAssumption`), which only say of
what kind the constants are, that names of different kinds differ, that a batch
names each case once, which options a kind of command has, and that a guarded
case has finitely many probes and identities.

**CountingLemmas.** A plan is a list of budgets, a policy is bound by a loop over
a list, so what is said of them for every length is an induction. The library's
induction rules take the property as an operator, which the provers cannot
instantiate; `SubsetInduction`, `SetInduction` and `UptoInduction` take it as the
set of what has it, and follow from the library's theorem that strict inclusion
of finite sets is well-founded. `SumIsCount` turns a sum into the size of a set
of units, so that "one more" and "not more than" are facts about finite sets
(`UnitsBump`, `UnitsUnder`).

**JobQueue.** `TypeCorrect` needs `BaseInv`: the types, and that a handler that
is in some phase received a call that gets there. `ClaimedOnce`,
`ClaimsAreHonoured`, `CompletionsStick` and `TenantsAreIsolated` follow from one
invariant, `Safe`. None of the four is inductive alone. The window between
`requireOwned` and the change is closed by `OwnershipHeld` (ownership, once
checked, holds until the handler is through, because nothing changes a job's
tenant and only the end of the process, which also ends the handler, removes a
job); a late or repeated claim by `ClaimsHold` (a job whose claim landed is not
pending, and nothing makes it so); a dropped job by `ForgottenGone` and
`LandedKnown`. `QuietSafe` and `LandSafe` show once what all steps that change
no job, and all that change one, have in common.

`QueueKeepsLifecycle` is the refinement: under `Safe` every step of `JobQueue`
is one of `JobLifecycle` or changes neither status nor owner of any job.
`TrailIsTruthful` needs that whoever has an entry has landed and has been
answered (`Trail`): this is why no request gets a second entry, and why the
entry still agrees with the call. `SuccessIsAudited` needs that of all steps
that answer with success only those behind an insert answer an audited
operation (`WhoIsTold`, `Told`). Both leave out a heartbeat over a SQLite store
whose statements may fail (`MayBeDropped`, see section 6), and `CompletionsStick`
there leaves out the empty job. `SuccessIsKept` needs
`Kept`: a stored job has every landed event of its own once, none that did not
land, and the result of one of its landed uploads; a new job's id is named by no
landed request.

**RequestGuard.** `TypeCorrect` contains that no dispatch exceeds its own
budget. `TotalIsHonest` is inductive with the types. `StagesInOrder` needs that
`stage` is not behind anything granted. `NothingBeyondApproval` and
`RefusalsAreJustified` need `CountInv`: a request was granted exactly as often as
the dispatches that cover it are counted, all together (`Traced`), and the total
is what all counts add up to (`Tallied`). From the first follows that the grants of a request are bounded by the sum of the budgets that
cover it; from the second, with the check of `New` that the budgets add up to the
plan's total, that the total is not used up while a dispatch has room
(`RoomInTotal`).

**EngineRun.** `ProbesBeforeRequests` needs that turns start only when all
probes have passed and that no probe is sent later (`ProbesFirst`).
`CancellationJudgesNothing` is an action property that goes through every point
at which a turn can end. `EveryExpectationJudgedOnce` speaks of identities that
verification or assertions decided, or whose answer both lookups must classify
alike (`SameObservation`); there `assess` and `evaluate` read the same access from
it by different rules (`ObservedAlike`). For the others it is not claimed, and not
true: see the third finding. `DeadTokensProveNothing` follows the credential from the answer
over the write verification (`DeadConclusion`: without an answer an unchanged
record stays open, with 401 the denial is demoted) to the assessment
(`DeadConclude`).

**Verified writes** (also in `EngineRun_proofs`). `AllowedMeansChanged`,
`DenialsAreTrue` and `TriedOnBaselines` need four invariants on top of each
other. `InTurn`: only one identity is ever between its write and its verdict.
`Tried`: the state before a write is one it can be judged on. `Sighted` is the
heart: with a reader of the record, what was read before and what is there now
differ only by the write between them, if nobody else writes, which an isolated
environment promises. That the reader is not one of something that changes by
itself is an assumption of the first two theorems (`Steady`): the two reads
before a write catch such a reader only if it happens to change between them, and
one that changes after both makes a write without effect read as allowed, and as
a control lets a false denial stand. The code and the documents say so
(`verify.go:312-313`, `docs/write-verification.md:113-117`, `docs/adr/0018:39-42`).
A reader of a constant, on the other hand, is excluded by the control. `Truths`
carries what each conclusion implies until the end: an allowed write moved the
record to the one effect a
write has, so that the reader is one that sees it, and a denied write of an
identity the target lets through would have been seen moving. The last step of
`DenialsAreTrue` is that a denial without an allowed control is withdrawn
(`Reported`). `DeniedGoFirst` needs that the identity whose turn it is precedes
all that wait (`NextAfterDenied`).

**The end of a run** (also in `EngineRun_proofs`). Of `Terminates` the part that is
no liveness is proved. `EveryStepIsCloser`: the measure `Distance`, six for each
identity that waits and one for each setup step and probe to come, falls with
every step of the engine, and neither the target nor others nor a cancellation
raise it; it needs `InTurn`, for a turn that is given up before its write must
take somebody out of those that wait. `SomebodyIsNext`: the order of probes and of
turns (`executionOrder`) is total, so while there is work there is a next one
(`LeastExists`). What is left to TLC is that the step is enabled and fairness takes it.

**GuardedRun.** `GuardedIsRun` is the refinement: to the engine a refused exchange
is one that failed, so a guarded run is a run of `EngineRun`, and every theorem
above holds behind a guard. `RefusalsJudgeNothing` follows a refusal from the
exchange to the assessment (`Refusals`): the turn it fell into ended without a
conclusion, or its write is one that got no answer and did nothing, which no
read after it can turn into protection, nor into access while the record and what
the reader shows stay as they are. `GuardKeepsItsPromise` is the refinement
in the other direction: what a run asks, in its order, is a behaviour of
`RequestGuard`, so the theorems about the guard hold during a run.
`PlanIsEnough` needs `PlanInv`. What a run can still ask for is bounded from
where it is: `Spent` gives, for each dispatch, how often it may have been counted
when the engine is at this step of this identity's turn (`WithinNeed`), the turns
that are over being counted whole; and the guard's stage is not ahead of the
engine (`Paced`). Each exchange then finds its dispatch with room, and the total
with it by `RoomInTotal`. `WholeIsAccepted` shows that the plan which counts what a
case needs is one that `New` accepts, so that `PlanIsEnough` is about plans that
exist, for every case with an identity to send as and, if it verifies, one to
judge.

**CaseSetup.** `NothingAfterFailure` needs that every step behind the current one
established its precondition and no exchange is ahead of it (`InStep`).
`LatestValuesSent` needs that each variable holds its latest capture
(`VarsLatest`) and that, once the run begins, every part of the case was
resolved with them (`RunResolved`).

**RunCommand and Regression** (`Regression_proofs`). An exit code is decided long
after the results it speaks of: `ExitCodeIsTrue` needs `StageInv`, which says
what each stage of a command has behind it, and `ResultsAreReported` needs
`FileInv`, which says it of the files. `NothingUnchecked` and
`PublishedAtomically` follow from the stage a command is in.
`ConfirmationIsWhole` needs `SaveInv`: at most one save is past `Mkdir`, and
nobody's confirmation is there before its text is complete. `BoundIsTrue` needs
`FaithInv`: every result, in memory, in a file or behind a confirmation, is of a
run that took place, with the digest of the text that run had -- through edits
and files left by commands long ended.

**PolicySuite.** `NothingForbiddenPasses` and `WhatIsFoundCanBeSaved` need
`CaseInv` (every case is the compilation of the entry in its place) and
`ResultInv` (the result is a judgement of the last case). `NothingForbiddenPasses`
assumes that the lookup of a refusal has one answer (`Unambiguous`); that it may
have two is the third finding. `EveryControlIsTested` needs `CompiledInv`: every
case compiled from the list that is still in the cache under its file, because a
file that was read is not read again. `KeptIs` says, for lists of any length, whom
the loops of `bindRoles` and `compileVerify` keep; with it `CaseTests` shows that a
case has exactly those of its file whom the policy speaks of. The reader is not
among them because `compileVerify` refuses a reader in `expect` (`ReaderIsApart`).

Only model-checked: liveness, `AcceptedIsAnswered` and `Terminates`, which with
fairness and `ENABLED` is out of the prover's reach. Every other property of a
passing run is a theorem.

## 6. Findings

* **The lifecycle is wider than documented** (`queue_documented`).
  `docs/adr/0003-runner-job-queue.md:26-27` and `docs/architecture.md:162` give
  the chain pending → claimed → running → done|failed. `Complete`
  (`store.go:206-219`, `sqlite.go:183-199`) looks neither at the status nor at
  the claimant: a pending job can be completed, a claimed one without having run,
  and a done one turned into failed. `JobLifecycle` states what does hold.

* **A placeholder sent as a credential** (`setup_documented`). `runSetup` takes
  the actor of a step from the case as declared (`setup.go:41-63`) and
  substitutes only the step's request; credentials follow in `applySetupVars`,
  after all steps. So a step run `as` an identity whose credential is
  `{{token}}`, captured by an earlier login step, is sent with those literal
  characters. `README.md:342-360` shows just this handshake, and
  `setup.go:203-205` says that a placeholder must not be left in place. The same
  comment is not kept where no step captured anything: `applySetupVars` then
  returns the case as it is (`setup.go:102-105`). `CarriesLatest` states what
  does hold, and is proved.

* **A record and its finding can disagree** (`policies_documented`). `Run`
  classifies an execution once for the record (`engine.go:184-190`), "so the
  execution record and the findings drawn from it cannot disagree", and
  `evaluate` classifies the same body again (`engine.go:352`). The lookup of a
  field takes, when no key has the exact spelling, the first key of a Go map
  that differs only in case (`compare.go:289-327`), and that order is random. A
  body with two such keys may be recorded as a refusal and reported as access.
  `NothingPasses` states what does hold of bodies without them, and is proved.

Noticed on the way, without a run. `SQLite.Heartbeat` drops the error of its
upsert (`sqlite.go:211`) and `handleHeartbeat` audits and confirms the heartbeat
all the same, so the trail may hold an entry for a change that did not take place,
and the runner be told of one: `AuditTruthful` and `AnsweredIsAudited` leave such
heartbeats out. A completed job whose second read fails is answered as an empty
job with success (`jobs.go:148`); `CompletionSticks` allows it there only. A setup that fails ends every command but a suite
before anything is written, with exit 3 (`Aborted`), although `execute.go:62-64`
and `docs/adr/0014` say of exit 3 that the result file exists; `docs/adr/0013`
says for a single policy that the error is returned directly, and a `run --cases`
loses the results of the cases before. A guarded job that is killed leaves its
temporary file, and a save that is interrupted a directory that blocks a retry.

## 7. What is left out, and assumptions

* **Queue.** Timestamps, error texts, configs, and the limit on bodies. The order
  in which `Pending` lists (SQLite compares texts, Memory times): the model
  answers with a set. Two servers on one database file. `/health` and
  `/v1/tests/execute`, which use no store.
* **Engine.** A write has the same effect whoever sends it, so an identity whose
  write is accepted but lands elsewhere is not distinguished from one whose write
  the reader cannot see. Each identity has one expectation; `validate` accepts
  two, of which `expectedFor` takes the first and `Run` the last. Categories and
  sensitive-data findings are in `PolicySuite`, the CORS finding only as one of
  the results of `RunCommand`, where every CORS policy found is one of high
  severity. Evidence, reasons and remediation are left out. Setup, in
  `EngineRun`, either establishes the case or ends the run.
* **Guard.** Its plan is made by an external runner; `Needed` follows
  `request_guard_test.go`, which projects a plan. Once the context is cancelled
  the engine may not ask the guard at all; there the model records a refusal,
  which has no effect.
* **Readers.** A value that changes by itself (a timestamp, a counter) may be the
  same in both reads before a write and another one after it. Nothing in the
  engine can tell this from an effect of the write, and `AllowedTrue`,
  `DeniedTrue` and the access half of `RefusedJudgesNothing` are not claimed for
  such a reader (`Steady`). That the control is allowed does not exclude it: the
  clock may have changed then, too.
* **AllowedTrue** holds only where the author declared an environment and no
  write was late; in an undeclared one the engine keeps its legacy behaviour and concludes
  anyway (`docs/adr/0021`). **DeniedTrue** holds because a denial needs an allowed
  control that the same reader saw succeed.
* **JudgedOnce** does not speak of an answer that is judged by its status or body
  and in which the declared refusal is found by one lookup and not by another.
* **Policies.** Which rules match an answer, what a body says in a field and
  which sensitive fields it shows are choices of the answer. A reference resolves
  or not; that the credential of a verifier is expanded twice (`identities.go`,
  then `policy.go:695`), so that a resolved secret which itself contains `${…}`
  is read as a reference, is not modelled. `forbidden_for` and an owner with a
  misspelt role are ignored by the code and by the model; the owner is the last
  identity of the role; `policy run --policy`, unlike a suite, does not require
  an identity for every role, and `ControlsTested` claims it for suites only.
* **Commands.** Flags are reduced to those that decide what is sent, written or
  returned; texts of cases to what validation, findings and a save look at.
  A digest stands for its text.
* **Reads.** The client builds requests, limits sizes and refuses redirects; the
  models see a status or an error.
* **Pure parts.** Comparison, URL check, secret references, coverage, discovery,
  importers, scaffold and reports keep no state. Reports, discovery, importers
  and scaffold are formatting or drafts for an author and will stay out; so will
  the demo target and the benchmarks, which are samples and measurements.

## 8. Plan

1. Pure algorithms against reference definitions over bounded inputs: deny
   conditions and field lookup (`compare`), addresses (`urlcheck`), coverage.
2. Two servers over one SQLite file: `load` and `update` as two steps. No
   document allows or forbids it; `SingleClaim` would be at stake.
3. For the handlers of the queue what `EveryStepIsCloser` is for a run.
4. The results of `RunCommand` as results `EngineRun` can end in: a theorem that
   links the two models instead of the words of section 2.
