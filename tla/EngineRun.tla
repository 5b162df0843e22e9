------------------------------ MODULE EngineRun ------------------------------
(***************************************************************************)
(* internal/engine: one run of a test case.  The engine sets the case up,  *)
(* probes the identities, sends the request under test once as every       *)
(* identity and concludes, per identity, whether it had access.  For a     *)
(* case with write verification the conclusion rests on a reader that      *)
(* looks at the written record before and after the request.               *)
(*                                                                         *)
(* One action is one HTTP exchange with everything the engine computes     *)
(* from it.  The target is not trusted: a response says nothing about what *)
(* was written, writes may be lost, refused or late, reads may fail.       *)
(***************************************************************************)
EXTENDS Integers, Sequences, FiniteSets

CONSTANTS
  Ids,       \* identities under test
  Reader,    \* the identity that reads the written record
  Values,    \* values the record can have
  Absent,    \* the record does not exist
  NoValue,   \* no value was read, or none is the target
  Statuses,  \* HTTP statuses the target answers with
  Cases,     \* test cases a caller may hand to Run
  Oracles,   \* what the reader's request shows: the record, a constant, or a "clock",
             \* a value that changes by itself
  MaxForeign \* bound: changes of the record by others

Success == 200..299
NoStatus == 0    \* the status of an execution that ended in an error
States == Values \cup {Absent}
Expectations == {"allow", "deny", "skip", "none"}
Decisions == {"allowed", "denied", "inconclusive", "skipped"}

\* A test case, reduced to what decides the course of a run.
Case ==
  [ order : Seq(Ids),                      \* identities, as declared
    expect : [Ids -> Expectations],        \* "none": no entry in expected_access
    anonymous : SUBSET Ids,                \* identities that send no credential
    asserted : SUBSET Ids,                 \* those with response assertions
    denyStatus : SUBSET (300..599),
    unauthorizedIsDenial : BOOLEAN,
    setup : Nat,                           \* number of setup steps
    preflight : SUBSET (Ids \cup {Reader}),
    strict : BOOLEAN,                      \* every identity must be probed
    mutating : BOOLEAN,
    verify : BOOLEAN,
    strategy : {"", "changed", "created", "deleted"},
    environment : {"", "unknown", "synchronous_isolated"},
    pointer : BOOLEAN,                     \* the reader looks at a value, not only at the status
    target : Values \cup {NoValue},        \* changed_to
    afterStatus : SUBSET (400..499),
    reset : BOOLEAN ]

Judged(c, id) == c.expect[id] \in {"allow", "deny"}

ValidVerification(c) ==
  /\ c.strategy # "" => c.environment = "synchronous_isolated"
  /\ c.afterStatus # {} => c.strategy = "changed"
  /\ c.strategy \in {"created", "deleted"} => c.target = NoValue
  /\ c.strategy = "changed" => c.pointer \/ c.afterStatus # {}
  /\ c.reset => c.strategy # ""
  /\ c.mutating
  /\ c.target # NoValue => c.pointer
  /\ Cardinality({ id \in Ids : Judged(c, id) }) > 1
       => \/ c.target # NoValue
          \/ c.strategy \in {"created", "deleted"}
          \/ c.strategy = "changed" /\ c.reset

ValidPreflight(c) ==
  /\ c.strict => /\ \E id \in Ids : Judged(c, id)
                 /\ \A id \in Ids : Judged(c, id) => id \in c.anonymous \cup c.preflight
  /\ c.preflight \cap c.anonymous = {}

\* What validate accepts.
Valid(c) ==
  /\ c.order # <<>>
  /\ \A i, k \in DOMAIN c.order : c.order[i] = c.order[k] => i = k
  /\ \A id \in Ids : c.expect[id] # "none" => \E i \in DOMAIN c.order : c.order[i] = id
  /\ c.verify => ValidVerification(c)
  /\ ValidPreflight(c)

ASSUME CasesAssumption ==
  /\ Cases \subseteq Case /\ Statuses \subseteq 200..599
  /\ NoValue \notin States /\ Absent \notin Values /\ Reader \notin Ids
  /\ MaxForeign \in Nat

ASSUME OraclesAssumption == Oracles \subseteq {"record", "constant", "clock"}

VARIABLES
  tc,         \* the test case
  pc,         \* what the engine does next
  at,         \* position of the setup step, then of the identity whose turn it is
  cancelled,  \* whether the context of the run is cancelled
  probes,     \* probes[id]: "unsent", "passed" or "failed"
  exec,       \* exec[id]: the execution recorded for an identity
  verdict,    \* verdict[id]: what verification concluded, "none" where it did not run
  before,     \* what the first read of this turn showed
  baseline,   \* what the first stable read after a reset showed, if any
  assessment, \* assessment[id] in the result
  findings,   \* pairs of identity and category in the result
  world,      \* what the target is like, see Worlds
  record,     \* the record the request writes
  late,       \* a write that was let through and has not taken effect
  foreign,    \* changes of the record by others
  wrote       \* history: the record when id's verified write was sent and answered

run == <<tc, pc, at, probes, exec, verdict, before, baseline, assessment, findings>>
server == <<world, record, late, foreign>>
vars == <<run, cancelled, server, wrote>>

NoExec == [status |-> NoStatus, refusal |-> {FALSE}, matched |-> {}, sent |-> FALSE]
NoState == [status |-> NoStatus, value |-> NoValue]
NotSent == [from |-> NoValue, to |-> NoValue]

-----------------------------------------------------------------------------
(* Order of the run. *)

Declared(id) == \E i \in DOMAIN tc.order : tc.order[i] = id

\* Whose principal is probed: declared identities, then the reader.
ToProbe ==
  { id \in tc.preflight : IF id = Reader THEN tc.verify ELSE Declared(id) }
Unprobed == { i \in DOMAIN tc.order : tc.order[i] \in ToProbe /\ probes[tc.order[i]] = "unsent" }

Verified(id) == tc.verify /\ Judged(tc, id)

\* Positions of the identities that have not had their turn.
Waiting == { i \in DOMAIN tc.order : verdict[tc.order[i]] = "none" /\ ~exec[tc.order[i]].sent }

\* Mutant: the declared order.
Precedes_Declared(i, k) == i < k

\* Deny-expected identities go first when writes are verified.
Precedes(i, k) ==
  LET first(n) == tc.verify /\ tc.expect[tc.order[n]] = "deny"
  IN  IF first(i) = first(k) THEN i < k ELSE first(i)

IsNext(i) == i \in Waiting /\ \A k \in Waiting : k # i => Precedes(i, k)
Current == tc.order[at]

-----------------------------------------------------------------------------
(* The target. *)

\* Writes complete before they are answered, the reader sees them at once, and
\* nobody else writes: what the author of the case reviewed and declared.
Isolated == tc.environment = "synchronous_isolated"

\* The effect of a request sent by id and answered with status s.  A write that
\* is let through takes effect now, or later when the answer leaves that open.
Effect(id, s) ==
  \/ /\ id \in world.admits /\ tc.mutating
     /\ record' = world.effect
     /\ UNCHANGED late
  \/ /\ id \in world.admits /\ tc.mutating
     /\ s \in {202, NoStatus} \/ ~Isolated
     /\ late' = "pending"
     /\ UNCHANGED record
  \/ /\ id \notin world.admits \/ ~tc.mutating \/ s = NoStatus
     /\ UNCHANGED <<record, late>>

\* Statuses of one exchange: an error once the context is cancelled.
Answers == IF cancelled THEN {NoStatus} ELSE Statuses \cup {NoStatus}

\* A dead credential is answered with 401 and nothing else.
AnswersTo(id) == IF id \in world.dead THEN Answers \cap {401, NoStatus} ELSE Answers

\* What a faultless read shows, by what its request really looks at.  A clock may
\* show the same value in several reads and another one in the next.
Shown ==
  CASE world.oracle = "record" -> {record}
    [] world.oracle = "constant" -> {world.first}
    [] world.oracle = "clock" -> Values

\* A reviewed after_status means that the original value is no longer accepted.
GoodReads ==
  UNION { IF v = Absent THEN { [status |-> 404, value |-> NoValue] }
          ELSE IF tc.afterStatus # {} /\ v # world.first
               THEN { [status |-> s, value |-> NoValue] : s \in tc.afterStatus }
               ELSE { [status |-> s, value |-> v] : s \in Statuses \cap Success }
        : v \in Shown }

BadReads ==
  { [status |-> s, value |-> NoValue] :
      s \in (Statuses \cup {NoStatus}) \ (tc.afterStatus \cup {404}) }

Reads == GoodReads \cup { r \in BadReads : r.status \in Success => tc.pointer }

-----------------------------------------------------------------------------
(* Observations: a successful read, an absent record, or nothing usable. *)

Usable(read, after) ==
  \/ after /\ read.status \in tc.afterStatus
  \/ /\ read.status \in Success \/ (read.status = 404 /\ tc.strategy # "changed")
     /\ tc.pointer /\ read.status \in Success => read.value # NoValue

StateOf(read) ==
  [status |-> read.status,
   value |-> IF tc.pointer /\ read.status \in Success THEN read.value ELSE NoValue]

\* Mutant: another successful status is another state.
Equal_ExactStatus(s, o) == s = o

\* Two successful statuses do not make two states.
Equal(s, o) ==
  /\ s.status = o.status \/ {s.status, o.status} \subseteq Success
  /\ s.value = o.value

GoodBaseline(read) ==
  /\ Usable(read, FALSE)
  /\ IF tc.strategy = "created" THEN read.status = 404 ELSE read.status \in Success

\* Mutant: a record that already holds the target value is accepted.
ReadyToWrite_AnyTarget(again) ==
  /\ Usable(again, FALSE) /\ Equal(StateOf(again), before)
  /\ tc.reset /\ baseline # NoState => Equal(baseline, before)

\* Both reads agree, the target value is not there yet, and the reset brought
\* back what it brought back the first time.
ReadyToWrite(again) ==
  /\ Usable(again, FALSE) /\ Equal(StateOf(again), before)
  /\ tc.target # NoValue => before.value # tc.target
  /\ tc.reset /\ baseline # NoState => Equal(baseline, before)

\* Mutant: a write that got no answer was refused.
Unsettled_Accepted(s) == s = 202

\* The answer to a write leaves open whether it will take effect.
Unsettled(s) == s \in {NoStatus, 202}

\* What verification concludes from the answer to the write and the read after it.
Conclusion(s, read) ==
  LET after == StateOf(read)
      unchanged == Equal(after, before)
      open == \/ ~Usable(read, TRUE)
              \/ unchanged /\ Unsettled(s)
              \/ ~unchanged /\ tc.target # NoValue /\ after.value # tc.target
              \/ tc.environment = "unknown"
              \/ tc.strategy = "created" /\ after.status # 404 /\ after.status \notin Success
              \/ tc.strategy = "deleted" /\ after.status # 404 /\ ~unchanged
  IN  IF open THEN "inconclusive" ELSE IF unchanged THEN "denied" ELSE "allowed"

\* Mutant: listing 401 among the deny statuses makes it a refusal of the caller.
Demoted_DenyStatus(id, s, decision) ==
  IF /\ tc.expect[id] = "deny" /\ decision = "denied"
     /\ ~tc.unauthorizedIsDenial /\ id \notin tc.anonymous /\ s = 401
     /\ 401 \notin tc.denyStatus
  THEN "inconclusive" ELSE decision

\* Mutant: nothing is demoted after verification.
Demoted_Never(id, s, decision) == decision

\* A 401 to a credential that was sent is not a refusal of the caller.
Demoted(id, s, decision) ==
  IF /\ tc.expect[id] = "deny" /\ decision = "denied"
     /\ ~tc.unauthorizedIsDenial /\ id \notin tc.anonymous /\ s = 401
  THEN "inconclusive" ELSE decision

-----------------------------------------------------------------------------
(* Setup and preflight. *)

Abort == pc' = "aborted" /\ UNCHANGED <<tc, at, probes, exec, verdict, before, baseline,
                                         assessment, findings>>

\* A step is sent, answers below 400 and has the values it captures -- or the
\* run ends with ErrSetupFailed.  What steps do to the record is in world.first.
SetupStep ==
  /\ pc = "setup" /\ at <= tc.setup
  /\ \/ /\ ~cancelled
        /\ at' = at + 1
        /\ UNCHANGED <<tc, pc, probes, exec, verdict, before, baseline, assessment, findings>>
     \/ Abort
  /\ UNCHANGED <<cancelled, server, wrote>>

\* The captured values are put into the case; a variable nothing captured ends
\* the run.
ApplySetup ==
  /\ pc = "setup" /\ at > tc.setup
  /\ \/ /\ pc' = "preflight"
        /\ UNCHANGED <<tc, at, probes, exec, verdict, before, baseline, assessment, findings>>
     \/ tc.setup > 0 /\ Abort
  /\ UNCHANGED <<cancelled, server, wrote>>

\* A probe passes when the principal it reports is the declared one.
Probe ==
  /\ pc = "preflight"
  /\ \E id \in ToProbe, result \in IF cancelled THEN {"failed"} ELSE {"passed", "failed"} :
       /\ probes[id] = "unsent"
       /\ IF id = Reader THEN Unprobed = {}
          ELSE \E i \in Unprobed : tc.order[i] = id /\ \A k \in Unprobed : i <= k
       /\ probes' = [probes EXCEPT ![id] = result]
  /\ UNCHANGED <<tc, pc, at, exec, verdict, before, baseline, assessment, findings>>
  /\ UNCHANGED <<cancelled, server, wrote>>

\* Mutant: one passed probe is enough.
Ready_Any == ToProbe = {} \/ \E id \in ToProbe : probes[id] = "passed"

Ready == \A id \in ToProbe : probes[id] = "passed"

\* One failed probe and the request under test is not sent at all.
EndPreflight ==
  /\ pc = "preflight" /\ \A id \in ToProbe : probes[id] # "unsent"
  /\ IF Ready
     THEN pc' = "turn" /\ UNCHANGED assessment
     ELSE /\ pc' = "done"
          /\ assessment' = [id \in Ids |-> IF Judged(tc, id) THEN "inconclusive" ELSE "skipped"]
  /\ UNCHANGED <<tc, at, probes, exec, verdict, before, baseline, findings>>
  /\ UNCHANGED <<cancelled, server, wrote>>

-----------------------------------------------------------------------------
(* One identity's turn. *)

EndTurn(id, execution, decision) ==
  /\ exec' = [exec EXCEPT ![id] = execution]
  /\ verdict' = [verdict EXCEPT ![id] = decision]
  /\ pc' = "turn" /\ before' = NoState
  /\ UNCHANGED <<tc, probes, assessment, findings>>

\* The request is not sent; nothing is concluded.
Withhold(id) == EndTurn(id, NoExec, "inconclusive") /\ UNCHANGED <<baseline, wrote>>

Goto(step) ==
  pc' = step /\ UNCHANGED <<tc, probes, exec, verdict, assessment, findings>>

\* What looking a declared refusal up in a body can say.  Both, where it holds two
\* keys that differ only in case: each lookup goes through the object in an order
\* of its own.
Lookups == (SUBSET BOOLEAN) \ {{}}

\* Skipped and unexpected identities, and every identity of a case without
\* verification, simply send the request.  (What the body says of an identity
\* nobody judges makes no difference.)
SendPlain ==
  /\ pc = "turn"
  /\ \E i \in DOMAIN tc.order : LET id == tc.order[i] IN
       /\ IsNext(i) /\ ~Verified(id)
       /\ \E s \in AnswersTo(id), refusal \in Lookups, matched \in SUBSET {"allow", "deny"} :
            /\ s = NoStatus \/ ~Judged(tc, id) => refusal = {FALSE}
            /\ s = NoStatus \/ id \notin tc.asserted => matched = {}
            /\ EndTurn(id, [status |-> s, refusal |-> refusal, matched |-> matched,
                            sent |-> TRUE], "none")
            /\ Effect(id, s)
  /\ UNCHANGED <<at, baseline, cancelled, world, foreign, wrote>>

StartVerified ==
  /\ pc = "turn"
  /\ \E i \in DOMAIN tc.order :
       /\ IsNext(i) /\ Verified(tc.order[i])
       /\ at' = i
       /\ IF cancelled THEN Withhold(tc.order[i])
          ELSE /\ Goto(IF tc.reset THEN "reset" ELSE "before")
               /\ UNCHANGED <<before, baseline, wrote>>
  /\ UNCHANGED <<cancelled, server>>

\* A reset may claim success and restore nothing, or fail and have restored.
Reset ==
  /\ pc = "reset"
  /\ \E s \in Answers :
       IF s \in Success \ {202} THEN Goto("before") /\ UNCHANGED <<before, baseline, wrote>>
       ELSE Withhold(Current)
  /\ record' \in {record, world.reset}
  /\ UNCHANGED <<at, cancelled, world, late, foreign>>

\* Mutant: an unusable read is tried again.
ReadBefore_Retry ==
  /\ pc = "before"
  /\ IF cancelled THEN Withhold(Current)
     ELSE \E read \in Reads :
       IF GoodBaseline(read)
       THEN Goto("again") /\ before' = StateOf(read) /\ UNCHANGED <<baseline, wrote>>
       ELSE UNCHANGED <<tc, pc, probes, exec, verdict, before, baseline, assessment, findings, wrote>>
  /\ UNCHANGED <<at, cancelled, server>>

ReadBefore ==
  /\ pc = "before"
  /\ IF cancelled THEN Withhold(Current)
     ELSE \E read \in Reads :
       IF GoodBaseline(read)
       THEN Goto("again") /\ before' = StateOf(read) /\ UNCHANGED <<baseline, wrote>>
       ELSE Withhold(Current)
  /\ UNCHANGED <<at, cancelled, server>>

ReadAgain ==
  /\ pc = "again"
  /\ IF cancelled THEN Withhold(Current)
     ELSE \E read \in Reads :
       IF ReadyToWrite(read)
       THEN /\ Goto("write") /\ UNCHANGED <<before, wrote>>
            /\ baseline' = IF tc.reset /\ baseline = NoState THEN before ELSE baseline
       ELSE Withhold(Current)
  /\ UNCHANGED <<at, cancelled, server>>

SendWrite ==
  /\ pc = "write"
  /\ \E s \in AnswersTo(Current) :
       /\ Effect(Current, s)
       /\ exec' = [exec EXCEPT ![Current] = [NoExec EXCEPT !.status = s, !.sent = TRUE]]
  /\ wrote' = [wrote EXCEPT ![Current] = [from |-> record, to |-> record']]
  /\ pc' = "after"
  /\ UNCHANGED <<tc, at, probes, verdict, before, baseline, assessment, findings>>
  /\ UNCHANGED <<cancelled, world, foreign>>

\* Mutant: the context is not looked at after the write.
ReadAfter_NoContext ==
  /\ pc = "after"
  /\ LET s == exec[Current].status
     IN  \E read \in Reads : EndTurn(Current, exec[Current], Demoted(Current, s, Conclusion(s, read)))
  /\ UNCHANGED <<at, baseline, cancelled, server, wrote>>

ReadAfter ==
  /\ pc = "after"
  /\ LET s == exec[Current].status
     IN  IF cancelled THEN EndTurn(Current, exec[Current], "inconclusive")
         ELSE \E read \in Reads :
                EndTurn(Current, exec[Current], Demoted(Current, s, Conclusion(s, read)))
  /\ UNCHANGED <<at, baseline, cancelled, server, wrote>>

-----------------------------------------------------------------------------
(* The result. *)

\* Mutant: denials stand without a control.
Guarded_Never(id) == verdict[id]

\* A denial counts only if the same reader saw an allowed identity's write.
Guarded(id) ==
  IF /\ tc.expect[id] = "deny" /\ verdict[id] = "denied"
     /\ ~ \E control \in Ids : tc.expect[control] = "allow" /\ verdict[control] = "allowed"
  THEN "inconclusive" ELSE verdict[id]

\* classify: a declared refusal in the body, then the declared statuses, then
\* the usual meaning of the status.
Outcome(e, refused) ==
  IF e.status = NoStatus THEN "error"
  ELSE IF refused \/ e.status \in tc.denyStatus \cup {401, 403} THEN "denied"
  ELSE IF e.status \in Success THEN "allowed" ELSE "ambiguous"

\* Mutant: the case's own deny statuses and refusals are not consulted.
Recorded_Default(e, refused) ==
  IF e.status = NoStatus THEN "error"
  ELSE IF e.status \in {401, 403} THEN "denied"
  ELSE IF e.status \in Success THEN "allowed" ELSE "ambiguous"

\* The outcome recorded with an execution: the client's own classification is
\* replaced by the case's.
Recorded(e, refused) == Outcome(e, refused)

\* Mutant: an outcome that is neither is passed on.
Assessed_Outcome(id, recorded) == IF Judged(tc, id) THEN recorded ELSE "skipped"

\* assess: what an execution without verification says about access, from the
\* outcome recorded with it or from the assertions it matched.
Assessed(id, recorded) ==
  LET e == exec[id]
  IN  CASE ~Judged(tc, id) -> "skipped"
        [] Judged(tc, id) /\ e.status # NoStatus /\ id \in tc.asserted ->
             IF e.matched = {"allow"} THEN "allowed"
             ELSE IF e.matched = {"deny"} THEN "denied" ELSE "inconclusive"
        [] Judged(tc, id) /\ e.status # NoStatus /\ id \notin tc.asserted ->
             IF recorded \in {"allowed", "denied"} THEN recorded ELSE "inconclusive"
        [] Judged(tc, id) /\ e.status = NoStatus -> "inconclusive"

Concluded(id, recorded) ==
  IF Verified(id) THEN Guarded(id)
  ELSE Demoted(id, exec[id].status, Assessed(id, recorded))

\* assessmentFinding, and evaluate, which classifies the execution once more:
\* which observation contradicts the expectation.
FindingOf(id, decision, again) ==
  LET observed == IF Verified(id) \/ id \in tc.asserted THEN decision ELSE again
  IN  IF tc.expect[id] = "deny" /\ observed = "allowed" THEN {<<id, "unexpected_access">>}
      ELSE IF tc.expect[id] = "allow" /\ observed = "denied"
      THEN {<<id, "authorization_mismatch">>} ELSE {}

\* One lookup of the declared refusals in every body.
Looked == { refused \in [Ids -> BOOLEAN] : \A id \in Ids : refused[id] \in exec[id].refusal }

\* The bodies were looked up once when each execution was recorded, which is drawn
\* here where it is first used, and are looked up again for the findings.
Conclude ==
  /\ pc = "turn" /\ Waiting = {}
  /\ \E first, again \in Looked :
       LET concluded(id) == Concluded(id, Recorded(exec[id], first[id]))
       IN  /\ assessment' = [id \in Ids |-> concluded(id)]
           /\ findings' = UNION { FindingOf(id, concluded(id), Outcome(exec[id], again[id])) :
                                    id \in Ids }
  /\ pc' = "done"
  /\ UNCHANGED <<tc, at, probes, exec, verdict, before, baseline, cancelled, server, wrote>>

-----------------------------------------------------------------------------
(* What happens around the run. *)

Running == pc \notin {"done", "aborted"}

Cancel ==
  /\ Running /\ ~cancelled
  /\ cancelled' = TRUE
  /\ UNCHANGED <<run, server, wrote>>

\* A pending write takes effect.
TakeEffect ==
  /\ Running /\ late = "pending"
  /\ record' = world.effect /\ late' = "landed"
  /\ UNCHANGED <<run, cancelled, world, foreign, wrote>>

ForeignChange ==
  /\ Running /\ ~Isolated /\ foreign < MaxForeign
  /\ record' \in States \ {record}
  /\ foreign' = foreign + 1
  /\ UNCHANGED <<run, cancelled, world, late, wrote>>

\* What the target is like: whose requests it lets through, whose credentials are
\* dead, what a write and a reset leave behind, the record at the start of the
\* run, and what the reader's request looks at.  A write has the same effect
\* whoever sends it.
Worlds ==
  [admits : SUBSET Ids, dead : SUBSET Ids, effect : States, reset : States, first : States,
   oracle : Oracles]

\* Leaves out what makes no difference to the case: what a reset brings back, to a
\* reader that does not look at it.  A clock is no login.
WorldFor(c, w) ==
  /\ w.admits \cup w.dead \subseteq { c.order[i] : i \in DOMAIN c.order }
  /\ ~c.reset \/ w.oracle # "record" => w.reset = w.first
  /\ ~c.verify => w.effect = w.first /\ w.oracle = "record"
  /\ ~c.mutating => w.admits = {}
  /\ 401 \notin Statuses => w.dead = {}
  /\ w.dead \cap (w.admits \cup c.anonymous) = {}
  /\ c.afterStatus # {} => w.oracle # "clock"

Init ==
  /\ tc \in Cases
  /\ pc = IF Valid(tc) THEN "setup" ELSE "aborted"
  /\ at = 1 /\ cancelled = FALSE
  /\ probes = [id \in Ids \cup {Reader} |-> "unsent"]
  /\ exec = [id \in Ids |-> NoExec]
  /\ verdict = [id \in Ids |-> "none"]
  /\ before = NoState /\ baseline = NoState
  /\ assessment = [id \in Ids |-> "none"] /\ findings = {}
  /\ world \in Worlds /\ WorldFor(tc, world)
  /\ record = world.first /\ late = "never" /\ foreign = 0
  /\ wrote = [id \in Ids |-> NotSent]

Step ==
  \/ SetupStep \/ ApplySetup \/ Probe \/ EndPreflight
  \/ SendPlain \/ StartVerified \/ Reset \/ ReadBefore \/ ReadAgain \/ SendWrite \/ ReadAfter
  \/ Conclude

Next == Step \/ Cancel \/ TakeEffect \/ ForeignChange

Spec == Init /\ [][Next]_vars

\* Every exchange ends: the client gives each a timeout.
FairSpec == Spec /\ WF_vars(Step)

-----------------------------------------------------------------------------
(* Properties. *)

Execution ==
  [status : Statuses \cup {NoStatus}, refusal : Lookups,
   matched : SUBSET {"allow", "deny"}, sent : BOOLEAN]

Observation == [status : (200..599) \cup {NoStatus}, value : States \cup {NoValue}]

TypeOK ==
  /\ tc \in Cases
  /\ pc \in {"setup", "preflight", "turn", "reset", "before", "again", "write", "after",
             "done", "aborted"}
  /\ at \in Nat \ {0} /\ cancelled \in BOOLEAN
  /\ pc \in {"reset", "before", "again", "write", "after"} => at \in DOMAIN tc.order
  /\ probes \in [Ids \cup {Reader} -> {"unsent", "passed", "failed"}]
  /\ exec \in [Ids -> Execution]
  /\ verdict \in [Ids -> {"none", "allowed", "denied", "inconclusive"}]
  /\ before \in Observation /\ baseline \in Observation
  /\ assessment \in [Ids -> Decisions \cup {"none"}]
  /\ findings \subseteq Ids \X {"unexpected_access", "authorization_mismatch"}
  /\ world \in Worlds /\ record \in States
  /\ late \in {"never", "pending", "landed"} /\ foreign \in 0..MaxForeign
  /\ wrote \in [Ids -> [from : States \cup {NoValue}, to : States \cup {NoValue}]]

\* What the reader looks at does not change by itself.  Nothing in the engine can
\* rule that out: a value that is the same in both reads before a write may still
\* be another one after it (verifiedExecute; docs/write-verification.md).
Steady == world.oracle # "clock"

\* A verified "allowed" is that identity's own doing: its request changed the
\* record -- wherever the environment is declared at all, no write came late and
\* the reader looks at something steady.
AllowedTrue ==
  \A id \in Ids :
    /\ pc = "done" /\ Verified(id) /\ assessment[id] = "allowed"
    /\ tc.environment # "" /\ late = "never" /\ Steady
    => wrote[id].from # wrote[id].to

\* A verified "denied" of an identity that was to be denied is never an accepted
\* write the reader did not see: not with a reader that shows a constant, not with
\* a write that is late, not behind another identity's write.  The control that
\* stands behind it shows that the reader saw a change, not what it looks at: a
\* reader that is not steady is left out.
DeniedTrue ==
  \A id \in Ids :
    /\ pc = "done" /\ Verified(id) /\ assessment[id] = "denied"
    /\ tc.expect[id] = "deny" /\ tc.environment # "" /\ Steady
    => id \notin world.admits

\* A verified write is tried only on a record it can be judged on: present (or
\* absent, for a creation), without the target value, and the same for all where
\* there is a reset.
TriedFromBaseline ==
  tc.verify /\ Isolated /\ world.oracle = "record" /\ late = "never" =>
    \A id \in Ids : wrote[id] # NotSent =>
      /\ tc.strategy = "created" <=> wrote[id].from = Absent
      /\ tc.target # NoValue => wrote[id].from # tc.target
      /\ tc.reset /\ tc.pointer =>
           \A other \in Ids : wrote[other] # NotSent => wrote[other].from = wrote[id].from

\* An unauthorized write is judged before any identity that may write has
\* written: while an identity to be denied waits, nobody else has sent anything.
DenyFirst ==
  tc.verify =>
    \A id, other \in Ids :
      /\ tc.expect[id] = "deny" /\ tc.expect[other] # "deny"
      /\ exec[other].sent /\ Declared(id)
      => verdict[id] # "none"

\* The finding and the assessment rest on the same observation: verification or
\* the assertions decided, or the execution can be classified in one way only.
SameObservation(id) ==
  \/ Verified(id) \/ id \in tc.asserted
  \/ \A first, again \in exec[id].refusal : Outcome(exec[id], first) = Outcome(exec[id], again)

\* Every expectation ends in one way: met, contradicted with a finding of the
\* right category, or reported as inconclusive -- also where the finding and the
\* assessment are computed on different paths.  Not so for a body in which the
\* declared refusal is both found and not found: it is looked up twice, and
\* finding and assessment may contradict each other.
JudgedOnce ==
  pc = "done" =>
    \A id \in Ids :
      /\ SameObservation(id) =>
           /\ <<id, "unexpected_access">> \in findings
                <=> tc.expect[id] = "deny" /\ assessment[id] = "allowed"
           /\ <<id, "authorization_mismatch">> \in findings
                <=> tc.expect[id] = "allow" /\ assessment[id] = "denied"
      /\ Judged(tc, id) <=> assessment[id] # "skipped"

\* A dead token never reads as protection, whatever the answer was judged by,
\* unless the author declared that this target refuses callers with 401.
DeadTokenProtectsNothing ==
  pc = "done" /\ ~tc.unauthorizedIsDenial =>
    \A id \in world.dead : tc.expect[id] = "deny" => assessment[id] # "denied"

\* No identity's request leaves before every probe of the case has passed.
ProbedBeforeSent ==
  (\E id \in Ids : exec[id].sent) => \A id \in ToProbe : probes[id] = "passed"

\* After cancellation nothing is concluded any more from a verified write.
CancelledJudgesNothing ==
  [][cancelled => \A id \in Ids : verdict'[id] # verdict[id] =>
       verdict'[id] \in {"none", "inconclusive"}]_vars

\* A run always ends, whatever the target does.
Terminates == <>(pc \in {"done", "aborted"})
=============================================================================
