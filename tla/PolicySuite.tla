----------------------------- MODULE PolicySuite -----------------------------
(***************************************************************************)
(* policy run and policy run --suite: policies that speak of roles are     *)
(* bound to identities read from files, compiled to test cases one entry   *)
(* after the other (internal/suite, internal/policy), and what the target  *)
(* answers each identity is judged (internal/engine).                      *)
(*                                                                         *)
(* The order of the requests and the verification of writes are EngineRun; *)
(* here all answers of a case come at once and a verified write comes with *)
(* its verdict, the positive control of EngineRun included.  A text is     *)
(* reduced to what compilation looks at.                                   *)
(***************************************************************************)
EXTENDS Integers, Sequences, FiniteSets

CONSTANTS
  Names,      \* identity ids
  Roles,
  Tenants,
  Endpoints,
  Labels,     \* names of denial profiles
  Files,      \* identity files
  Variables,  \* environment variables that are set
  Invocations,\* suites and single policies, with the identity files they find
  Answers,    \* what a target can answer one identity
  None

Missing == ""
Statuses == {200, 401, 403, 404, 500}

Identity ==
  [ id : Names, role : Roles, tenant : Tenants \cup {Missing}, anonymous : BOOLEAN,
    variable : STRING ]                  \* what its credential refers to, if anything

\* An assertion of a policy, or a rule of a denial profile.
Rule == [ decision : {"allow", "deny"}, roles : SUBSET Roles ]
Profile == [ confirmed : BOOLEAN, endpoints : SUBSET Endpoints, rules : SUBSET Rule ]

Decisions == {"allow", "deny", "skip"}
Policy ==
  [ endpoint : Endpoints,
    expect : [Roles -> Decisions \cup {"TODO", "none"}],  \* none: not in the map
    owner : Roles \cup {Missing},
    named : BOOLEAN,                     \* a resource type, or a bound id
    tenantField : BOOLEAN,
    forbidden : SUBSET Roles,            \* must not see sensitive fields
    verifier : Roles \cup {Missing},     \* the reader of a verified write
    setupAs : Roles \cup {Missing},      \* the role of a setup step
    resetAs : Roles \cup {Missing},      \* the role of the verifier's reset
    rules : SUBSET Rule,
    profiles : SUBSET Labels,            \* the denial profiles it refers to
    defined : [Labels -> {None} \cup Profile],
    bound : BOOLEAN,                     \* every path parameter has a value
    mutating : BOOLEAN,
    unsafe : BOOLEAN,
    denyStatus : SUBSET Statuses,
    denyWhen : BOOLEAN,
    unauthorizedIsDenial : BOOLEAN ]

Entry == [ policy : Policy, id : STRING, file : Files, tenant : Tenants \cup {Missing} ]

Invocation ==
  [ suite : BOOLEAN,                     \* or policy run with one policy
    entries : Seq(Entry),
    shared : [Labels -> {None} \cup Profile],
    allowMutating : BOOLEAN,
    target : (SUBSET Answers) \ {{}},    \* what its target may answer
    files : [Files -> Seq(Identity)],
    edited : [Files -> Seq(Identity)] ]  \* the files after an edit while it runs

\* denied: what looking the refusal up in the body can say.  More than one value
\* when two keys differ only in case, for the lookup takes the first of a map.
Answer ==
  [ error : BOOLEAN, status : Statuses, denied : (SUBSET BOOLEAN) \ {{}},
    matches : SUBSET Rule, verdict : {"allowed", "denied", "inconclusive"},
    sensitive : SUBSET {"sensitive_data_exposure", "object_property_exposure"},
    tenant : Tenants \cup {Missing} ]    \* the tenant the body names

ASSUME PolicyAssumption ==
  /\ Invocations \subseteq Invocation /\ Answers \subseteq Answer
  /\ \A v \in Invocations :
       /\ v.entries # <<>>
       /\ ~v.suite => Len(v.entries) = 1
       /\ \A label \in Labels : ~v.suite => v.shared[label] = None
  /\ Missing \notin Names \cup Roles \cup Tenants \cup Variables
  /\ None \notin Seq(Identity)          \* not yet read, and not an empty file

VARIABLES
  run,       \* the invocation
  files,     \* the identity files as they are now
  pc,        \* "compile", "run" or "ended"
  at,        \* the entry whose turn it is
  cache,     \* identity files already read
  cases,     \* the entries compiled so far
  problems,  \* the entries that could not be
  answers,   \* what the target answered the identities of the last case
  result     \* what was made of it, None when the case could not run

vars == <<run, files, pc, at, cache, cases, problems, answers, result>>

Elements(s) == { s[k] : k \in DOMAIN s }
Current == run.entries[at]

Init ==
  /\ run \in Invocations /\ files = run.files /\ pc = "compile" /\ at = 1
  /\ cache = [f \in Files |-> None] /\ cases = <<>> /\ problems = {}
  /\ answers = << >> /\ result = None

-----------------------------------------------------------------------------
(* Binding and compiling one entry. *)

\* ParseIdentities: an empty file, or a reference to a variable that is not set.
Readable(identities) ==
  /\ identities # <<>>
  /\ \A i \in Elements(identities) : i.variable \in Variables \cup {Missing}

\* A file is read once for all the entries that name it.
Read(file) == IF cache[file] # None THEN cache[file] ELSE files[file]

\* toDecision, when the policy is parsed.
Parses(p) ==
  /\ \A r \in Roles : p.expect[r] # "TODO"
  /\ \E r \in Roles : p.expect[r] # "none"

InExpect(p, role) == p.expect[role] # "none"
Named(p, i) == InExpect(p, i.role) \/ i.role = p.verifier

\* Those of a list that are in S, in its order.
Kept(all, S) ==
  LET kept[n \in 0..Len(all)] ==
        IF n = 0 THEN <<>>
        ELSE IF all[n] \in S THEN Append(kept[n - 1], all[n]) ELSE kept[n - 1]
  IN  kept[Len(all)]

\* bindRoles leaves out whom the policy does not name; policy run does not.
Members(p, all) == Kept(all, { i \in Elements(all) : Named(p, i) })
Bound(p, all) == IF run.suite THEN Members(p, all) ELSE all

\* Mutant: a role without an identity is not missed.
Staffed_Any(p, ids) == TRUE

Staffed(p, ids) ==
  run.suite =>
    \A r \in Roles : InExpect(p, r) \/ r = p.verifier => \E i \in Elements(ids) : i.role = r

Readers(p, ids) == { i \in Elements(ids) : i.role = p.verifier }

\* Those the request is replayed as.
Executed(p, ids) == Kept(ids, { i \in Elements(ids) : i.role # p.verifier })

\* compileVerify: one reader, of a role that is not under test.
Verifiable(p, ids) ==
  p.verifier # Missing =>
    /\ ~InExpect(p, p.verifier) /\ Cardinality(Readers(p, ids)) = 1
    /\ p.resetAs # Missing => \E i \in Elements(ids) : i.role = p.resetAs

\* The profile a policy means: its own, or the suite's, never both.
Meant(p, label) == IF p.defined[label] # None THEN p.defined[label] ELSE run.shared[label]

\* profileAssertions: reviewed rules that deny, for this endpoint.
Applicable(p) ==
  \A label \in p.profiles :
    LET profile == Meant(p, label)
    IN  /\ None \in {p.defined[label], run.shared[label]}
        /\ profile # None /\ profile.confirmed /\ profile.rules # {}
        /\ p.endpoint \in profile.endpoints
        /\ \A rule \in profile.rules : rule.decision = "deny"

\* Mutant: the profiles are checked and then left out.
Rules_Own(p) == p.rules

Rules(p) == p.rules \cup UNION { Meant(p, label).rules : label \in p.profiles }

\* compileAssertions.
Assertable(p) == \A rule \in Rules(p) : \A r \in rule.roles : InExpect(p, r)

RulesFor(p, role) == { rule \in Rules(p) : rule.roles = {} \/ role \in rule.roles }

\* The id of the last identity of the owner's role.
OwnerOf(p, ids) ==
  LET owners == { k \in DOMAIN ids : ids[k].role = p.owner }
  IN  IF owners = {} THEN Missing
      ELSE ids[CHOOSE k \in owners : \A j \in owners : j <= k].id

\* Policy.Compile with bindRoles before it, each with all that it refuses.
Compiles(e, all) ==
  LET p == e.policy
      ids == Bound(p, all)
      executed == Executed(p, ids)
  IN  /\ Parses(p) /\ Readable(all) /\ Staffed(p, ids)
      /\ ids # <<>> /\ p.bound /\ Verifiable(p, ids)
      /\ Applicable(p) /\ Assertable(p)
      /\ \A i \in Elements(executed) : InExpect(p, i.role)
      /\ p.setupAs # Missing => \E i \in Elements(executed) : i.role = p.setupAs

CaseId(e) == IF e.id # Missing THEN e.id ELSE e.policy.endpoint

CaseOf(e, all) ==
  LET p == e.policy
      executed == Executed(p, Bound(p, all))
  IN  [ id |-> CaseId(e),
        identities |-> executed,
        expect |-> [k \in DOMAIN executed |-> p.expect[executed[k].role]],
        forbid |-> [k \in DOMAIN executed |-> executed[k].role \in p.forbidden],
        rules |-> [k \in DOMAIN executed |-> RulesFor(p, executed[k].role)],
        owner |-> OwnerOf(p, executed),
        named |-> p.named, tenant |-> e.tenant, tenantField |-> p.tenantField,
        verified |-> p.verifier # Missing,
        mutating |-> p.mutating \/ run.allowMutating,
        unsafe |-> p.unsafe, denyStatus |-> p.denyStatus, denyWhen |-> p.denyWhen,
        unauthorizedIsDenial |-> p.unauthorizedIsDenial ]

\* Problems are collected, so that all of them are told together.
CompileEntry ==
  LET all == Read(Current.file)
      taken == \E c \in Elements(cases) : c.id = CaseId(Current)
  IN  /\ pc = "compile" /\ at <= Len(run.entries)
      /\ cache' = IF Parses(Current.policy) /\ Readable(all)
                  THEN [cache EXCEPT ![Current.file] = all] ELSE cache
      /\ IF Compiles(Current, all) /\ ~taken
         THEN cases' = Append(cases, CaseOf(Current, all)) /\ UNCHANGED problems
         ELSE problems' = problems \cup {at} /\ UNCHANGED cases
      /\ at' = at + 1
      /\ UNCHANGED <<run, files, pc, answers, result>>

\* engine.validate, for what a compiled case can still get wrong.
Validates(c) ==
  /\ c.identities # <<>>
  /\ \A j, k \in DOMAIN c.identities : c.identities[j].id = c.identities[k].id => j = k
  /\ c.unsafe => c.mutating
  /\ 200 \notin c.denyStatus

\* Nothing is sent unless every entry compiled and validates.
Ready == problems = {} /\ \A c \in Elements(cases) : Validates(c)

EndCompile ==
  /\ pc = "compile" /\ at > Len(run.entries)
  /\ pc' = IF Ready THEN "run" ELSE "ended"
  /\ at' = 1
  /\ UNCHANGED <<run, files, cache, cases, problems, answers, result>>

\* The author saves an identity file.
Edit ==
  /\ files # run.edited /\ files' = run.edited
  /\ UNCHANGED <<run, pc, at, cache, cases, problems, answers, result>>

-----------------------------------------------------------------------------
(* Judging the answers to one case. *)

\* classify: a declared refusal in the body outranks the status.
Outcomes(c, a) ==
  { IF a.error THEN "error"
    ELSE IF (denied /\ c.denyWhen) \/ a.status \in c.denyStatus \cup {401, 403} THEN "deny"
    ELSE IF a.status = 200 THEN "allow" ELSE "ambiguous" : denied \in a.denied }

\* assess, or the verdict of a verified write.
Conclusion(c, k, a, outcome) ==
  LET matched == { rule.decision : rule \in c.rules[k] \cap a.matches }
  IN  IF c.verified THEN a.verdict
      ELSE IF a.error THEN "inconclusive"
      ELSE IF c.rules[k] = {}
      THEN IF outcome = "allow" THEN "allowed" ELSE IF outcome = "deny" THEN "denied"
           ELSE "inconclusive"
      ELSE IF matched = {"allow"} THEN "allowed" ELSE IF matched = {"deny"} THEN "denied"
      ELSE "inconclusive"

\* demoteRejectedCredential: a 401 to a credential that was sent proves nothing.
Demoted(c, k, a, conclusion) ==
  IF /\ c.expect[k] = "deny" /\ conclusion = "denied"
     /\ ~a.error /\ a.status = 401 /\ ~c.identities[k].anonymous /\ ~c.unauthorizedIsDenial
  THEN "inconclusive" ELSE conclusion

Assessed(c, k, a, outcome) ==
  IF c.expect[k] = "skip" THEN "skipped" ELSE Demoted(c, k, a, Conclusion(c, k, a, outcome))

\* resourceTenant: what the entry says, or what the response itself says.
TenantOf(c, a) == IF c.tenant # Missing THEN c.tenant ELSE IF c.tenantField THEN a.tenant ELSE Missing

\* Mutant: every named object is somebody's.
UnexpectedCategory_Unowned(c, i, a) ==
  IF i.anonymous THEN "missing_authentication"
  ELSE IF TenantOf(c, a) # Missing /\ i.tenant # Missing /\ i.tenant # TenantOf(c, a)
  THEN "cross_tenant_access"
  ELSE IF i.id # c.owner /\ c.named THEN "potential_bola" ELSE "unexpected_access"

\* classifyUnexpectedAccess.  A compiled case has no required role.
UnexpectedCategory(c, i, a) ==
  IF i.anonymous THEN "missing_authentication"
  ELSE IF TenantOf(c, a) # Missing /\ i.tenant # Missing /\ i.tenant # TenantOf(c, a)
  THEN "cross_tenant_access"
  ELSE IF c.owner # Missing /\ i.id # c.owner /\ c.named THEN "potential_bola"
  ELSE "unexpected_access"

\* What the identity was found to get: from the assessment where assertions or a
\* verification decide, from the outcome of a second classification otherwise.
Got(c, k, assessment, outcome) ==
  IF c.verified \/ c.rules[k] # {} THEN assessment
  ELSE IF outcome = "allow" THEN "allowed" ELSE IF outcome = "deny" THEN "denied" ELSE "neither"

\* evaluate, assessmentFinding and sensitiveDataFindings.
FindingsOf(c, k, a, assessment, outcome) ==
  LET got == Got(c, k, assessment, outcome)
      access == IF c.expect[k] = "deny" /\ got = "allowed"
                THEN {UnexpectedCategory(c, c.identities[k], a)}
                ELSE IF c.expect[k] = "allow" /\ got = "denied" THEN {"authorization_mismatch"}
                ELSE {}
  IN  IF c.expect[k] = "skip" THEN {}
      ELSE access \cup IF c.forbid[k] /\ ~a.error THEN a.sensitive ELSE {}

\* The refusal is looked up once for the record and once more for the findings.
Judge(c, given, recorded, judged) ==
  [ outcome |-> recorded,
    assessment |-> [k \in DOMAIN given |-> Assessed(c, k, given[k], recorded[k])],
    findings |-> [k \in DOMAIN given |->
                    FindingsOf(c, k, given[k], Assessed(c, k, given[k], recorded[k]), judged[k])] ]

RunEntry ==
  LET c == cases[at]
      who == DOMAIN c.identities
  IN  /\ pc = "run" /\ at <= Len(cases)
      /\ \E given \in [who -> run.target] :
         \E recorded, judged \in { o \in [who -> {"error", "deny", "allow", "ambiguous"}] :
                                     \A k \in who : o[k] \in Outcomes(c, given[k]) } :
           answers' = given /\ result' = Judge(c, given, recorded, judged)
      /\ at' = at + 1
      /\ UNCHANGED <<run, files, pc, cache, cases, problems>>

\* A setup or preflight that fails leaves nothing to judge; a suite goes on.
FailEntry ==
  /\ pc = "run" /\ at <= Len(cases)
  /\ answers' = << >> /\ result' = None
  /\ at' = at + 1 /\ pc' = IF run.suite THEN pc ELSE "ended"
  /\ UNCHANGED <<run, files, cache, cases, problems>>

Finish ==
  /\ pc = "run" /\ at > Len(cases) /\ pc' = "ended"
  /\ UNCHANGED <<run, files, at, cache, cases, problems, answers, result>>

Next == CompileEntry \/ EndCompile \/ Edit \/ RunEntry \/ FailEntry \/ Finish

Spec == Init /\ [][Next]_vars

-----------------------------------------------------------------------------
(* Properties. *)

\* A suite that starts tests every control it lists: no entry is left out, every
\* role of every policy is tried by somebody and held to what the policy says of
\* that role, the reader of a write never performs it, and entries that share an
\* identity file mean the same people by it, also when the file is edited while
\* they are compiled (bindRoles, Suite.Compile).
ControlsTested ==
  pc = "run" =>
    /\ Len(cases) = Len(run.entries)
    /\ \A n \in DOMAIN cases :
         LET p == run.entries[n].policy
             c == cases[n]
         IN  /\ \A k \in DOMAIN c.identities :
                  LET role == c.identities[k].role
                  IN  role # p.verifier /\ p.expect[role] # "none" /\ c.expect[k] = p.expect[role]
             /\ run.suite => \A r \in Roles : p.expect[r] # "none" =>
                  \E i \in Elements(c.identities) : i.role = r
             /\ \A m \in DOMAIN cases :
                  /\ c.id = cases[m].id => m = n
                  /\ run.entries[m].file = run.entries[n].file =>
                       \A i \in Elements(cases[m].identities) :
                         p.expect[i.role] # "none" => i \in Elements(c.identities)

\* What the policy says an answer is: given or refused by what it asserts for the
\* role if it asserts anything, by the verification of a write, or else by the
\* refusals it declares and the status.
Asserted(p, role) ==
  { rule \in p.rules \cup UNION { Meant(p, label).rules : label \in p.profiles } :
      rule.roles = {} \/ role \in rule.roles }

Seen(p, role, a) ==
  IF p.verifier # Missing THEN a.verdict
  ELSE IF a.error THEN "unclear"
  ELSE IF Asserted(p, role) # {}
  THEN LET said == { rule.decision : rule \in Asserted(p, role) \cap a.matches }
       IN  IF said = {"allow"} THEN "allowed" ELSE IF said = {"deny"} THEN "denied" ELSE "unclear"
  ELSE IF (p.denyWhen /\ a.denied = {TRUE}) \/ a.status \in p.denyStatus \cup {401, 403} THEN "denied"
  ELSE IF a.status = 200 THEN "allowed" ELSE "unclear"

\* An answer to a role is a finding if it contradicts the policy, or left open.
Caught(p, role, a, assessment, found) ==
  LET seen == Seen(p, role, a)
      open == assessment = "inconclusive"
  IN  /\ seen = "allowed" =>
           open \/ (p.expect[role] = "deny"
                    <=> found \ a.sensitive \notin {{}, {"authorization_mismatch"}})
      /\ seen = "denied" => open \/ (p.expect[role] = "allow" <=> "authorization_mismatch" \in found)
      /\ seen \notin {"allowed", "denied"} => open
      /\ role \in p.forbidden /\ ~a.error => a.sensitive \subseteq found

\* Nothing a policy forbids passes in silence: an identity that was given what its
\* role is denied, refused what it is allowed, or shown a field it must not see
\* is a finding, and one that nothing can be said of is listed as inconclusive
\* -- through binding, compilation, profiles and two ways of judging (Run).
NothingPasses ==
  result # None =>
    LET p == run.entries[at - 1].policy
        c == cases[at - 1]
    IN  \A k \in DOMAIN c.identities :
          LET role == c.identities[k].role
          IN  p.expect[role] # "skip" =>
                Caught(p, role, answers[k], result.assessment[k], result.findings[k])

\* relevantRegressionFinding of cmd/vardrgate, for a case as it was compiled.
Relevant(c, k, category) ==
  LET deny == c.expect[k] = "deny"
  IN  CASE category = "authorization_mismatch" -> c.expect[k] = "allow"
        [] category = "unexpected_access" -> deny
        [] category = "missing_authentication" -> deny /\ c.identities[k].anonymous
        [] category = "potential_bola" -> deny /\ c.owner \notin {Missing, c.identities[k].id}
        [] category = "cross_tenant_access" -> deny /\ (c.tenant # Missing \/ c.tenantField)
        [] OTHER -> c.forbid[k]

\* Whatever a policy run finds can be saved as a regression: the engine gives no
\* finding a category that the save, which decides from the case again, refuses
\* as irrelevant (classifyUnexpectedAccess, relevantRegressionFinding).
FindingsSavable ==
  result # None =>
    \A k \in DOMAIN answers : \A category \in result.findings[k] :
      Relevant(cases[at - 1], k, category)

\* "the execution record and the findings drawn from it cannot disagree inside a
\* single result document" (engine.go:186): where the status decides, access that
\* is reported was recorded as allowed, and a refusal as denied.
RecordedAsFound ==
  result # None =>
    LET c == cases[at - 1]
    IN  \A k \in DOMAIN answers :
          ~c.verified /\ c.rules[k] = {} =>
            \A f \in result.findings[k] \ answers[k].sensitive :
              result.outcome[k] = (IF f = "authorization_mismatch" THEN "deny" ELSE "allow")
=============================================================================
