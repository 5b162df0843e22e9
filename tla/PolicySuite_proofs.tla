-------------------------- MODULE PolicySuite_proofs --------------------------
(***************************************************************************)
(* What a policy run promises for every set of roles, identities, policies *)
(* and answers.                                                            *)
(*                                                                         *)
(* A result is judged from a compiled case, and the promises are about the *)
(* policy: CaseInv keeps every case the compilation of the entry in its    *)
(* place, from the identities somebody read, and ResultInv keeps the last  *)
(* result the judgement of the last case.  CompiledInv adds, for the       *)
(* promises about who is tested, that what was read is still in the cache. *)
(***************************************************************************)
EXTENDS PolicySuite, CountingLemmas

Lists == Seq(Identity)

Cases == { CaseOf(run.entries[n], all) : n \in DOMAIN run.entries, all \in Lists }

TypeInv ==
  /\ run \in Invocations /\ at \in Nat \ {0}
  /\ files \in [Files -> Lists] /\ cache \in [Files -> Lists \cup {None}]
  /\ cases \in Seq(Cases)

CaseInv ==
  /\ pc \in {"compile", "run", "ended"}
  /\ pc = "compile" => result = None /\ at <= Len(run.entries) + 1
  /\ pc = "compile" /\ problems = {} => Len(cases) = at - 1
  /\ pc = "run" => problems = {} /\ Len(cases) = Len(run.entries)
  /\ problems = {} =>
       \A n \in DOMAIN cases : n \in DOMAIN run.entries /\ \E all \in Lists : cases[n] = CaseOf(run.entries[n], all)

JudgedFrom(c, given) ==
  \E recorded, judged \in { o \in [DOMAIN c.identities -> {"error", "deny", "allow", "ambiguous"}] :
                              \A k \in DOMAIN c.identities : o[k] \in Outcomes(c, given[k]) } :
    result = Judge(c, given, recorded, judged)

ResultInv ==
  result # None =>
    /\ pc # "compile" /\ problems = {} /\ at - 1 \in DOMAIN cases
    /\ answers \in [DOMAIN cases[at - 1].identities -> Answers]
    /\ JudgedFrom(cases[at - 1], answers)

-----------------------------------------------------------------------------
LEMMA RunType ==
  ASSUME TypeInv
  PROVE  /\ run \in Invocation /\ run.entries \in Seq(Entry) /\ run.entries # <<>>
         /\ run.target \subseteq Answers /\ run.edited \in [Files -> Lists]
BY PolicyAssumption DEF TypeInv, Invocation, Lists

LEMMA EntryType ==
  ASSUME TypeInv, at <= Len(run.entries)
  PROVE  at \in DOMAIN run.entries /\ Current \in Entry /\ Read(Current.file) \in Lists
<1>1. at \in DOMAIN run.entries /\ Current \in Entry
  BY RunType DEF TypeInv, Current
<1>2. Current.file \in Files
  BY <1>1 DEF Entry
<1>3. QED
  BY <1>1, <1>2 DEF TypeInv, Read

\* What an entry compiles to is decided by the invocation and what was read.
LEMMA SameCase ==
  ASSUME run' = run, NEW e, NEW all
  PROVE  CaseOf(e, all)' = CaseOf(e, all)
<1>1. \A p : Rules(p)' = Rules(p)
  BY DEF Rules, Meant
<1>2. \A p, role : RulesFor(p, role)' = RulesFor(p, role)
  BY <1>1 DEF RulesFor
<1>3. \A p : Bound(p, all)' = Bound(p, all)
  BY DEF Bound
<1>4. QED
  BY <1>2, <1>3 DEF CaseOf

LEMMA SameCases == ASSUME run' = run PROVE Cases' = Cases
BY SameCase DEF Cases

LEMMA TypeStep == TypeInv /\ CaseInv /\ [Next]_vars => TypeInv'
<1> SUFFICES ASSUME TypeInv, CaseInv, [Next]_vars PROVE TypeInv'
  OBVIOUS
<1>1. CASE CompileEntry
  <2>1. /\ UNCHANGED <<run, files>> /\ at' = at + 1
        /\ at \in DOMAIN run.entries /\ Read(Current.file) \in Lists /\ Current.file \in Files
    BY <1>1, EntryType DEF CompileEntry, Entry
  <2>2. cache' \in [Files -> Lists \cup {None}]
    BY <1>1, <2>1 DEF CompileEntry, TypeInv
  <2>3. cases' \in Seq(Cases)
    <3>1. CaseOf(Current, Read(Current.file)) \in Cases
      BY <2>1 DEF Current, Cases
    <3>2. cases' = cases \/ cases' = Append(cases, CaseOf(Current, Read(Current.file)))
      BY <1>1 DEF CompileEntry
    <3>3. QED
      BY <3>1, <3>2 DEF TypeInv
  <2>4. QED
    BY <2>1, <2>2, <2>3, SameCases DEF TypeInv
<1>2. CASE Edit
  BY <1>2, RunType, SameCases DEF Edit, TypeInv
<1>3. CASE EndCompile \/ RunEntry \/ FailEntry \/ Finish
  BY <1>3, SameCases DEF EndCompile, RunEntry, FailEntry, Finish, TypeInv
<1>4. CASE UNCHANGED vars
  BY <1>4, SameCases DEF vars, TypeInv
<1>5. QED
  BY <1>1, <1>2, <1>3, <1>4 DEF Next
-----------------------------------------------------------------------------
\* Cases stay at the place of their entries.
LEMMA CaseStep == TypeInv /\ CaseInv /\ [Next]_vars => CaseInv'
<1> SUFFICES ASSUME TypeInv, CaseInv, [Next]_vars PROVE CaseInv'
  OBVIOUS
<1>1. Len(run.entries) \in Nat /\ DOMAIN run.entries = 1..Len(run.entries)
  BY RunType
<1>2. cases \in Seq(Cases) /\ Len(cases) \in Nat /\ DOMAIN cases = 1..Len(cases) /\ at \in Nat
  BY DEF TypeInv
<1>3. CASE CompileEntry
  <2>1. /\ UNCHANGED <<run, pc, result>> /\ pc = "compile" /\ at <= Len(run.entries) /\ at' = at + 1
        /\ at \in DOMAIN run.entries /\ Read(Current.file) \in Lists
    BY <1>3, EntryType DEF CompileEntry
  <2>2. CASE problems' = problems \cup {at} /\ UNCHANGED cases
    BY <2>1, <2>2, <1>1, <1>2 DEF CaseInv
  <2>3. CASE UNCHANGED problems /\ cases' = Append(cases, CaseOf(Current, Read(Current.file)))
    <3>1. /\ Len(cases') = Len(cases) + 1 /\ DOMAIN cases' = 1..(Len(cases) + 1)
          /\ \A n \in 1..Len(cases) : cases'[n] = cases[n]
          /\ cases'[Len(cases) + 1] = CaseOf(Current, Read(Current.file))
      BY <1>2, <2>3
    <3>2. ASSUME problems' = {}, NEW n \in DOMAIN cases'
          PROVE  n \in DOMAIN run.entries /\ \E all \in Lists : cases'[n] = CaseOf(run.entries[n], all)
      <4>1. Len(cases) = at - 1
        BY <3>2, <2>1, <2>3 DEF CaseInv
      <4>2. CASE n = at
        BY <4>1, <4>2, <3>1, <2>1, <1>2 DEF Current
      <4>3. CASE n # at
        <5>1. n \in DOMAIN cases
          BY <4>1, <4>3, <3>1, <1>2
        <5>2. QED
          BY <5>1, <3>1, <3>2, <2>3, <1>2 DEF CaseInv
      <4>4. QED
        BY <4>2, <4>3
    <3>3. problems' = {} => Len(cases') = at' - 1
      BY <2>1, <2>3, <3>1, <1>2 DEF CaseInv
    <3>4. QED
      BY <2>1, <3>2, <3>3, <1>1, <1>2, SameCase DEF CaseInv
  <2>4. QED
    BY <1>3, <2>2, <2>3 DEF CompileEntry
<1>4. CASE EndCompile
  <2>1. UNCHANGED <<run, cases, problems, result>> /\ pc = "compile" /\ at > Len(run.entries)
    BY <1>4 DEF EndCompile
  <2>2. (pc' = "run" /\ problems = {}) \/ pc' = "ended"
    BY <1>4 DEF EndCompile, Ready
  <2>3. problems = {} => Len(cases) = Len(run.entries)
    BY <2>1, <1>1, <1>2 DEF CaseInv
  <2>4. QED
    BY <2>1, <2>2, <2>3, SameCase DEF CaseInv
<1>5. CASE Edit
  BY <1>5, SameCase DEF Edit, CaseInv
<1>6. CASE RunEntry \/ FailEntry \/ Finish
  <2>1. UNCHANGED <<run, cases, problems>> /\ pc = "run" /\ pc' \in {"run", "ended"}
    BY <1>6 DEF RunEntry, FailEntry, Finish
  <2>2. QED
    BY <2>1, SameCase DEF CaseInv
<1>7. CASE UNCHANGED vars
  BY <1>7, SameCase DEF vars, CaseInv
<1>8. QED
  BY <1>3, <1>4, <1>5, <1>6, <1>7 DEF Next

LEMMA ResultStep == TypeInv /\ CaseInv /\ ResultInv /\ [Next]_vars => ResultInv'
<1> SUFFICES ASSUME TypeInv, CaseInv, ResultInv, [Next]_vars PROVE ResultInv'
  OBVIOUS
<1>1. CASE UNCHANGED <<run, at, cases, problems, answers, result>> /\ (pc = "compile" \/ pc' # "compile")
  BY <1>1 DEF ResultInv, CaseInv, JudgedFrom, Judge
<1>2. CASE CompileEntry
  BY <1>2 DEF CompileEntry, CaseInv, ResultInv
<1>3. CASE EndCompile
  BY <1>3 DEF EndCompile, CaseInv, ResultInv
<1>4. CASE RunEntry
  <2>1. PICK c : c = cases[at]
    OBVIOUS
  <2>2. at' - 1 = at /\ at \in DOMAIN cases /\ UNCHANGED <<run, cases, problems, pc>> /\ pc = "run"
        /\ problems = {}
    BY <1>4 DEF RunEntry, TypeInv, CaseInv
  <2>3. PICK given \in [DOMAIN c.identities -> run.target] : answers' = given /\ JudgedFrom(c, given)'
    BY <1>4, <2>1 DEF RunEntry, JudgedFrom
  <2>4. answers' \in [DOMAIN c.identities -> Answers]
    BY <2>3, RunType
  <2>5. cases'[at' - 1] = c
    BY <2>1, <2>2
  <2>6. JudgedFrom(cases[at - 1], answers)'
    BY <2>3, <2>5 DEF JudgedFrom
  <2>7. QED
    BY <2>1, <2>2, <2>4, <2>5, <2>6 DEF ResultInv
<1>5. CASE FailEntry
  BY <1>5 DEF FailEntry, ResultInv
<1>6. CASE Edit \/ Finish \/ UNCHANGED vars
  BY <1>1, <1>6 DEF Edit, Finish, vars
<1>7. QED
  BY <1>2, <1>3, <1>4, <1>5, <1>6 DEF Next

LEMMA RunInv == Spec => [](TypeInv /\ CaseInv /\ ResultInv)
<1>1. Init => TypeInv /\ CaseInv /\ ResultInv
  <2> SUFFICES ASSUME Init PROVE TypeInv /\ CaseInv /\ ResultInv
    OBVIOUS
  <2>1. run \in Invocation /\ run.entries \in Seq(Entry) /\ run.entries # <<>> /\ files \in [Files -> Lists]
    BY PolicyAssumption DEF Init, Invocation, Lists
  <2>2. TypeInv
    BY <2>1 DEF Init, TypeInv
  <2>3. CaseInv
    BY <2>1 DEF Init, CaseInv
  <2>4. QED
    BY <2>2, <2>3 DEF Init, ResultInv
<1>2. QED
  BY <1>1, TypeStep, CaseStep, ResultStep, PTL DEF Spec
-----------------------------------------------------------------------------
\* Every category has its reason in the case it was found in.
LEMMA FoundIsRelevant ==
  ASSUME NEW c, NEW k, NEW a \in Answers, NEW assessment, NEW outcome,
         NEW category \in FindingsOf(c, k, a, assessment, outcome)
  PROVE  Relevant(c, k, category)
<1>1. a.sensitive \subseteq {"sensitive_data_exposure", "object_property_exposure"}
  BY PolicyAssumption DEF Answer
<1>2. CASE category \in a.sensitive /\ c.forbid[k]
  BY <1>1, <1>2 DEF Relevant
<1>3. CASE category = "authorization_mismatch" /\ c.expect[k] = "allow"
  BY <1>3 DEF Relevant
<1>4. CASE category = UnexpectedCategory(c, c.identities[k], a) /\ c.expect[k] = "deny"
  BY <1>4 DEF Relevant, UnexpectedCategory, TenantOf
<1>5. QED
  BY <1>2, <1>3, <1>4 DEF FindingsOf

\* Whatever a policy run finds can be saved as a regression
\* (classifyUnexpectedAccess, relevantRegressionFinding).
THEOREM WhatIsFoundCanBeSaved == Spec => []FindingsSavable
<1>1. TypeInv /\ CaseInv /\ ResultInv => FindingsSavable
  <2> SUFFICES ASSUME TypeInv, ResultInv, result # None,
                      NEW k \in DOMAIN answers, NEW category \in result.findings[k]
               PROVE  Relevant(cases[at - 1], k, category)
    BY DEF FindingsSavable
  <2> DEFINE c == cases[at - 1]
  <2>1. answers \in [DOMAIN c.identities -> Answers] /\ JudgedFrom(c, answers)
    BY DEF ResultInv
  <2>2. PICK recorded, judged : result = Judge(c, answers, recorded, judged)
    BY <2>1 DEF JudgedFrom
  <2>3. result.findings[k] =
          FindingsOf(c, k, answers[k], Assessed(c, k, answers[k], recorded[k]), judged[k])
    BY <2>1, <2>2 DEF Judge
  <2> HIDE DEF c
  <2>4. Relevant(c, k, category)
    BY <2>1, <2>3, FoundIsRelevant
  <2>5. QED
    BY <2>4 DEF c
<1>2. QED
  BY <1>1, RunInv, PTL
-----------------------------------------------------------------------------
\* A case says of its k-th identity what the policy says of its role.
Says(c, k, p, role) ==
  /\ c.expect[k] = p.expect[role] /\ (c.forbid[k] <=> role \in p.forbidden)
  /\ c.rules[k] = Asserted(p, role) /\ (c.verified <=> p.verifier # Missing)
  /\ c.denyStatus = p.denyStatus /\ c.denyWhen = p.denyWhen

LEMMA CaseFacts ==
  ASSUME NEW e, NEW all, NEW p, p = e.policy, NEW c, c = CaseOf(e, all), NEW k \in DOMAIN c.identities,
         NEW role, role = c.identities[k].role
  PROVE  Says(c, k, p, role)
<1> DEFINE executed == Executed(p, Bound(p, all))
<1>1. c.identities = executed
  BY DEF CaseOf
<1>2. RulesFor(p, role) = Asserted(p, role)
  BY DEF RulesFor, Rules, Asserted
<1>3. /\ c.expect[k] = p.expect[role] /\ c.rules[k] = RulesFor(p, role)
      /\ (c.forbid[k] <=> role \in p.forbidden)
  BY <1>1 DEF CaseOf
<1>4. (c.verified <=> p.verifier # Missing) /\ c.denyStatus = p.denyStatus /\ c.denyWhen = p.denyWhen
  BY DEF CaseOf
<1>5. QED
  BY <1>2, <1>3, <1>4 DEF Says

\* A body says one thing: no two of its keys differ only in case.
Unambiguous == \A a \in Answers : a.denied \in {{TRUE}, {FALSE}}

\* What looking a refusal up in an unambiguous body comes to.
Only(c, a) ==
  IF a.error THEN "error"
  ELSE IF (c.denyWhen /\ a.denied = {TRUE}) \/ a.status \in c.denyStatus \cup {401, 403} THEN "deny"
  ELSE IF a.status = 200 THEN "allow" ELSE "ambiguous"

LEMMA OneOutcome ==
  ASSUME Unambiguous, NEW a \in Answers, NEW c
  PROVE  Outcomes(c, a) = {Only(c, a)}
<1> DEFINE looked(denied) ==
             IF a.error THEN "error"
             ELSE IF (denied /\ c.denyWhen) \/ a.status \in c.denyStatus \cup {401, 403} THEN "deny"
             ELSE IF a.status = 200 THEN "allow" ELSE "ambiguous"
<1>1. Outcomes(c, a) = { looked(denied) : denied \in a.denied }
  BY DEF Outcomes
<1>2. CASE a.denied = {TRUE}
  <2>1. Outcomes(c, a) = {looked(TRUE)}
    BY <1>1, <1>2
  <2>2. looked(TRUE) = Only(c, a)
    BY <1>2 DEF Only
  <2> HIDE DEF looked
  <2>3. QED
    BY <2>1, <2>2
<1>3. CASE a.denied = {FALSE}
  <2>1. Outcomes(c, a) = {looked(FALSE)}
    BY <1>1, <1>3
  <2>2. {FALSE} # {TRUE}
    <3>1. TRUE \notin {FALSE}
      OBVIOUS
    <3>2. QED
      BY <3>1
  <2>3. looked(FALSE) = Only(c, a)
    BY <1>3, <2>2, ZenonT(60) DEF Only
  <2> HIDE DEF looked
  <2>4. QED
    BY <2>1, <2>3
<1>4. QED
  BY <1>2, <1>3 DEF Unambiguous

LEMMA PlainlySeen ==
  ASSUME NEW p, NEW role, NEW c, NEW a, Asserted(p, role) = {}, p.verifier = Missing,
         c.denyStatus = p.denyStatus, c.denyWhen = p.denyWhen
  PROVE  Seen(p, role, a) = IF Only(c, a) = "deny" THEN "denied"
                            ELSE IF Only(c, a) = "allow" THEN "allowed" ELSE "unclear"
<1> DEFINE refused == (p.denyWhen /\ a.denied = {TRUE}) \/ a.status \in p.denyStatus \cup {401, 403}
<1>1. Only(c, a) = IF a.error THEN "error" ELSE IF refused THEN "deny"
                   ELSE IF a.status = 200 THEN "allow" ELSE "ambiguous"
  BY DEF Only
<1>2. Seen(p, role, a) = IF a.error THEN "unclear" ELSE IF refused THEN "denied"
                         ELSE IF a.status = 200 THEN "allowed" ELSE "unclear"
  BY DEF Seen
<1> HIDE DEF refused
<1>3. QED
  BY <1>1, <1>2

\* Both ways of judging one answer see what the policy says it is.
LEMMA RecordIsSeen ==
  ASSUME Unambiguous, NEW p, NEW role, NEW c, NEW k, NEW a \in Answers, NEW outcome \in Outcomes(c, a),
         c.rules[k] = Asserted(p, role), c.verified <=> p.verifier # Missing,
         c.denyStatus = p.denyStatus, c.denyWhen = p.denyWhen
  PROVE  Conclusion(c, k, a, outcome) =
           IF Seen(p, role, a) \in {"allowed", "denied"} THEN Seen(p, role, a) ELSE "inconclusive"
<1>1. a.verdict \in {"allowed", "denied", "inconclusive"} /\ outcome = Only(c, a)
  BY PolicyAssumption, OneOutcome DEF Answer
<1>2. CASE c.verified
  <2>1. Conclusion(c, k, a, outcome) = a.verdict
    BY <1>2 DEF Conclusion
  <2>2. Seen(p, role, a) = a.verdict
    BY <1>2 DEF Seen
  <2>3. QED
    BY <1>1, <2>1, <2>2
<1>3. CASE ~c.verified /\ c.rules[k] # {}
  BY <1>3, SMTT(60) DEF Seen, Conclusion
<1>4. CASE ~c.verified /\ c.rules[k] = {}
  <2>1. Seen(p, role, a) = IF Only(c, a) = "deny" THEN "denied"
                           ELSE IF Only(c, a) = "allow" THEN "allowed" ELSE "unclear"
    BY <1>4, PlainlySeen
  <2>2. a.error => Only(c, a) = "error"
    BY DEF Only
  <2>3. QED
    BY <1>1, <1>4, <2>1, <2>2 DEF Conclusion
<1>5. QED
  BY <1>2, <1>3, <1>4

LEMMA FindingIsSeen ==
  ASSUME Unambiguous, NEW p, NEW role, NEW c, NEW k, NEW a \in Answers, NEW outcome \in Outcomes(c, a),
         Asserted(p, role) = {}, ~c.verified, p.verifier = Missing, c.rules[k] = {},
         c.denyStatus = p.denyStatus, c.denyWhen = p.denyWhen,
         Seen(p, role, a) \in {"allowed", "denied"}, NEW assessment
  PROVE  Got(c, k, assessment, outcome) = Seen(p, role, a)
<1>1. outcome = Only(c, a)
  BY OneOutcome
<1>2. QED
  BY <1>1, PlainlySeen DEF Got

LEMMA OneIsCaught ==
  ASSUME Unambiguous, NEW p, NEW role, NEW c, NEW k, NEW a \in Answers,
         c.rules[k] = Asserted(p, role), c.verified <=> p.verifier # Missing,
         c.denyStatus = p.denyStatus, c.denyWhen = p.denyWhen,
         c.expect[k] = p.expect[role], c.forbid[k] <=> role \in p.forbidden, p.expect[role] # "skip",
         NEW recorded \in Outcomes(c, a), NEW judged \in Outcomes(c, a),
         NEW assessment, assessment = Assessed(c, k, a, recorded),
         NEW found, found = FindingsOf(c, k, a, assessment, judged)
  PROVE  Caught(p, role, a, assessment, found)
<1> DEFINE seen == Seen(p, role, a)
           got == Got(c, k, assessment, judged)
           conclusion == Conclusion(c, k, a, recorded)
           category == UnexpectedCategory(c, c.identities[k], a)
<1>1. conclusion = IF seen \in {"allowed", "denied"} THEN seen ELSE "inconclusive"
  BY RecordIsSeen
<1>2. assessment \in {conclusion, "inconclusive"}
  BY DEF Assessed, Demoted
<1>3. assessment # "inconclusive" => seen \in {"allowed", "denied"} /\ assessment = seen
  BY <1>1, <1>2, ZenonT(60)
<1>4. assessment # "inconclusive" => got = seen
  <2>1. CASE c.verified \/ c.rules[k] # {}
    BY <1>3, <2>1 DEF Got
  <2>2. CASE ~c.verified /\ c.rules[k] = {}
    <3>1. seen \in {"allowed", "denied"} => got = seen
      BY <2>2, FindingIsSeen, ZenonT(60)
    <3>2. QED
      BY <1>3, <3>1
  <2>3. QED
    BY <2>1, <2>2
<1>5. /\ a.sensitive \subseteq {"sensitive_data_exposure", "object_property_exposure"}
      /\ category \in {"missing_authentication", "cross_tenant_access", "potential_bola", "unexpected_access"}
  BY PolicyAssumption DEF Answer, UnexpectedCategory
<1> DEFINE access == IF c.expect[k] = "deny" /\ got = "allowed" THEN {category}
                     ELSE IF c.expect[k] = "allow" /\ got = "denied" THEN {"authorization_mismatch"} ELSE {}
<1>6. found = access \cup IF c.forbid[k] /\ ~a.error THEN a.sensitive ELSE {}
  BY DEF FindingsOf
<1> HIDE DEF seen, got, conclusion, category
<1>7. assessment # "inconclusive" /\ seen = "allowed" =>
        (p.expect[role] = "deny" <=> found \ a.sensitive \notin {{}, {"authorization_mismatch"}})
  <2> SUFFICES ASSUME assessment # "inconclusive", seen = "allowed"
               PROVE  p.expect[role] = "deny" <=> found \ a.sensitive \notin {{}, {"authorization_mismatch"}}
    OBVIOUS
  <2>1. CASE p.expect[role] = "deny"
    <3>1. access = {category}
      BY <1>4, <2>1
    <3>2. category \in found \ a.sensitive
      BY <1>5, <1>6, <3>1
    <3>3. category # "authorization_mismatch"
      BY <1>5
    <3>4. QED
      BY <2>1, <3>2, <3>3
  <2>2. CASE p.expect[role] # "deny"
    <3>1. access = {}
      BY <1>4, <2>2
    <3>2. found \ a.sensitive = {}
      BY <1>6, <3>1
    <3>3. QED
      BY <2>2, <3>2
  <2>3. QED
    BY <2>1, <2>2
<1>8. assessment # "inconclusive" /\ seen = "denied" =>
        (p.expect[role] = "allow" <=> "authorization_mismatch" \in found)
  BY <1>4, <1>5, <1>6
<1>9. role \in p.forbidden /\ ~a.error => a.sensitive \subseteq found
  BY <1>6
<1>10. seen \notin {"allowed", "denied"} => assessment = "inconclusive"
  BY <1>3
<1>11. QED
  BY <1>7, <1>8, <1>9, <1>10 DEF Caught, seen

\* Nothing a policy forbids passes in silence, if bodies are unambiguous (Run).
THEOREM NothingForbiddenPasses ==
  ASSUME Unambiguous
  PROVE  Spec => []NothingPasses
<1>1. TypeInv /\ CaseInv /\ ResultInv => NothingPasses
  <2> SUFFICES ASSUME TypeInv, CaseInv, ResultInv, result # None,
                      NEW k \in DOMAIN cases[at - 1].identities,
                      run.entries[at - 1].policy.expect[cases[at - 1].identities[k].role] # "skip"
               PROVE  Caught(run.entries[at - 1].policy, cases[at - 1].identities[k].role,
                             answers[k], result.assessment[k], result.findings[k])
    BY DEF NothingPasses
  <2>1. PICK c : c = cases[at - 1]
    OBVIOUS
  <2>2. answers \in [DOMAIN c.identities -> Answers] /\ JudgedFrom(c, answers)
    BY <2>1 DEF ResultInv
  <2>3. PICK all \in Lists : c = CaseOf(run.entries[at - 1], all)
    BY <2>1 DEF ResultInv, CaseInv
  <2>4. PICK recorded, judged :
          /\ \A j \in DOMAIN c.identities :
               recorded[j] \in Outcomes(c, answers[j]) /\ judged[j] \in Outcomes(c, answers[j])
          /\ result = Judge(c, answers, recorded, judged)
    BY <2>2 DEF JudgedFrom
  <2>5. /\ k \in DOMAIN c.identities /\ answers[k] \in Answers /\ k \in DOMAIN answers
        /\ result.assessment[k] = Assessed(c, k, answers[k], recorded[k])
        /\ result.findings[k] = FindingsOf(c, k, answers[k], result.assessment[k], judged[k])
    BY <2>1, <2>2, <2>4 DEF Judge
  <2>6. PICK p, role : p = run.entries[at - 1].policy /\ role = c.identities[k].role
    OBVIOUS
  <2>7. Says(c, k, p, role)
    <3>1. PICK e : e = run.entries[at - 1]
      OBVIOUS
    <3>2. p = e.policy /\ c = CaseOf(e, all)
      BY <2>3, <2>6, <3>1
    <3>3. QED
      BY <3>2, <2>5, <2>6, CaseFacts
  <2>8. PICK a, first, second, assessment, found :
          /\ a = answers[k] /\ first = recorded[k] /\ second = judged[k]
          /\ assessment = result.assessment[k] /\ found = result.findings[k]
    OBVIOUS
  <2>9. /\ a \in Answers /\ first \in Outcomes(c, a) /\ second \in Outcomes(c, a)
        /\ assessment = Assessed(c, k, a, first) /\ found = FindingsOf(c, k, a, assessment, second)
        /\ p.expect[role] # "skip"
    BY <2>1, <2>4, <2>5, <2>6, <2>8
  <2>10. Caught(p, role, a, assessment, found)
    BY <2>7, <2>9, OneIsCaught DEF Says
  <2>11. QED
    BY <2>1, <2>6, <2>8, <2>10
<1>2. QED
  BY <1>1, RunInv, PTL
-----------------------------------------------------------------------------
(* Which identities a case has. *)

\* What Kept makes of the first k elements of a list, one after the other.
Keeps(g, all, S, k) ==
  g = [n \in 0..k |-> IF n = 0 THEN <<>>
                      ELSE IF all[n] \in S THEN Append(g[n - 1], all[n]) ELSE g[n - 1]]

LEMMA KeepsExists ==
  ASSUME NEW all, NEW S, NEW N \in Nat
  PROVE  \E g : Keeps(g, all, S, N)
<1> DEFINE Good == { k \in 0..N : \E g : Keeps(g, all, S, k) }
           body(g, n) == IF n = 0 THEN <<>>
                         ELSE IF all[n] \in S THEN Append(g[n - 1], all[n]) ELSE g[n - 1]
<1>1. 0 \in Good
  <2>1. Keeps([n \in 0..0 |-> <<>>], all, S, 0)
    BY DEF Keeps
  <2>2. QED
    BY <2>1
<1>2. ASSUME NEW k \in 0..N, k > 0, k - 1 \in Good PROVE k \in Good
  <2>1. PICK f : Keeps(f, all, S, k - 1)
    BY <1>2
  <2> DEFINE g == [n \in 0..k |-> body(f, n)]
  <2>2. \A n \in 0..(k - 1) : f[n] = body(f, n) /\ n \in 0..k
    <3>1. f = [n \in 0..(k - 1) |-> body(f, n)]
      BY <2>1 DEF Keeps
    <3>2. \A n \in 0..(k - 1) : n \in 0..k
      OBVIOUS
    <3> HIDE DEF body
    <3>3. QED
      BY <3>1, <3>2
  <2>3. \A n \in 0..(k - 1) : g[n] = f[n]
    BY <2>2
  <2>4. \A n \in 0..k : body(f, n) = body(g, n)
    <3>1. \A n \in 0..k : n # 0 => n - 1 \in 0..(k - 1)
      OBVIOUS
    <3> HIDE DEF g
    <3>2. QED
      BY <2>3, <3>1
  <2>5. g = [n \in 0..k |-> body(g, n)]
    <3> HIDE DEF body
    <3>1. QED
      BY <2>4
  <2>6. Keeps(g, all, S, k)
    BY <2>5 DEF Keeps
  <2>7. QED
    BY <2>6
<1> HIDE DEF Good
<1>3. \A k \in 0..N : k \in Good
  BY <1>1, <1>2, UptoInduction
<1>4. QED
  BY <1>3 DEF Good

\* Kept has those elements of a list that are in S, and no others.
LEMMA KeptIs ==
  ASSUME NEW X, NEW all \in Seq(X), NEW S
  PROVE  Kept(all, S) \in Seq(X) /\ Elements(Kept(all, S)) = Elements(all) \cap S
<1> DEFINE N == Len(all)
           kept == CHOOSE g : Keeps(g, all, S, N)
           first(k) == { all[j] : j \in 1..k }
           Good == { k \in 0..N : kept[k] \in Seq(X) /\ Elements(kept[k]) = first(k) \cap S }
<1>1. N \in Nat /\ DOMAIN all = 1..N /\ \A j \in 1..N : all[j] \in X
  OBVIOUS
<1>2. Kept(all, S) = kept[N]
  BY DEF Kept, Keeps
<1>3. Keeps(kept, all, S, N)
  BY <1>1, KeepsExists
<1> HIDE DEF kept, N
<1>4. kept[0] = <<>>
  BY <1>1, <1>3 DEF Keeps
<1>5. 0 \in Good
  <2>1. Elements(<<>>) = {} /\ first(0) = {} /\ <<>> \in Seq(X)
    BY DEF Elements
  <2> HIDE DEF first
  <2>2. kept[0] \in Seq(X) /\ Elements(kept[0]) = first(0) \cap S
    BY <1>4, <2>1, Zenon
  <2>3. 0 \in 0..N
    BY <1>1
  <2>4. QED
    BY <2>2, <2>3
<1>6. ASSUME NEW k \in 0..N, k > 0, k - 1 \in Good PROVE k \in Good
  <2>1. kept[k] = IF all[k] \in S THEN Append(kept[k - 1], all[k]) ELSE kept[k - 1]
    <3> DEFINE body(n) == IF n = 0 THEN <<>>
                          ELSE IF all[n] \in S THEN Append(kept[n - 1], all[n]) ELSE kept[n - 1]
    <3>1. kept = [n \in 0..N |-> body(n)]
      BY <1>3 DEF Keeps
    <3>2. k \in 0..N /\ k # 0
      BY <1>1, <1>6
    <3> HIDE DEF body
    <3>3. kept[k] = body(k)
      BY <3>1, <3>2
    <3>4. QED
      BY <3>2, <3>3 DEF body
  <2>2. first(k) = first(k - 1) \cup {all[k]}
    <3>1. 1..k = 1..(k - 1) \cup {k}
      BY <1>1, <1>6
    <3>2. QED
      BY <3>1
  <2>3. kept[k - 1] \in Seq(X) /\ Elements(kept[k - 1]) = first(k - 1) \cap S /\ all[k] \in X
    BY <1>1, <1>6
  <2> HIDE DEF first
  <2>4. CASE all[k] \in S
    <3>1. kept[k] = Append(kept[k - 1], all[k])
      BY <2>1, <2>4
    <3>2. PICK l \in Seq(X), x \in X : l = kept[k - 1] /\ x = all[k]
      BY <2>3
    <3>3. Append(l, x) \in Seq(X) /\ Elements(Append(l, x)) = Elements(l) \cup {x}
      <4>1. /\ Len(l) \in Nat /\ DOMAIN l = 1..Len(l) /\ DOMAIN Append(l, x) = 1..(Len(l) + 1)
            /\ \A j \in 1..Len(l) : Append(l, x)[j] = l[j]
            /\ Append(l, x)[Len(l) + 1] = x /\ Append(l, x) \in Seq(X)
        OBVIOUS
      <4>2. 1..(Len(l) + 1) = 1..Len(l) \cup {Len(l) + 1}
        BY <4>1
      <4>3. QED
        BY <4>1, <4>2 DEF Elements
    <3>4. QED
      BY <2>2, <2>3, <2>4, <3>1, <3>2, <3>3
  <2>5. CASE all[k] \notin S
    BY <2>1, <2>2, <2>3, <2>5
  <2>6. QED
    BY <2>4, <2>5
<1>7. \A k \in 0..N : k \in Good
  <2> HIDE DEF Good
  <2>1. QED
    BY <1>1, <1>5, <1>6, UptoInduction
<1>8. first(N) = Elements(all)
  BY <1>1 DEF Elements
<1>9. N \in 0..N
  BY <1>1
<1>10. QED
  BY <1>2, <1>7, <1>8, <1>9

\* Those of a list that a policy binds, and those of them that try its case.
Binds(p, all) == { i \in Elements(all) : run.suite => Named(p, i) }
Tries(p, all) == { i \in Binds(p, all) : i.role # p.verifier }

\* A case is tried by those of its file that the policy binds, but for the reader.
LEMMA WhoIsTested ==
  ASSUME NEW e, NEW p, p = e.policy, NEW all \in Lists, NEW c, c = CaseOf(e, all)
  PROVE  /\ Elements(Bound(p, all)) = Binds(p, all)
         /\ c.identities = Executed(p, Bound(p, all))
         /\ Elements(c.identities) = Tries(p, all)
<1>1. /\ Bound(p, all) \in Lists
      /\ Elements(Bound(p, all)) = { i \in Elements(all) : run.suite => Named(p, i) }
  <2> DEFINE named == { i \in Elements(all) : Named(p, i) }
  <2>1. Kept(all, named) \in Lists /\ Elements(Kept(all, named)) = Elements(all) \cap named
    BY KeptIs DEF Lists
  <2>2. Bound(p, all) = IF run.suite THEN Kept(all, named) ELSE all
    BY DEF Bound, Members
  <2>3. CASE run.suite
    <3>1. Elements(Kept(all, named)) = { i \in Elements(all) : run.suite => Named(p, i) }
      BY <2>1, <2>3
    <3> HIDE DEF named
    <3>2. QED
      BY <2>1, <2>2, <2>3, <3>1
  <2>4. CASE ~run.suite
    BY <2>2, <2>4
  <2>5. QED
    BY <2>3, <2>4
<1>2. PICK ids \in Lists : ids = Bound(p, all)
  BY <1>1
<1>3. Executed(p, ids) \in Lists /\ Elements(Executed(p, ids)) = { i \in Elements(ids) : i.role # p.verifier }
  <2> DEFINE tried == { i \in Elements(ids) : i.role # p.verifier }
  <2>1. Kept(ids, tried) \in Lists /\ Elements(Kept(ids, tried)) = Elements(ids) \cap tried
    BY KeptIs DEF Lists
  <2>2. Elements(ids) \cap tried = tried
    OBVIOUS
  <2>3. QED
    BY <2>1, <2>2 DEF Executed
<1>4. c.identities = Executed(p, ids)
  BY <1>2 DEF CaseOf
<1>5. Elements(ids) = Binds(p, all)
  BY <1>1, <1>2 DEF Binds
<1>6. QED
  BY <1>2, <1>3, <1>4, <1>5 DEF Tries

-----------------------------------------------------------------------------
(* Every control is tested. *)

\* While no problem was met, every case compiled from the list its file was first
\* read as, which is still in the cache, and no two cases have one id.
CompiledInv ==
  problems = {} =>
    /\ \A n \in DOMAIN cases :
         LET e == run.entries[n]
         IN  /\ cache[e.file] # None /\ cases[n] = CaseOf(e, cache[e.file])
             /\ Compiles(e, cache[e.file])
    /\ \A m, n \in DOMAIN cases : cases[m].id = cases[n].id => m = n

\* Whether an entry compiles is decided by the invocation and what was read.
LEMMA SameCompiles ==
  ASSUME run' = run, NEW e, NEW all
  PROVE  Compiles(e, all)' <=> Compiles(e, all)
<1>1. /\ \A p : Rules(p)' = Rules(p) /\ (Applicable(p)' <=> Applicable(p))
      /\ \A p, ids : Staffed(p, ids)' <=> Staffed(p, ids)
      /\ \A p : Bound(p, all)' = Bound(p, all)
  BY DEF Rules, Applicable, Meant, Staffed, Bound
<1>2. \A p : Assertable(p)' <=> Assertable(p)
  BY <1>1 DEF Assertable
<1>3. QED
  BY <1>1, <1>2 DEF Compiles

LEMMA CompiledStep == TypeInv /\ CaseInv /\ CompiledInv /\ [Next]_vars => CompiledInv'
<1> SUFFICES ASSUME TypeInv, CaseInv, CompiledInv, [Next]_vars, problems' = {} PROVE CompiledInv'
  BY DEF CompiledInv
<1>1. cases \in Seq(Cases) /\ Len(cases) \in Nat /\ DOMAIN cases = 1..Len(cases)
  BY DEF TypeInv
<1>2. CASE UNCHANGED <<run, cache, cases, problems>>
  <2>1. \A n \in DOMAIN cases : LET e == run.entries[n]
                                IN  /\ cache[e.file] # None /\ cases[n] = CaseOf(e, cache[e.file])
                                    /\ Compiles(e, cache[e.file])
    BY <1>2 DEF CompiledInv
  <2>2. \A e, all : CaseOf(e, all)' = CaseOf(e, all) /\ (Compiles(e, all)' <=> Compiles(e, all))
    BY <1>2, SameCase, SameCompiles
  <2>3. QED
    BY <1>2, <2>1, <2>2 DEF CompiledInv
<1>3. CASE CompileEntry
  <2> DEFINE all == Read(Current.file)
  <2>1. /\ run' = run /\ at \in DOMAIN run.entries /\ Current \in Entry /\ all \in Lists
        /\ Current.file \in Files /\ pc = "compile"
    BY <1>3, EntryType DEF CompileEntry, Entry
  <2>2. cache' = IF Parses(Current.policy) /\ Readable(all)
                 THEN [cache EXCEPT ![Current.file] = all] ELSE cache
    BY <1>3 DEF CompileEntry
  <2>3. \A f \in Files : cache[f] # None => cache'[f] = cache[f]
    BY <2>2 DEF TypeInv, Read
  <2>4. problems = {} /\ cases' = Append(cases, CaseOf(Current, all)) /\ Compiles(Current, all)
        /\ ~\E c \in Elements(cases) : c.id = CaseId(Current)
    BY <1>3 DEF CompileEntry
  <2>5. /\ Len(cases) = at - 1 /\ at = Len(cases) + 1 /\ Current = run.entries[Len(cases) + 1]
    BY <1>1, <2>1, <2>4 DEF CaseInv, Current, TypeInv
  <2>6. cache'[Current.file] = all /\ all # None
    <3>1. Parses(Current.policy) /\ Readable(all)
      BY <2>4 DEF Compiles
    <3>2. all # None
      BY <2>1, PolicyAssumption DEF Lists
    <3> HIDE DEF all
    <3>3. QED
      BY <2>1, <2>2, <3>1, <3>2 DEF TypeInv
  <2> HIDE DEF all
  <2>7. /\ DOMAIN cases' = DOMAIN cases \cup {at} /\ at \notin DOMAIN cases
        /\ cases'[at] = CaseOf(Current, all)
        /\ \A n \in DOMAIN cases : cases'[n] = cases[n]
    <3>1. PICK c : c = CaseOf(Current, all)
      OBVIOUS
    <3>2. /\ cases' = Append(cases, c) /\ DOMAIN Append(cases, c) = 1..(Len(cases) + 1)
          /\ Append(cases, c)[Len(cases) + 1] = c
          /\ \A n \in 1..Len(cases) : Append(cases, c)[n] = cases[n]
      BY <1>1, <2>4, <3>1
    <3>3. 1..(Len(cases) + 1) = 1..Len(cases) \cup {Len(cases) + 1}
      BY <1>1
    <3>4. QED
      BY <1>1, <2>5, <3>1, <3>2, <3>3
  <2>8. ASSUME NEW n \in DOMAIN cases'
        PROVE  LET e == run.entries[n]
               IN  /\ cache'[e.file] # None /\ cases'[n] = CaseOf(e, cache'[e.file])
                   /\ Compiles(e, cache'[e.file])
    <3>1. CASE n = at
      BY <3>1, <2>4, <2>6, <2>7 DEF Current
    <3>2. CASE n \in DOMAIN cases
      <4>1. PICK e : e = run.entries[n]
        OBVIOUS
      <4>2. cache[e.file] # None /\ cases[n] = CaseOf(e, cache[e.file]) /\ Compiles(e, cache[e.file])
        BY <3>2, <4>1, <2>4 DEF CompiledInv
      <4>3. e.file \in Files
        <5>1. n \in DOMAIN run.entries
          BY <3>2, <2>4 DEF CaseInv
        <5>2. e \in Entry
          BY <5>1, <4>1, RunType
        <5>3. QED
          BY <5>2 DEF Entry
      <4>4. cache'[e.file] = cache[e.file] /\ cases'[n] = cases[n]
        BY <3>2, <4>2, <4>3, <2>3, <2>7
      <4>5. QED
        BY <4>1, <4>2, <4>4
    <3>3. QED
      BY <2>7, <3>1, <3>2
  <2>9. ASSUME NEW n \in DOMAIN cases PROVE cases'[n].id # cases'[at].id
    <3>1. cases'[at].id = CaseId(Current)
      BY <2>7 DEF CaseOf
    <3>2. cases[n] \in Elements(cases)
      BY DEF Elements
    <3>3. QED
      BY <2>4, <2>7, <3>1, <3>2
  <2>10. \A m, n \in DOMAIN cases' : cases'[m].id = cases'[n].id => m = n
    BY <2>4, <2>7, <2>9 DEF CompiledInv
  <2>11. \A e, l : CaseOf(e, l)' = CaseOf(e, l) /\ (Compiles(e, l)' <=> Compiles(e, l))
    BY <2>1, SameCase, SameCompiles
  <2>12. QED
    BY <2>1, <2>8, <2>10, <2>11 DEF CompiledInv
<1>4. QED
  BY <1>2, <1>3 DEF Next, vars, EndCompile, Edit, RunEntry, FailEntry, Finish

\* The reader of a write is not among those a policy speaks of.
LEMMA ReaderIsApart ==
  ASSUME NEW e, NEW p, p = e.policy, NEW all, Compiles(e, all), NEW r \in Roles, InExpect(p, r)
  PROVE  r # p.verifier
<1>1. Verifiable(p, Bound(p, all))
  BY DEF Compiles
<1>2. r # Missing
  BY PolicyAssumption
<1>3. QED
  BY <1>1, <1>2 DEF Verifiable

\* A case holds everybody of the list whom the policy speaks of to what it says,
\* and nobody else.
Tests(p, c, all) ==
  /\ \A k \in DOMAIN c.identities :
       LET role == c.identities[k].role
       IN  role # p.verifier /\ p.expect[role] # "none" /\ c.expect[k] = p.expect[role]
  /\ run.suite => \A r \in Roles : p.expect[r] # "none" =>
       \E i \in Elements(c.identities) : i.role = r
  /\ \A i \in Elements(all) : p.expect[i.role] # "none" => i \in Elements(c.identities)
  /\ Elements(c.identities) \subseteq Elements(all)

\* What the compilation of one entry from a list of identities promises.
LEMMA CaseTests ==
  ASSUME NEW e, NEW p, p = e.policy, NEW all \in Lists, Compiles(e, all), NEW c, c = CaseOf(e, all)
  PROVE  Tests(p, c, all)
<1> DEFINE ids == Bound(p, all)
<1>1. /\ Elements(ids) = Binds(p, all) /\ c.identities = Executed(p, ids)
      /\ Elements(c.identities) = Tries(p, all)
  BY WhoIsTested
<1>2. /\ \A i \in Elements(Executed(p, ids)) : InExpect(p, i.role)
      /\ Staffed(p, ids)
  BY DEF Compiles
<1> HIDE DEF ids
<1>3. ASSUME NEW k \in DOMAIN c.identities
      PROVE  LET role == c.identities[k].role
             IN  role # p.verifier /\ p.expect[role] # "none" /\ c.expect[k] = p.expect[role]
  <2>1. PICK i : i = c.identities[k]
    OBVIOUS
  <2>2. i \in Elements(c.identities)
    BY <2>1 DEF Elements
  <2>3. i.role # p.verifier /\ InExpect(p, i.role)
    BY <1>1, <1>2, <2>2 DEF Tries
  <2>4. PICK role : role = i.role
    OBVIOUS
  <2>5. c.expect[k] = p.expect[role]
    BY <2>1, <2>4, CaseFacts DEF Says
  <2>6. QED
    BY <2>1, <2>3, <2>4, <2>5 DEF InExpect
<1>4. ASSUME run.suite, NEW r \in Roles, p.expect[r] # "none"
      PROVE  \E i \in Elements(c.identities) : i.role = r
  <2>1. InExpect(p, r)
    BY <1>4 DEF InExpect
  <2>2. PICK i \in Elements(ids) : i.role = r
    BY <1>2, <1>4, <2>1 DEF Staffed
  <2>3. r # p.verifier
    BY <2>1, ReaderIsApart
  <2>4. QED
    BY <1>1, <2>2, <2>3 DEF Tries
<1>5. ASSUME NEW i \in Elements(all), p.expect[i.role] # "none"
      PROVE  i \in Elements(c.identities)
  <2>1. i \in Identity
    BY DEF Elements, Lists
  <2>2. i.role \in Roles
    BY <2>1 DEF Identity
  <2>3. InExpect(p, i.role)
    BY <1>5 DEF InExpect
  <2>4. i.role # p.verifier
    BY <2>2, <2>3, ReaderIsApart
  <2>5. QED
    BY <1>1, <2>3, <2>4 DEF Named, Binds, Tries
<1>6. Elements(c.identities) \subseteq Elements(all)
  BY <1>1 DEF Binds, Tries
<1>7. QED
  BY <1>3, <1>4, <1>5, <1>6 DEF Tests

\* A suite that starts tests every control it lists, for every set of roles, policies
\* and identity files and whenever a file is edited (bindRoles, Suite.Compile).
THEOREM EveryControlIsTested == Spec => []ControlsTested
<1>1. Init => CompiledInv
  BY DEF Init, CompiledInv
<1>2. TypeInv /\ CaseInv /\ CompiledInv => ControlsTested
  <2> SUFFICES ASSUME TypeInv, CaseInv, CompiledInv, pc = "run" PROVE ControlsTested
    BY DEF ControlsTested
  <2>1. Len(cases) = Len(run.entries) /\ problems = {}
    BY DEF CaseInv
  <2>2. ASSUME NEW n \in DOMAIN cases
        PROVE  LET e == run.entries[n]
               IN  cache[e.file] \in Lists /\ cases[n] = CaseOf(e, cache[e.file]) /\ Compiles(e, cache[e.file])
    <3>1. n \in DOMAIN run.entries
      BY <2>1 DEF CaseInv
    <3>2. run.entries[n].file \in Files
      <4>1. run.entries[n] \in Entry
        BY <3>1, RunType
      <4>2. QED
        BY <4>1 DEF Entry
    <3>3. QED
      BY <2>1, <3>2 DEF CompiledInv, TypeInv
  <2>3. ASSUME NEW n \in DOMAIN cases
        PROVE  Tests(run.entries[n].policy, cases[n], cache[run.entries[n].file])
    <3>1. PICK e, p, c, all : /\ e = run.entries[n] /\ p = e.policy /\ c = cases[n]
                              /\ all = cache[e.file]
      OBVIOUS
    <3>2. all \in Lists /\ c = CaseOf(e, all) /\ Compiles(e, all)
      BY <2>2, <3>1
    <3>3. Tests(p, c, all)
      BY <3>1, <3>2, CaseTests
    <3>4. QED
      BY <3>1, <3>3
  <2>4. \A m, n \in DOMAIN cases : cases[n].id = cases[m].id => m = n
    BY <2>1 DEF CompiledInv
  <2>5. ASSUME NEW m \in DOMAIN cases, NEW n \in DOMAIN cases,
               run.entries[m].file = run.entries[n].file,
               NEW i \in Elements(cases[m].identities), run.entries[n].policy.expect[i.role] # "none"
        PROVE  i \in Elements(cases[n].identities)
    <3>1. i \in Elements(cache[run.entries[m].file])
      BY <2>3 DEF Tests
    <3>2. i \in Elements(cache[run.entries[n].file])
      BY <3>1, <2>5
    <3>3. QED
      BY <2>3, <2>5, <3>2 DEF Tests
  <2>6. QED
    BY <2>1, <2>3, <2>4, <2>5 DEF ControlsTested, Tests
<1>3. QED
  BY <1>1, <1>2, CompiledStep, RunInv, PTL DEF Spec
=============================================================================
