--------------------------- MODULE CaseSetup_proofs ---------------------------
(***************************************************************************)
(* What CaseSetup promises for every case: any number of steps, variables, *)
(* identities and references.                                              *)
(***************************************************************************)
EXTENDS CaseSetup, TLAPS

-----------------------------------------------------------------------------
(* Types. *)

LEMMA CaseType ==
  ASSUME tc \in Cases
  PROVE  /\ tc.steps \in Seq(Step) /\ Len(tc.steps) \in Nat
         /\ DOMAIN tc.steps = 1..Len(tc.steps)
         /\ \A i \in DOMAIN tc.steps : tc.steps[i] \in Step
         /\ \A p \in Parts : tc.uses[p] \in SUBSET Names
         /\ tc.probed \subseteq Ids \cup {Reader}
         /\ tc.reset \subseteq Ids \cup {Nobody}
<1>1. tc \in Case
  BY CasesAssumption
<1>2. tc.steps \in Seq(Step) /\ tc.uses \in [Parts -> SUBSET Names]
      /\ tc.probed \in SUBSET (Ids \cup {Reader}) /\ tc.reset \in SUBSET (Ids \cup {Nobody})
  BY <1>1 DEF Case
<1>3. QED
  BY <1>2

LEMMA LiteralType ==
  ASSUME NEW refs \in SUBSET Names
  PROVE  Literal(refs) \in Text /\ DOMAIN Literal(refs) = refs
<1>1. Literal(refs) \in [refs -> Nat]
  BY DEF Literal
<1>2. QED
  BY <1>1 DEF Text

LEMMA ResolvedType ==
  ASSUME TypeOK, NEW refs \in SUBSET Names
  PROVE  Resolved(refs) \in Text
<1>1. \A n \in refs : vars[n] \in Nat
  BY CaseType DEF TypeOK
<1>2. Resolved(refs) \in [refs -> Nat]
  BY <1>1 DEF Resolved
<1>3. QED
  BY <1>2 DEF Text

\* Identities and those who act for nobody always have a credential text.
LEMMA ActorsPresent ==
  ASSUME TypeOK
  PROVE  Ids \cup {Nobody, "request"} \subseteq Present
<1>1. \A p \in Ids \cup {Nobody} : p # "verification" /\ p # "reset" /\ p # Reader
  BY CasesAssumption DEF Requests
<1>2. "request" # Reader
  BY CasesAssumption DEF Requests
<1>3. Ids \cup {Nobody, "request"} \subseteq Parts
  BY DEF Parts, Requests
<1>4. QED
  BY <1>1, <1>2, <1>3 DEF Present

\* One more exchange.
LEMMA SentType ==
  ASSUME TypeOK, NEW phase, NEW step \in 1..(Len(tc.steps) + 1), NEW actor,
         NEW text \in Text, NEW credential \in Text,
         sent' = sent \cup { Exchange(phase, step, actor, text, credential) }, tc' = tc
  PROVE  \A m \in sent' : /\ m.step \in 1..(Len(tc'.steps) + 1)
                          /\ m.text \in Text /\ m.credential \in Text
BY DEF TypeOK, Exchange

LEMMA SendStepType ==
  ASSUME TypeOK, at \in DOMAIN tc.steps, SendStep, tc' = tc
  PROVE  \A m \in sent' : /\ m.step \in 1..(Len(tc'.steps) + 1)
                          /\ m.text \in Text /\ m.credential \in Text
<1> DEFINE step == tc.steps[at]
<1>1. step \in Step
  BY CaseType DEF TypeOK
<1>2. step.uses \in SUBSET Names /\ step.as \in Parts
  BY <1>1 DEF Step, Parts
<1>3. Resolved(step.uses) \in Text /\ Literal(tc.uses[step.as]) \in Text
  BY <1>2, CaseType, ResolvedType, LiteralType DEF TypeOK
<1>4. sent' = sent \cup { Exchange("setup", at, step.as, Resolved(step.uses),
                                   Literal(tc.uses[step.as])) }
  BY DEF SendStep
<1>5. at \in 1..(Len(tc.steps) + 1)
  BY DEF TypeOK
<1>6. QED
  BY <1>3, <1>4, <1>5, SentType

LEMMA SendType ==
  ASSUME TypeOK, NEW phase, NEW actor \in Present, NEW text \in Text, Send(phase, actor, text)
  PROVE  TypeOK'
<1>1. texts[actor] \in Text
  BY DEF TypeOK, Send
<1>2. at \in 1..(Len(tc.steps) + 1)
  BY DEF TypeOK
<1>3. \A m \in sent' : /\ m.step \in 1..(Len(tc'.steps) + 1)
                       /\ m.text \in Text /\ m.credential \in Text
  BY <1>1, <1>2, SentType DEF Send
<1>4. QED
  BY <1>3 DEF TypeOK, Send, Present

LEMMA AppliedType ==
  ASSUME TypeOK, NEW p \in Present
  PROVE  Applied(p) \in Text
<1>1. tc.uses[p] \in SUBSET Names
  BY CaseType DEF TypeOK, Present
<1>2. QED
  BY <1>1, LiteralType, ResolvedType DEF Applied

LEMMA TypeStep ==
  ASSUME TypeOK, [Next]_state
  PROVE  TypeOK'
<1>1. CASE StepUnresolved \/ ApplyFails
  BY <1>1 DEF StepUnresolved, ApplyFails, Abort, TypeOK
<1>2. CASE StepFailed
  <2>1. \A m \in sent' : /\ m.step \in 1..(Len(tc'.steps) + 1)
                         /\ m.text \in Text /\ m.credential \in Text
    BY <1>2, SendStepType DEF StepFailed, Abort
  <2>2. QED
    BY <1>2, <2>1 DEF StepFailed, Abort, TypeOK
<1>3. CASE StepMet
  <2>1. \A m \in sent' : /\ m.step \in 1..(Len(tc'.steps) + 1)
                         /\ m.text \in Text /\ m.credential \in Text
    BY <1>3, SendStepType DEF StepMet
  <2>2. at \in 1..Len(tc.steps) /\ Len(tc.steps) \in Nat
    BY <1>3, CaseType DEF StepMet, TypeOK
  <2>3. vars' \in [Names -> 0..Len(tc.steps)]
    BY <1>3, <2>2 DEF StepMet, Bound, TypeOK
  <2>4. at' \in 1..(Len(tc.steps) + 1)
    BY <1>3, <2>2 DEF StepMet
  <2>5. met' \subseteq DOMAIN tc.steps
    BY <1>3 DEF StepMet, TypeOK
  <2>6. QED
    BY <1>3, <2>1, <2>3, <2>4, <2>5 DEF StepMet, TypeOK
<1>4. CASE ApplySetup
  <2>1. texts' \in [Present -> Text]
    BY <1>4, AppliedType DEF ApplySetup
  <2>2. Present' = Present
    BY <1>4 DEF ApplySetup, Present
  <2>3. QED
    BY <1>4, <2>1, <2>2 DEF ApplySetup, TypeOK
<1>5. CASE SendProbe
  <2>1. PICK id \in tc.probed \cap Present : Send("preflight", id, Literal({}))
    BY <1>5 DEF SendProbe
  <2>2. QED
    BY <2>1, LiteralType, SendType
<1>6. CASE SendRequest
  <2>1. PICK id \in Ids : Send("request", id, texts["request"])
    BY <1>6 DEF SendRequest
  <2>2. texts["request"] \in Text
    BY <2>1, ActorsPresent DEF TypeOK, Send
  <2>3. QED
    BY <2>1, <2>2, ActorsPresent, SendType
<1>7. CASE SendRead
  <2>1. Reader \in Present /\ "verification" \in Present
    BY <1>7, CasesAssumption DEF SendRead, Present, Parts, Requests
  <2>2. texts["verification"] \in Text
    BY <1>7, <2>1 DEF TypeOK, SendRead, Send
  <2>3. QED
    BY <1>7, <2>1, <2>2, SendType DEF SendRead
<1>8. CASE SendReset
  <2>1. PICK actor \in tc.reset : Send("reset", actor, texts["reset"])
    BY <1>8 DEF SendReset
  <2>2. "reset" \in Present
    BY <1>8, <2>1, CasesAssumption DEF SendReset, Present, Parts, Requests
  <2>3. texts["reset"] \in Text
    BY <2>1, <2>2 DEF TypeOK, Send
  <2>4. actor \in Present
    BY <2>1, ActorsPresent, CaseType DEF TypeOK
  <2>5. QED
    BY <2>1, <2>3, <2>4, SendType
<1>9. CASE UNCHANGED state
  BY <1>9 DEF state, TypeOK, Present
<1>10. QED
  BY <1>1, <1>2, <1>3, <1>4, <1>5, <1>6, <1>7, <1>8, <1>9 DEF Next

\* In every run the values captured come from steps of the case, every part has a
\* text once setup was applied, and every exchange is one of a step or of the case.
THEOREM TypeCorrect == Spec => []TypeOK
<1>1. Init => TypeOK
  BY CaseType DEF Init, TypeOK
<1>2. TypeOK /\ [Next]_state => TypeOK'
  BY TypeStep
<1>3. QED
  BY <1>1, <1>2, PTL DEF Spec

-----------------------------------------------------------------------------
(* Failed steps. *)

\* Every step behind established its precondition, and no exchange is ahead.
InStep ==
  /\ \A i \in DOMAIN tc.steps : i < at => i \in met
  /\ \A m \in sent : m.step <= at

LEMMA InStepKept ==
  ASSUME TypeOK, InStep, [Next]_state
  PROVE  InStep'
<1>1. CASE StepUnresolved \/ ApplySetup \/ ApplyFails
  BY <1>1 DEF StepUnresolved, ApplySetup, ApplyFails, Abort, InStep
<1>2. at \in Nat /\ \A m \in sent : m.step \in Nat
  BY CaseType DEF TypeOK
<1>3. CASE StepFailed
  BY <1>2, <1>3 DEF StepFailed, SendStep, Exchange, Abort, InStep
<1>4. CASE StepMet
  <2>1. \A i \in DOMAIN tc.steps : i < at' => i \in met'
    BY <1>2, <1>4, CaseType DEF StepMet, InStep, TypeOK
  <2>2. \A m \in sent' : m.step <= at'
    BY <1>2, <1>4 DEF StepMet, SendStep, Exchange, InStep
  <2>3. QED
    BY <1>4, <2>1, <2>2 DEF StepMet, InStep
<1>5. ASSUME NEW phase, NEW actor, NEW text, Send(phase, actor, text)
      PROVE  InStep'
  BY <1>2, <1>5 DEF Send, Exchange, InStep
<1>6. CASE SendProbe \/ SendRequest \/ SendRead \/ SendReset
  BY <1>5, <1>6 DEF SendProbe, SendRequest, SendRead, SendReset
<1>7. CASE UNCHANGED state
  BY <1>7 DEF state, InStep
<1>8. QED
  BY <1>1, <1>3, <1>4, <1>6, <1>7 DEF Next

\* Nothing is sent after a step that did not establish its precondition: neither a
\* later step nor anything of the case, however many steps there are.
THEOREM NothingAfterFailure == Spec => []OnlyAfterSetup
<1>1. Init => InStep
  BY CaseType DEF Init, InStep
<1>2. TypeOK /\ InStep /\ [Next]_state => InStep'
  BY InStepKept
<1>3. TypeOK /\ InStep => OnlyAfterSetup
  <2>1. ASSUME TypeOK, InStep, NEW m \in sent, NEW i \in DOMAIN tc.steps, i < m.step
        PROVE  i \in met
    <3>1. m.step \in Nat /\ at \in Nat /\ i \in Nat /\ m.step <= at
      BY <2>1, CaseType DEF TypeOK, InStep
    <3>2. i < at
      BY <2>1, <3>1
    <3>3. QED
      BY <2>1, <3>2 DEF InStep
  <2>2. QED
    BY <2>1 DEF OnlyAfterSetup
<1>4. QED
  BY <1>1, <1>2, <1>3, TypeCorrect, PTL DEF Spec

-----------------------------------------------------------------------------
(* Values. *)

\* Variables hold what was captured last, and once the run begins every part of the
\* case was resolved with them.
VarsLatest == \A n \in Names : IsLatest(vars[n], n, at)

RunResolved ==
  pc = "run" =>
    /\ at \notin DOMAIN tc.steps
    /\ CapturesSomething => \A p \in Present :
         tc.uses[p] \subseteq Captured /\ texts[p] = Resolved(tc.uses[p])

Latest == VarsLatest /\ RunResolved /\ CarriesLatest

\* Capturing makes the step before the next one the latest.
LEMMA BoundLatest ==
  ASSUME TypeOK, VarsLatest, at \in DOMAIN tc.steps, NEW n \in Names
  PROVE  IsLatest(Bound(n, tc.steps[at]), n, at + 1)
<1>1. DOMAIN tc.steps = 1..Len(tc.steps) /\ Len(tc.steps) \in Nat /\ vars[n] \in Nat
  BY CaseType DEF TypeOK
<1>2. CASE n \in tc.steps[at].captures
  BY <1>1, <1>2 DEF Bound, IsLatest
<1>3. CASE n \notin tc.steps[at].captures
  <2>1. IsLatest(vars[n], n, at)
    BY DEF VarsLatest
  <2>2. IsLatest(vars[n], n, at + 1)
    BY <1>1, <1>3, <2>1 DEF IsLatest
  <2>3. QED
    BY <1>3, <2>2 DEF Bound
<1>4. QED
  BY <1>2, <1>3

\* If a step captures anything, a variable holds something when all are through.
LEMMA SomethingCaptured ==
  ASSUME TypeOK, VarsLatest, at \notin DOMAIN tc.steps, CapturesSomething
  PROVE  Captured # {}
<1>1. PICK i \in DOMAIN tc.steps : tc.steps[i].captures # {}
  BY DEF CapturesSomething
<1>2. PICK n \in tc.steps[i].captures : TRUE
  BY <1>1
<1>3. n \in Names
  BY <1>2, CaseType DEF TypeOK, Step
<1>4. i \in Nat /\ 0 < i /\ i < at
  BY CaseType DEF TypeOK
<1>5. vars[n] # 0
  BY <1>2, <1>3, <1>4 DEF VarsLatest, IsLatest
<1>6. QED
  BY <1>3, <1>5 DEF Captured

\* A resolved text carries what was captured last.
LEMMA ResolvedLatest ==
  ASSUME VarsLatest, NEW refs \in SUBSET Names, Resolves(refs)
  PROVE  \A n \in DOMAIN Resolved(refs) :
           Resolved(refs)[n] # 0 /\ IsLatest(Resolved(refs)[n], n, at)
BY DEF Resolved, Resolves, Captured, VarsLatest

LEMMA SendStepLatest ==
  ASSUME TypeOK, Latest, at \in DOMAIN tc.steps, Resolves(tc.steps[at].uses), SendStep,
         tc' = tc
  PROVE  CarriesLatest'
<1>1. tc.steps[at].uses \in SUBSET Names
  BY CaseType DEF TypeOK, Step
<1>2. \A n \in DOMAIN Resolved(tc.steps[at].uses) :
        /\ Resolved(tc.steps[at].uses)[n] # 0
        /\ IsLatest(Resolved(tc.steps[at].uses)[n], n, at)
  BY <1>1, ResolvedLatest DEF Latest
<1>3. \A i, n, k : IsLatest(i, n, k)' <=> IsLatest(i, n, k)
  BY DEF IsLatest
<1>4. CapturesSomething' <=> CapturesSomething
  BY DEF CapturesSomething
<1>5. QED
  BY <1>2, <1>3, <1>4 DEF SendStep, Exchange, Latest, CarriesLatest

LEMMA SendLatest ==
  ASSUME TypeOK, Latest, NEW phase, NEW actor \in Present, NEW text, Send(phase, actor, text),
         phase # "setup",
         text = Literal({}) \/ \E p \in Present : text = texts[p]
  PROVE  Latest'
<1>1. UNCHANGED <<tc, pc, at, vars, texts>>
  BY DEF Send
<1>2. VarsLatest' /\ RunResolved'
  BY <1>1 DEF Latest, VarsLatest, RunResolved, IsLatest, CapturesSomething, Present,
              Captured, Resolved
<1>3. \A p \in Present : CapturesSomething =>
        \A n \in DOMAIN texts[p] : texts[p][n] # 0 /\ IsLatest(texts[p][n], n, at)
  <2>1. ASSUME NEW p \in Present, CapturesSomething
        PROVE  \A n \in DOMAIN texts[p] : texts[p][n] # 0 /\ IsLatest(texts[p][n], n, at)
    <3>1. texts[p] = Resolved(tc.uses[p]) /\ Resolves(tc.uses[p])
      BY <2>1 DEF Latest, RunResolved, Send, Resolves
    <3>2. tc.uses[p] \in SUBSET Names
      BY CaseType DEF TypeOK, Present
    <3>3. QED
      BY <3>1, <3>2, ResolvedLatest DEF Latest
  <2>2. QED
    BY <2>1
<1>4. DOMAIN Literal({}) = {}
  BY DEF Literal
<1>5. \A n \in DOMAIN text : CapturesSomething => text[n] # 0 /\ IsLatest(text[n], n, at)
  BY <1>3, <1>4
<1>6. \A i, n, k : IsLatest(i, n, k)' <=> IsLatest(i, n, k)
  BY <1>1 DEF IsLatest
<1>7. CapturesSomething' <=> CapturesSomething
  BY <1>1 DEF CapturesSomething
<1>8. sent' = sent \cup { Exchange(phase, at, actor, text, texts[actor]) }
  BY DEF Send
<1>9. CarriesLatest'
  <2>1. ASSUME NEW m \in sent', m.phase = "setup" \/ CapturesSomething, m \notin sent
        PROVE  /\ \A n \in DOMAIN m.text : m.text[n] # 0 /\ IsLatest(m.text[n], n, m.step)
               /\ m.phase # "setup" => \A n \in DOMAIN m.credential :
                    m.credential[n] # 0 /\ IsLatest(m.credential[n], n, m.step)
    BY <1>3, <1>5, <1>8, <2>1 DEF Exchange
  <2>2. QED
    BY <1>6, <1>7, <1>8, <2>1 DEF CarriesLatest, Latest
<1>10. QED
  BY <1>2, <1>9 DEF Latest

LEMMA LatestKept ==
  ASSUME TypeOK, Latest, [Next]_state
  PROVE  Latest'
<1>1. CASE StepUnresolved \/ ApplyFails
  BY <1>1 DEF StepUnresolved, ApplyFails, Abort, Latest, VarsLatest, RunResolved,
              CarriesLatest, IsLatest, CapturesSomething
<1>2. CASE StepFailed
  <2>1. CarriesLatest'
    BY <1>2, SendStepLatest DEF StepFailed, Abort
  <2>2. VarsLatest' /\ RunResolved'
    BY <1>2 DEF StepFailed, Abort, Latest, VarsLatest, RunResolved, IsLatest
  <2>3. QED
    BY <2>1, <2>2 DEF Latest
<1>3. CASE StepMet
  <2>1. CarriesLatest'
    BY <1>3, SendStepLatest DEF StepMet
  <2>2. \A n \in Names : IsLatest(Bound(n, tc.steps[at]), n, at + 1)
    BY <1>3, BoundLatest DEF StepMet, Latest
  <2>3. \A n \in Names : vars'[n] = Bound(n, tc.steps[at])
    BY <1>3 DEF StepMet
  <2>4. VarsLatest'
    BY <1>3, <2>2, <2>3 DEF StepMet, VarsLatest, IsLatest
  <2>5. RunResolved'
    BY <1>3 DEF StepMet, RunResolved
  <2>6. QED
    BY <2>1, <2>4, <2>5 DEF Latest
<1>4. CASE ApplySetup
  <2>1. UNCHANGED <<tc, at, vars, sent>>
    BY <1>4 DEF ApplySetup
  <2>2. VarsLatest' /\ CarriesLatest'
    BY <2>1 DEF Latest, VarsLatest, CarriesLatest, IsLatest, CapturesSomething
  <2>3. CapturesSomething => \A p \in Present :
          tc.uses[p] \subseteq Captured /\ texts'[p] = Resolved(tc.uses[p])
    BY <1>4, SomethingCaptured DEF ApplySetup, Latest, Resolves, Applied
  <2>4. RunResolved'
    BY <1>4, <2>1, <2>3 DEF ApplySetup, RunResolved, CapturesSomething, Present, Captured, Resolved
  <2>5. QED
    BY <2>2, <2>4 DEF Latest
<1>5. CASE SendProbe
  BY <1>5, SendLatest DEF SendProbe
<1>6. CASE SendRequest
  BY <1>6, SendLatest, ActorsPresent DEF SendRequest
<1>7. CASE SendRead
  <2>1. Reader \in Present /\ "verification" \in Present
    BY <1>7, CasesAssumption DEF SendRead, Present, Parts, Requests
  <2>2. QED
    BY <1>7, <2>1, SendLatest DEF SendRead
<1>8. CASE SendReset
  <2>1. PICK actor \in tc.reset : Send("reset", actor, texts["reset"])
    BY <1>8 DEF SendReset
  <2>2. "reset" \in Present /\ actor \in Present
    BY <1>8, <2>1, CasesAssumption, ActorsPresent, CaseType
       DEF SendReset, Present, Parts, Requests, TypeOK
  <2>3. QED
    BY <2>1, <2>2, SendLatest
<1>9. CASE UNCHANGED state
  BY <1>9 DEF state, Latest, VarsLatest, RunResolved, CarriesLatest, IsLatest,
              CapturesSomething, Present, Captured, Resolved
<1>10. QED
  BY <1>1, <1>2, <1>3, <1>4, <1>5, <1>6, <1>7, <1>8, <1>9 DEF Next

\* Wherever a step captures anything, every request, credential and reset of the
\* case goes out with the values captured last, and every step's request with the
\* values captured last before it; no reference in them is sent as it stands.
THEOREM LatestValuesSent == Spec => []CarriesLatest
<1>1. Init => Latest
  <2>1. ASSUME Init PROVE Latest
    <3>1. tc \in Cases /\ at = 1 /\ vars = [n \in Names |-> 0] /\ pc = "setup" /\ sent = {}
      BY <2>1 DEF Init
    <3>2. \A j \in DOMAIN tc.steps : ~(j < 1)
      BY <3>1, CaseType
    <3>3. VarsLatest
      BY <3>1, <3>2 DEF VarsLatest, IsLatest
    <3>4. QED
      BY <3>1, <3>3 DEF Latest, RunResolved, CarriesLatest
  <2>2. QED
    BY <2>1
<1>2. TypeOK /\ Latest /\ [Next]_state => Latest'
  BY LatestKept
<1>3. Latest => CarriesLatest
  BY DEF Latest
<1>4. QED
  BY <1>1, <1>2, <1>3, TypeCorrect, PTL DEF Spec
=============================================================================
