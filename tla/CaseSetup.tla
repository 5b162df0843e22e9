------------------------------ MODULE CaseSetup ------------------------------
(***************************************************************************)
(* internal/engine/setup.go: what the setup steps of a test case capture,  *)
(* and where the captured values end up.  A text -- a request, a           *)
(* credential, an object id -- is reduced to the variables it references   *)
(* as {{name}}; a text as it is sent tells, for each of them, the step     *)
(* whose capture stands in its place, or 0 where the characters of the     *)
(* placeholder are sent themselves.                                        *)
(*                                                                         *)
(* EngineRun has the rest of the run; here it is any set of the exchanges  *)
(* of the case, in any order.                                              *)
(***************************************************************************)
EXTENDS Naturals, Sequences

CONSTANTS
  Ids,     \* identities under test
  Reader,  \* the identity that verifies writes
  Nobody,  \* the actor of a step or reset that names no identity
  Names,   \* variables, those nobody captures among them
  Cases    \* cases with setup that validate accepts

Step == [as : Ids \cup {Nobody}, uses : SUBSET Names, captures : SUBSET Names]

\* Parts of a case that may hold references: three requests, the object id, and
\* the credential of everyone who has one.
Requests == {"request", "verification", "reset"}
Parts == Requests \cup {"object_id"} \cup Ids \cup {Reader, Nobody}

Case ==
  [ steps : Seq(Step),
    uses : [Parts -> SUBSET Names],
    probed : SUBSET (Ids \cup {Reader}),  \* those with an identity preflight
    verify : BOOLEAN,
    reset : SUBSET (Ids \cup {Nobody}) ]  \* who resets the record, if anyone

ASSUME CasesAssumption ==
  /\ Cases \subseteq Case
  /\ \A c \in Cases : c.uses[Nobody] = {}
  /\ Reader \notin Ids /\ Nobody \notin Ids \cup {Reader}
  /\ (Ids \cup {Reader, Nobody}) \cap (Requests \cup {"object_id", "setup", "preflight"}) = {}

VARIABLES
  tc,     \* the test case
  pc,     \* "setup", "run" or "aborted"
  at,     \* the setup step to run next
  vars,   \* vars[n]: the step whose capture variable n holds, 0 before any
  texts,  \* texts[p]: the text of part p after substitution
  met,    \* history: the steps whose precondition was established
  sent    \* history: the exchanges, as they were sent

state == <<tc, pc, at, vars, texts, met, sent>>

Text == UNION { [refs -> Nat] : refs \in SUBSET Names }

\* A text nothing was substituted in.
Literal(refs) == [n \in refs |-> 0]

Captured == { n \in Names : vars[n] # 0 }

\* substitute: every reference is resolved, or it is an error.
Resolves(refs) == refs \subseteq Captured

Resolved(refs) == [n \in refs |-> vars[n]]

Exchange(phase, step, actor, text, credential) ==
  [phase |-> phase, step |-> step, actor |-> actor, text |-> text, credential |-> credential]

-----------------------------------------------------------------------------
(* Setup. *)

Abort == pc' = "aborted" /\ UNCHANGED <<tc, at, vars, texts, met>>

Bound(n, step) == IF n \in step.captures THEN at ELSE vars[n]

\* A variable no earlier step captured, or a body that is no JSON any more after
\* substitution: the step is not sent.
StepUnresolved ==
  /\ pc = "setup" /\ at \in DOMAIN tc.steps
  /\ Resolves(tc.steps[at].uses) => tc.steps[at].uses # {}
  /\ Abort
  /\ UNCHANGED sent

SendStep ==
  LET step == tc.steps[at]
  IN  sent' = sent \cup { Exchange("setup", at, step.as, Resolved(step.uses),
                                   Literal(tc.uses[step.as])) }

\* The step is sent by the identity as the case declares it.  It answers below
\* 400 and has a value for everything it captures.
StepMet ==
  /\ pc = "setup" /\ at \in DOMAIN tc.steps
  /\ Resolves(tc.steps[at].uses)
  /\ SendStep
  /\ vars' = [n \in Names |-> Bound(n, tc.steps[at])]
  /\ met' = met \cup {at}
  /\ at' = at + 1
  /\ UNCHANGED <<tc, pc, texts>>

\* Mutant: a failed step is passed over.
StepFailed_Degrades ==
  /\ pc = "setup" /\ at \in DOMAIN tc.steps
  /\ Resolves(tc.steps[at].uses)
  /\ SendStep
  /\ at' = at + 1
  /\ UNCHANGED <<tc, pc, vars, texts, met>>

\* An error, a status of 400 or more, or a missing value ends the run.
StepFailed ==
  /\ pc = "setup" /\ at \in DOMAIN tc.steps
  /\ Resolves(tc.steps[at].uses)
  /\ SendStep
  /\ Abort

-----------------------------------------------------------------------------
(* Substitution in the case. *)

\* Parts a case has.
Present == { p \in Parts : /\ p \in {"verification", Reader} => tc.verify
                           /\ p = "reset" => tc.verify /\ tc.reset # {} }

\* Mutant: the reader is left as it was declared.
Applied_NotReader(p) ==
  IF Captured = {} \/ p = Reader THEN Literal(tc.uses[p]) ELSE Resolved(tc.uses[p])

\* A case whose steps captured nothing is returned as it is.
Applied(p) == IF Captured = {} THEN Literal(tc.uses[p]) ELSE Resolved(tc.uses[p])

ApplySetup ==
  /\ pc = "setup" /\ at \notin DOMAIN tc.steps
  /\ Captured # {} => \A p \in Present : Resolves(tc.uses[p])
  /\ texts' = [p \in Present |-> Applied(p)]
  /\ pc' = "run"
  /\ UNCHANGED <<tc, at, vars, met, sent>>

\* A part that does not resolve, or a request whose body is no JSON any more.
ApplyFails ==
  /\ pc = "setup" /\ at \notin DOMAIN tc.steps
  /\ Captured # {}
  /\ \E p \in Present : Resolves(tc.uses[p]) => p \in Requests /\ tc.uses[p] # {}
  /\ Abort
  /\ UNCHANGED sent

-----------------------------------------------------------------------------
(* The run. *)

Send(phase, actor, text) ==
  /\ pc = "run"
  /\ sent' = sent \cup { Exchange(phase, at, actor, text, texts[actor]) }
  /\ UNCHANGED <<tc, pc, at, vars, texts, met>>

\* A probe's URL holds no references.
SendProbe == \E id \in tc.probed \cap Present : Send("preflight", id, Literal({}))
SendRequest == \E id \in Ids : Send("request", id, texts["request"])
SendRead == tc.verify /\ Send("verification", Reader, texts["verification"])
SendReset == tc.verify /\ \E actor \in tc.reset : Send("reset", actor, texts["reset"])

Init ==
  /\ tc \in Cases
  /\ pc = "setup" /\ at = 1
  /\ vars = [n \in Names |-> 0]
  /\ texts = [p \in {} |-> Literal({})]
  /\ met = {} /\ sent = {}

Next ==
  \/ StepUnresolved \/ StepMet \/ StepFailed \/ ApplySetup \/ ApplyFails
  \/ SendProbe \/ SendRequest \/ SendRead \/ SendReset

Spec == Init /\ [][Next]_state

-----------------------------------------------------------------------------
(* Properties. *)

TypeOK ==
  /\ tc \in Cases
  /\ pc \in {"setup", "run", "aborted"}
  /\ at \in 1..(Len(tc.steps) + 1)
  /\ vars \in [Names -> 0..Len(tc.steps)]
  /\ pc = "run" => texts \in [Present -> Text]
  /\ met \subseteq DOMAIN tc.steps
  /\ \A m \in sent : m.step \in 1..(Len(tc.steps) + 1) /\ m.text \in Text /\ m.credential \in Text

\* Step i is the latest before step k that captures n; 0: there is none.
IsLatest(i, n, k) ==
  /\ i = 0 \/ (i \in DOMAIN tc.steps /\ i < k /\ n \in tc.steps[i].captures)
  /\ \A j \in DOMAIN tc.steps : i < j /\ j < k => n \notin tc.steps[j].captures

CapturesSomething == \E i \in DOMAIN tc.steps : tc.steps[i].captures # {}

\* Every request goes out with the values captured last before it, all parts of
\* the case with the same ones: the request of a step always, and where anything
\* was captured every request, credential and reset of the case.
CarriesLatest ==
  \A m \in sent :
    m.phase = "setup" \/ CapturesSomething =>
      /\ \A n \in DOMAIN m.text : m.text[n] # 0 /\ IsLatest(m.text[n], n, m.step)
      /\ m.phase # "setup" => \A n \in DOMAIN m.credential :
           m.credential[n] # 0 /\ IsLatest(m.credential[n], n, m.step)

\* A failed step aborts the run: no step is sent after one that did not establish
\* its precondition, and nothing of the case unless all of them did.
OnlyAfterSetup ==
  \A m \in sent : \A i \in DOMAIN tc.steps : i < m.step => i \in met

\* setup.go:203-205 on substitution: "An unknown variable is an error: silently
\* leaving the placeholder in place would send the literal characters and produce
\* a misleading result."  The credential of a step's identity is never
\* substituted, and nothing is where no step captured anything (see README).
NoPlaceholderSent ==
  \A m \in sent : /\ \A n \in DOMAIN m.text : m.text[n] # 0
                  /\ \A n \in DOMAIN m.credential : m.credential[n] # 0
=============================================================================
