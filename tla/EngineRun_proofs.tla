--------------------------- MODULE EngineRun_proofs ---------------------------
(***************************************************************************)
(* What EngineRun promises for every set of identities, cases, values and  *)
(* statuses, and for every target.                                         *)
(***************************************************************************)
EXTENDS EngineRun, CountingLemmas

-----------------------------------------------------------------------------
(* Types of what the engine computes. *)

\* What the case and the constants are made of.
LEMMA CaseType ==
  ASSUME TypeOK
  PROVE  /\ tc.order \in Seq(Ids)
         /\ \A i \in DOMAIN tc.order : tc.order[i] \in Ids
         /\ tc.afterStatus \subseteq 200..599
         /\ Statuses \subseteq 200..599
<1>1. tc \in Case
  BY CasesAssumption DEF TypeOK
<1>2. tc.order \in Seq(Ids) /\ tc.afterStatus \in SUBSET (400..499)
  BY <1>1, ZenonT(60) DEF Case
<1>3. tc.afterStatus \subseteq 200..599
  <2>1. ASSUME NEW x \in tc.afterStatus PROVE x \in 200..599
    <3>1. x \in 400..499
      BY <1>2
    <3>2. QED
      BY <3>1
  <2>2. QED
    BY <2>1
<1>4. \A i \in DOMAIN tc.order : tc.order[i] \in Ids
  BY <1>2
<1>5. QED
  BY <1>2, <1>3, <1>4, CasesAssumption

LEMMA ShownType ==
  ASSUME TypeOK
  PROVE  Shown \subseteq States
<1>1. record \in States /\ world.first \in States
  BY DEF TypeOK, Worlds
<1>2. CASE world.oracle = "record"
  BY <1>1, <1>2 DEF Shown
<1>3. CASE world.oracle = "constant"
  BY <1>1, <1>3 DEF Shown
<1>4. CASE world.oracle = "clock"
  BY <1>4 DEF Shown, States
<1>5. QED
  BY <1>2, <1>3, <1>4, OraclesAssumption DEF TypeOK, Worlds

\* A read shows a status of HTTP or none, and a value or none.
LEMMA ReadsType ==
  ASSUME TypeOK, NEW read \in Reads
  PROVE  /\ read.status \in (200..599) \cup {NoStatus}
         /\ read.value \in States \cup {NoValue}
<1>1. CASE read \in GoodReads
  <2>1. PICK v \in Shown :
          read \in IF v = Absent THEN { [status |-> 404, value |-> NoValue] }
                  ELSE IF tc.afterStatus # {} /\ v # world.first
                       THEN { [status |-> s, value |-> NoValue] : s \in tc.afterStatus }
                       ELSE { [status |-> s, value |-> v] : s \in Statuses \cap Success }
    BY <1>1 DEF GoodReads
  <2>2. CASE v = Absent
    BY <2>1, <2>2
  <2>3. CASE v # Absent /\ tc.afterStatus # {} /\ v # world.first
    <3>1. PICK s \in tc.afterStatus : read = [status |-> s, value |-> NoValue]
      BY <2>1, <2>3
    <3>2. s \in 200..599
      <4>1. tc.afterStatus \subseteq 200..599
        BY CaseType, ZenonT(60)
      <4>2. QED
        BY <4>1
    <3>3. read.status = s /\ read.value = NoValue
      BY <3>1
    <3>4. QED
      BY <3>2, <3>3
  <2>4. CASE v # Absent /\ ~(tc.afterStatus # {} /\ v # world.first)
    <3>1. PICK s \in Statuses \cap Success : read = [status |-> s, value |-> v]
      BY <2>1, <2>4
    <3>2. s \in 200..599 /\ v \in States
      BY CaseType, ShownType
    <3>3. QED
      BY <3>1, <3>2
  <2>5. QED
    BY <2>2, <2>3, <2>4
<1>2. CASE read \in BadReads
  BY <1>2, CaseType, SMTT(30) DEF BadReads
<1>3. QED
  BY <1>1, <1>2 DEF Reads

LEMMA StateOfType ==
  ASSUME TypeOK, NEW read \in Reads
  PROVE  StateOf(read) \in Observation
BY ReadsType DEF StateOf, Observation

LEMMA NoStateType == NoState \in Observation
BY DEF NoState, Observation

LEMMA NoExecType == NoExec \in Execution
BY DEF NoExec, Execution, Lookups

LEMMA ConclusionType ==
  \A s, read : Conclusion(s, read) \in {"allowed", "denied", "inconclusive"}
BY DEF Conclusion, Unsettled

LEMMA DemotedType ==
  \A id, s, d : Demoted(id, s, d) \in {d, "inconclusive"}
BY DEF Demoted

LEMMA EffectType ==
  ASSUME TypeOK, NEW id \in Ids, NEW s, Effect(id, s)
  PROVE  record' \in States /\ late' \in {"never", "pending", "landed"}
BY DEF TypeOK, Effect, Worlds

LEMMA AnswersType == \A id : AnswersTo(id) \subseteq Statuses \cup {NoStatus}
BY DEF AnswersTo, Answers

\* The identity whose turn it is is one of the case's.
LEMMA CurrentType ==
  ASSUME TypeOK, pc \in {"reset", "before", "again", "write", "after"}
  PROVE  Current \in Ids /\ at \in DOMAIN tc.order
BY CaseType DEF TypeOK, Current

LEMMA ConcludedType ==
  ASSUME TypeOK, NEW id \in Ids, NEW recorded
  PROVE  Concluded(id, recorded) \in Decisions \cup {"none"}
<1>1. Assessed(id, recorded) \in Decisions
  BY DEF Assessed, Decisions
<1>2. CASE Verified(id)
  BY <1>2 DEF TypeOK, Concluded, Guarded, Decisions
<1>3. CASE ~Verified(id)
  BY <1>1, <1>3, DemotedType DEF Concluded, Decisions
<1>4. QED
  BY <1>2, <1>3

LEMMA FindingType ==
  ASSUME NEW id \in Ids, NEW d, NEW again
  PROVE  FindingOf(id, d, again) \subseteq Ids \X {"unexpected_access", "authorization_mismatch"}
BY DEF FindingOf

-----------------------------------------------------------------------------
(* Types are kept by every step. *)

Outcomes == {"none", "allowed", "denied", "inconclusive"}

\* Ending a turn keeps the types of what it writes.
LEMMA EndTurnType ==
  ASSUME TypeOK, NEW id \in Ids, NEW execution \in Execution, NEW d \in Outcomes,
         EndTurn(id, execution, d)
  PROVE  /\ exec' \in [Ids -> Execution] /\ verdict' \in [Ids -> Outcomes]
         /\ before' \in Observation /\ pc' = "turn"
         /\ tc' = tc /\ probes' = probes /\ assessment' = assessment /\ findings' = findings
BY NoStateType DEF EndTurn, TypeOK, Outcomes

LEMMA WithholdType ==
  ASSUME TypeOK, NEW id \in Ids, Withhold(id)
  PROVE  /\ exec' \in [Ids -> Execution] /\ verdict' \in [Ids -> Outcomes]
         /\ before' \in Observation /\ pc' = "turn"
         /\ tc' = tc /\ probes' = probes /\ assessment' = assessment /\ findings' = findings
         /\ baseline' = baseline /\ wrote' = wrote
<1>1. EndTurn(id, NoExec, "inconclusive") /\ baseline' = baseline /\ wrote' = wrote
  BY DEF Withhold
<1>2. QED
  BY <1>1, EndTurnType, NoExecType DEF Outcomes

LEMMA TypeBeforeTurns ==
  ASSUME TypeOK, SetupStep \/ ApplySetup \/ Probe \/ EndPreflight
  PROVE  TypeOK'
<1>1. CASE SetupStep
  BY <1>1 DEF TypeOK, SetupStep, Abort, server
<1>2. CASE ApplySetup
  BY <1>2 DEF TypeOK, ApplySetup, Abort, server
<1>3. CASE Probe
  <2>1. probes' \in [Ids \cup {Reader} -> {"unsent", "passed", "failed"}]
    <3>1. PICK id \in ToProbe, result \in {"passed", "failed"} :
            probes' = [probes EXCEPT ![id] = result]
      BY <1>3 DEF Probe
    <3>2. probes \in [Ids \cup {Reader} -> {"unsent", "passed", "failed"}]
      BY DEF TypeOK
    <3>3. QED
      BY <3>1, <3>2
  <2>2. QED
    BY <1>3, <2>1 DEF TypeOK, Probe, server
<1>4. CASE EndPreflight
  <2>1. assessment' \in [Ids -> Decisions \cup {"none"}]
    BY <1>4 DEF TypeOK, EndPreflight, Decisions
  <2>2. pc' \in {"turn", "done"}
    BY <1>4 DEF EndPreflight
  <2>3. QED
    BY <1>4, <2>1, <2>2 DEF TypeOK, EndPreflight, server
<1>5. QED
  BY <1>1, <1>2, <1>3, <1>4

LEMMA TypeStarts ==
  ASSUME TypeOK, SendPlain \/ StartVerified \/ Reset
  PROVE  TypeOK'
<1>1. CASE SendPlain
  <2>1. PICK i \in DOMAIN tc.order, s \in Statuses \cup {NoStatus}, refusal \in Lookups,
             matched \in SUBSET {"allow", "deny"} :
          /\ EndTurn(tc.order[i], [status |-> s, refusal |-> refusal, matched |-> matched,
                                   sent |-> TRUE], "none")
          /\ Effect(tc.order[i], s)
    BY <1>1, AnswersType DEF SendPlain
  <2>2. tc.order[i] \in Ids
    BY CaseType
  <2>3. [status |-> s, refusal |-> refusal, matched |-> matched, sent |-> TRUE] \in Execution
    BY DEF Execution
  <2>4. record' \in States /\ late' \in {"never", "pending", "landed"}
    BY <2>1, <2>2, EffectType
  <2>5. /\ exec' \in [Ids -> Execution] /\ verdict' \in [Ids -> Outcomes]
        /\ before' \in Observation /\ pc' = "turn"
        /\ tc' = tc /\ probes' = probes /\ assessment' = assessment /\ findings' = findings
    BY <2>1, <2>2, <2>3, EndTurnType DEF Outcomes
  <2>6. QED
    BY <1>1, <2>4, <2>5 DEF TypeOK, SendPlain, Outcomes
<1>2. CASE StartVerified
  <2>1. PICK i \in DOMAIN tc.order :
          /\ at' = i
          /\ IF cancelled THEN Withhold(tc.order[i])
             ELSE /\ Goto(IF tc.reset THEN "reset" ELSE "before")
                  /\ UNCHANGED <<before, baseline, wrote>>
    BY <1>2 DEF StartVerified
  <2>2. tc.order[i] \in Ids /\ i \in Nat \ {0}
    BY CaseType
  <2>3. UNCHANGED <<cancelled, server>>
    BY <1>2 DEF StartVerified
  <2>4. CASE cancelled
    BY <2>1, <2>2, <2>3, <2>4, WithholdType DEF TypeOK, server, Outcomes
  <2>5. CASE ~cancelled
    BY <2>1, <2>2, <2>3, <2>5 DEF TypeOK, server, Goto
  <2>6. QED
    BY <2>4, <2>5
<1>3. CASE Reset
  <2>1. Current \in Ids /\ at \in DOMAIN tc.order
    BY <1>3, CurrentType DEF Reset
  <2>2. record' \in States
    BY <1>3 DEF Reset, TypeOK, Worlds
  <2>3. UNCHANGED <<at, cancelled, world, late, foreign>>
    BY <1>3 DEF Reset
  <2>4. CASE Goto("before") /\ UNCHANGED <<before, baseline, wrote>>
    BY <2>1, <2>2, <2>3, <2>4 DEF TypeOK, Goto
  <2>5. CASE Withhold(Current)
    BY <2>1, <2>2, <2>3, <2>5, WithholdType DEF TypeOK, Outcomes
  <2>6. QED
    BY <1>3, <2>4, <2>5 DEF Reset
<1>4. QED
  BY <1>1, <1>2, <1>3

LEMMA TypeReads ==
  ASSUME TypeOK, ReadBefore \/ ReadAgain \/ ReadAfter
  PROVE  TypeOK'
<1>1. Current \in Ids /\ at \in DOMAIN tc.order
  BY CurrentType DEF ReadBefore, ReadAgain, ReadAfter
<1>2. UNCHANGED <<at, cancelled, server>>
  BY DEF ReadBefore, ReadAgain, ReadAfter
<1>3. CASE Withhold(Current)
  BY <1>1, <1>2, <1>3, WithholdType DEF TypeOK, server, Outcomes
<1>4. ASSUME NEW read \in Reads, Goto("again"), before' = StateOf(read),
             UNCHANGED <<baseline, wrote>>
      PROVE  TypeOK'
  <2>1. before' \in Observation
    BY <1>4, StateOfType
  <2>2. QED
    BY <1>1, <1>2, <1>4, <2>1 DEF TypeOK, server, Goto
<1>5. ASSUME Goto("write"), UNCHANGED <<before, wrote>>, baseline' \in {before, baseline}
      PROVE  TypeOK'
  BY <1>1, <1>2, <1>5 DEF TypeOK, server, Goto
<1>6. ASSUME NEW d \in Outcomes, EndTurn(Current, exec[Current], d), UNCHANGED <<baseline, wrote>>
      PROVE  TypeOK'
  <2>1. exec[Current] \in Execution
    BY <1>1 DEF TypeOK
  <2>2. QED
    BY <1>1, <1>2, <1>6, <2>1, EndTurnType DEF TypeOK, server, Outcomes
<1>7. CASE ReadBefore
  BY <1>3, <1>4, <1>7 DEF ReadBefore
<1>8. CASE ReadAgain
  BY <1>3, <1>5, <1>8 DEF ReadAgain
<1>9. CASE ReadAfter
  <2>1. \A s, read : Demoted(Current, s, Conclusion(s, read)) \in Outcomes
    BY ConclusionType, DemotedType DEF Outcomes
  <2>2. "inconclusive" \in Outcomes
    BY DEF Outcomes
  <2>3. QED
    BY <1>6, <1>9, <2>1, <2>2 DEF ReadAfter
<1>10. QED
  BY <1>7, <1>8, <1>9

LEMMA TypeEnds ==
  ASSUME TypeOK, SendWrite \/ Conclude
  PROVE  TypeOK'
<1>1. CASE SendWrite
  <2>1. Current \in Ids /\ at \in DOMAIN tc.order
    BY <1>1, CurrentType DEF SendWrite
  <2>2. PICK s \in Statuses \cup {NoStatus} :
          /\ Effect(Current, s)
          /\ exec' = [exec EXCEPT ![Current] = [NoExec EXCEPT !.status = s, !.sent = TRUE]]
    BY <1>1, AnswersType DEF SendWrite
  <2>3. record' \in States /\ late' \in {"never", "pending", "landed"}
    BY <2>1, <2>2, EffectType
  <2>4. [NoExec EXCEPT !.status = s, !.sent = TRUE] \in Execution
    BY DEF NoExec, Execution, Lookups
  <2>5. exec' \in [Ids -> Execution]
    BY <2>2, <2>4 DEF TypeOK
  <2>6. wrote' \in [Ids -> [from : States \cup {NoValue}, to : States \cup {NoValue}]]
    BY <1>1, <2>3 DEF SendWrite, TypeOK
  <2>7. QED
    BY <1>1, <2>1, <2>3, <2>5, <2>6 DEF SendWrite, TypeOK
<1>2. CASE Conclude
  <2>1. assessment' \in [Ids -> Decisions \cup {"none"}]
    BY <1>2, ConcludedType DEF Conclude
  <2>2. findings' \subseteq Ids \X {"unexpected_access", "authorization_mismatch"}
    BY <1>2, FindingType DEF Conclude
  <2>3. QED
    BY <1>2, <2>1, <2>2 DEF TypeOK, Conclude, server
<1>3. QED
  BY <1>1, <1>2

LEMMA TypeAround ==
  ASSUME TypeOK, Cancel \/ TakeEffect \/ ForeignChange \/ UNCHANGED vars
  PROVE  TypeOK'
<1>1. CASE Cancel
  BY <1>1 DEF TypeOK, Cancel, run, server
<1>2. CASE TakeEffect
  BY <1>2 DEF TypeOK, TakeEffect, run, Worlds
<1>3. CASE ForeignChange
  <2>1. foreign' \in 0..MaxForeign
    BY <1>3, CasesAssumption DEF TypeOK, ForeignChange
  <2>2. QED
    BY <1>3, <2>1 DEF TypeOK, ForeignChange, run
<1>4. CASE UNCHANGED vars
  BY <1>4 DEF TypeOK, vars, run, server
<1>5. QED
  BY <1>1, <1>2, <1>3, <1>4

LEMMA TypeStep ==
  ASSUME TypeOK, [Next]_vars
  PROVE  TypeOK'
BY TypeBeforeTurns, TypeStarts, TypeReads, TypeEnds, TypeAround DEF Next, Step

LEMMA InitType ==
  ASSUME Init
  PROVE  TypeOK
<1>1. world \in Worlds /\ record \in States
  BY DEF Init, Worlds
<1>2. before \in Observation /\ baseline \in Observation /\ exec \in [Ids -> Execution]
  BY NoStateType, NoExecType DEF Init
<1>3. wrote \in [Ids -> [from : States \cup {NoValue}, to : States \cup {NoValue}]]
  BY DEF Init, NotSent
<1>4. foreign \in 0..MaxForeign
  BY CasesAssumption DEF Init
<1>5. /\ tc \in Cases /\ cancelled \in BOOLEAN
      /\ pc \in {"setup", "aborted"} /\ late = "never" /\ findings = {}
  <2>1. pc = "setup" \/ pc = "aborted"
    BY DEF Init
  <2>2. QED
    BY <2>1 DEF Init
<1>6. at \in Nat \ {0}
  BY DEF Init
<1>7. /\ probes \in [Ids \cup {Reader} -> {"unsent", "passed", "failed"}]
      /\ verdict \in [Ids -> {"none", "allowed", "denied", "inconclusive"}]
      /\ assessment \in [Ids -> Decisions \cup {"none"}]
  BY DEF Init
<1>8. QED
  BY <1>1, <1>2, <1>3, <1>4, <1>5, <1>6, <1>7 DEF TypeOK

\* Every variable of the engine keeps its type in every run: every probe, verdict
\* and execution belongs to an identity, and an open turn to one the case declares.
THEOREM TypeCorrect == Spec => []TypeOK
BY InitType, TypeStep, PTL DEF Spec

-----------------------------------------------------------------------------
(* No request before the probes. *)

Turns == {"turn", "reset", "before", "again", "write", "after"}

\* Nobody has sent anything before the first turn, and turns start only when every
\* probe has passed; after that no probe is sent any more.
ProbesFirst ==
  /\ pc \notin Turns \cup {"done"} => \A id \in Ids : ~exec[id].sent
  /\ pc \in Turns => \A id \in ToProbe : probes[id] = "passed"
  /\ ProbedBeforeSent

\* Steps that leave the probes alone and end in a turn or the result keep it.
LEMMA ProbesStay ==
  ASSUME ProbesFirst, tc' = tc, probes' = probes,
         pc \in Turns, pc' \in Turns \cup {"done"}
  PROVE  ProbesFirst'
BY DEF ProbesFirst, ProbedBeforeSent, ToProbe, Turns, Declared

LEMMA ProbesFirstStep ==
  ASSUME TypeOK, ProbesFirst, [Next]_vars
  PROVE  ProbesFirst'
<1>1. CASE SetupStep \/ ApplySetup
  BY <1>1 DEF SetupStep, ApplySetup, Abort, ProbesFirst, ProbedBeforeSent, Turns, ToProbe, Declared
<1>2. CASE Probe
  BY <1>2 DEF Probe, ProbesFirst, ProbedBeforeSent, Turns
<1>3. CASE EndPreflight
  BY <1>3 DEF EndPreflight, Ready, ProbesFirst, ProbedBeforeSent, Turns, ToProbe, Declared
<1>4. CASE SendPlain
  BY <1>4, ProbesStay DEF SendPlain, EndTurn, Turns
<1>5. CASE StartVerified
  BY <1>5, ProbesStay DEF StartVerified, Withhold, EndTurn, Goto, Turns
<1>6. CASE Reset
  BY <1>6, ProbesStay DEF Reset, Withhold, EndTurn, Goto, Turns
<1>7. CASE ReadBefore \/ ReadAgain
  BY <1>7, ProbesStay DEF ReadBefore, ReadAgain, Withhold, EndTurn, Goto, Turns
<1>8. CASE SendWrite
  BY <1>8, ProbesStay DEF SendWrite, Turns
<1>9. CASE ReadAfter
  BY <1>9, ProbesStay DEF ReadAfter, EndTurn, Turns
<1>10. CASE Conclude
  BY <1>10, ProbesStay DEF Conclude, Turns
<1>11. CASE Cancel \/ TakeEffect \/ ForeignChange \/ UNCHANGED vars
  BY <1>11 DEF Cancel, TakeEffect, ForeignChange, vars, run,
               ProbesFirst, ProbedBeforeSent, Turns, ToProbe, Declared
<1>12. QED
  BY <1>1, <1>2, <1>3, <1>4, <1>5, <1>6, <1>7, <1>8, <1>9, <1>10, <1>11 DEF Next, Step

\* No identity's request leaves before every probe of the case has passed, however
\* many probes there are and whichever of them fails or is cancelled.
THEOREM ProbesBeforeRequests == Spec => []ProbedBeforeSent
<1>1. Init => ProbesFirst
  BY DEF Init, ProbesFirst, ProbedBeforeSent, NoExec, Turns
<1>2. TypeOK /\ ProbesFirst /\ [Next]_vars => ProbesFirst'
  BY ProbesFirstStep
<1>3. ProbesFirst => ProbedBeforeSent
  BY DEF ProbesFirst
<1>4. QED
  BY <1>1, <1>2, <1>3, TypeCorrect, PTL DEF Spec

-----------------------------------------------------------------------------
(* Cancellation. *)

LEMMA EndTurnJudges ==
  ASSUME TypeOK, NEW id \in Ids, NEW execution, NEW d \in {"none", "inconclusive"},
         EndTurn(id, execution, d), NEW other \in Ids, verdict'[other] # verdict[other]
  PROVE  verdict'[other] \in {"none", "inconclusive"}
BY DEF EndTurn, TypeOK

LEMMA CancelledStep ==
  ASSUME TypeOK, [Next]_vars, cancelled,
         NEW other \in Ids, verdict'[other] # verdict[other]
  PROVE  verdict'[other] \in {"none", "inconclusive"}
<1>1. CASE SendPlain
  <2>1. PICK i \in DOMAIN tc.order : \E e : EndTurn(tc.order[i], e, "none")
    BY <1>1 DEF SendPlain
  <2>2. PICK e : EndTurn(tc.order[i], e, "none")
    BY <2>1
  <2>3. QED
    BY <2>2, CaseType, EndTurnJudges
<1>2. CASE StartVerified
  <2>1. PICK i \in DOMAIN tc.order : Withhold(tc.order[i])
    BY <1>2 DEF StartVerified
  <2>2. QED
    BY <2>1, CaseType, EndTurnJudges DEF Withhold
<1>3. CASE Reset
  <2>1. Withhold(Current)
    BY <1>3 DEF Reset, Goto
  <2>2. QED
    BY <1>3, <2>1, CurrentType, EndTurnJudges DEF Withhold, Reset
<1>4. CASE ReadBefore \/ ReadAgain
  <2>1. Withhold(Current)
    BY <1>4 DEF ReadBefore, ReadAgain
  <2>2. QED
    BY <1>4, <2>1, CurrentType, EndTurnJudges DEF Withhold, ReadBefore, ReadAgain
<1>5. CASE ReadAfter
  <2>1. EndTurn(Current, exec[Current], "inconclusive")
    BY <1>5 DEF ReadAfter
  <2>2. QED
    BY <1>5, <2>1, CurrentType, EndTurnJudges DEF ReadAfter
<1>6. CASE SetupStep \/ ApplySetup \/ Probe \/ EndPreflight \/ SendWrite \/ Conclude
  BY <1>6 DEF SetupStep, ApplySetup, Abort, Probe, EndPreflight, SendWrite, Conclude
<1>7. CASE Cancel \/ TakeEffect \/ ForeignChange \/ UNCHANGED vars
  BY <1>7 DEF Cancel, TakeEffect, ForeignChange, run, vars
<1>8. QED
  BY <1>1, <1>2, <1>3, <1>4, <1>5, <1>6, <1>7 DEF Next, Step

\* Once the context of the run is cancelled no verified write is judged allowed or
\* denied, at whichever exchange of which turn the cancellation arrived.
THEOREM CancellationJudgesNothing == Spec => CancelledJudgesNothing
<1>1. TypeOK /\ [Next]_vars =>
        [cancelled => \A id \in Ids : verdict'[id] # verdict[id] =>
           verdict'[id] \in {"none", "inconclusive"}]_vars
  BY CancelledStep
<1>2. QED
  BY <1>1, TypeCorrect, PTL DEF Spec, CancelledJudgesNothing

-----------------------------------------------------------------------------
(* One conclusion per expectation. *)

Judgement(id) ==
  /\ SameObservation(id) =>
       /\ <<id, "unexpected_access">> \in findings
            <=> tc.expect[id] = "deny" /\ assessment[id] = "allowed"
       /\ <<id, "authorization_mismatch">> \in findings
            <=> tc.expect[id] = "allow" /\ assessment[id] = "denied"
  /\ Judged(tc, id) <=> assessment[id] # "skipped"

\* What is concluded about id, and found of it, from one lookup and another.
First(id, refused) == Concluded(id, Recorded(exec[id], refused))
Again(id, refused, looked) == FindingOf(id, First(id, refused), Outcome(exec[id], looked))

\* Without verification and assertions the assessment follows the outcome of the
\* first lookup, except that a denial may be demoted.
LEMMA AssessedAsRecorded ==
  ASSUME NEW id \in Ids, ~Verified(id), id \notin tc.asserted, NEW refused
  PROVE  /\ tc.expect[id] = "deny" =>
              (Outcome(exec[id], refused) = "allowed" <=> First(id, refused) = "allowed")
         /\ tc.expect[id] = "allow" =>
              (Outcome(exec[id], refused) = "denied" <=> First(id, refused) = "denied")
BY DEF First, Concluded, Assessed, Recorded, Demoted, Judged, Outcome

\* Where verification or an assertion decided, the finding follows the assessment;
\* elsewhere it follows the outcome of the second lookup, which says the same where
\* the body can be classified in one way only.
LEMMA ObservedAlike ==
  ASSUME NEW id \in Ids, SameObservation(id),
         NEW refused \in exec[id].refusal, NEW looked \in exec[id].refusal
  PROVE  /\ <<id, "unexpected_access">> \in Again(id, refused, looked)
              <=> tc.expect[id] = "deny" /\ First(id, refused) = "allowed"
         /\ <<id, "authorization_mismatch">> \in Again(id, refused, looked)
              <=> tc.expect[id] = "allow" /\ First(id, refused) = "denied"
<1>1. CASE Verified(id) \/ id \in tc.asserted
  BY <1>1 DEF Again, FindingOf
<1>2. CASE ~Verified(id) /\ id \notin tc.asserted
  <2>1. Outcome(exec[id], looked) = Outcome(exec[id], refused)
    BY <1>2 DEF SameObservation
  <2>2. QED
    BY <1>2, <2>1, AssessedAsRecorded DEF Again, FindingOf
<1>3. QED
  BY <1>1, <1>2

LEMMA SkippedMeansUnjudged ==
  ASSUME TypeOK, NEW id \in Ids, NEW recorded
  PROVE  Judged(tc, id) <=> Concluded(id, recorded) # "skipped"
<1>1. CASE Verified(id)
  BY <1>1 DEF TypeOK, Concluded, Guarded, Verified
<1>2. CASE ~Verified(id)
  BY <1>2 DEF Concluded, Assessed, Demoted, Judged
<1>3. QED
  BY <1>1, <1>2

\* What the end of a run writes, from two lookups of every body.
LEMMA ConcludeWrites ==
  ASSUME Conclude
  PROVE  \E first, again \in Looked :
           /\ assessment' = [id \in Ids |-> First(id, first[id])]
           /\ findings' = UNION { Again(id, first[id], again[id]) : id \in Ids }
           /\ \A id \in Ids : first[id] \in exec[id].refusal /\ again[id] \in exec[id].refusal
BY DEF Conclude, First, Again, Looked

LEMMA ConcludeJudges ==
  ASSUME TypeOK, Conclude, NEW id \in Ids
  PROVE  Judgement(id)'
<1>1. PICK first, again \in Looked :
        /\ assessment' = [j \in Ids |-> First(j, first[j])]
        /\ findings' = UNION { Again(j, first[j], again[j]) : j \in Ids }
        /\ first[id] \in exec[id].refusal /\ again[id] \in exec[id].refusal
  BY ConcludeWrites
<1>2. \A category : <<id, category>> \in findings' <=>
                      <<id, category>> \in Again(id, first[id], again[id])
  <2>1. \A j, category, r, l : <<id, category>> \in Again(j, r, l) => j = id
    BY DEF Again, FindingOf
  <2>2. \A category : <<id, category>> \in findings' <=>
                        \E j \in Ids : <<id, category>> \in Again(j, first[j], again[j])
    BY <1>1
  <2>3. QED
    BY <2>1, <2>2
<1>3. assessment'[id] = First(id, first[id])
  BY <1>1
<1>4. Judged(tc, id) <=> First(id, first[id]) # "skipped"
  BY SkippedMeansUnjudged DEF First
<1>5. tc' = tc /\ exec' = exec
  BY DEF Conclude
<1>6. SameObservation(id)' => SameObservation(id)
  BY <1>5 DEF SameObservation, Verified, Judged, Outcome
<1>7. SameObservation(id) =>
        /\ <<id, "unexpected_access">> \in findings'
             <=> tc.expect[id] = "deny" /\ assessment'[id] = "allowed"
        /\ <<id, "authorization_mismatch">> \in findings'
             <=> tc.expect[id] = "allow" /\ assessment'[id] = "denied"
  BY <1>1, <1>2, <1>3, ObservedAlike
<1>8. QED
  BY <1>3, <1>4, <1>5, <1>6, <1>7 DEF Judgement, Judged

\* There are no findings before the end.
OneConclusion ==
  /\ pc # "done" => findings = {}
  /\ JudgedOnce

LEMMA OneConclusionStep ==
  ASSUME TypeOK, OneConclusion, [Next]_vars
  PROVE  OneConclusion'
<1>1. CASE Conclude
  <2>1. pc' = "done"
    BY <1>1 DEF Conclude
  <2>2. QED
    BY <1>1, <2>1, ConcludeJudges DEF OneConclusion, JudgedOnce, Judgement
<1>2. CASE EndPreflight
  <2>1. findings' = {} /\ tc' = tc
    BY <1>2 DEF EndPreflight, OneConclusion
  <2>2. pc' = "done" => \A id \in Ids :
          /\ assessment'[id] \notin {"allowed", "denied"}
          /\ Judged(tc, id) <=> assessment'[id] # "skipped"
    BY <1>2 DEF EndPreflight
  <2>3. QED
    BY <2>1, <2>2 DEF OneConclusion, JudgedOnce, Judged
<1>3. CASE SetupStep \/ ApplySetup \/ Probe
  BY <1>3 DEF SetupStep, ApplySetup, Abort, Probe, OneConclusion, JudgedOnce
<1>4. CASE SendPlain \/ StartVerified \/ Reset \/ ReadBefore \/ ReadAgain \/ SendWrite \/ ReadAfter
  <2>1. pc # "done" /\ pc' # "done" /\ findings' = findings
    BY <1>4 DEF SendPlain, StartVerified, Reset, ReadBefore, ReadAgain, SendWrite, ReadAfter,
                Withhold, EndTurn, Goto
  <2>2. QED
    BY <2>1 DEF OneConclusion, JudgedOnce
<1>5. CASE Cancel \/ TakeEffect \/ ForeignChange \/ UNCHANGED vars
  <2>1. UNCHANGED <<tc, pc, exec, assessment, findings>>
    BY <1>5 DEF Cancel, TakeEffect, ForeignChange, run, vars
  <2>2. \A id \in Ids : SameObservation(id)' <=> SameObservation(id)
    BY <2>1 DEF SameObservation, Verified, Judged, Outcome
  <2>3. QED
    BY <2>1, <2>2 DEF OneConclusion, JudgedOnce, Judged
<1>6. QED
  BY <1>1, <1>2, <1>3, <1>4, <1>5 DEF Next, Step

\* In every result each expectation is met, contradicted by exactly the finding of
\* its category, or inconclusive, whether a status, a refusal in the body, an
\* assertion or a verified write decided it -- except that finding and assessment
\* may contradict each other for a body that two lookups of the declared refusal
\* read differently.
THEOREM EveryExpectationJudgedOnce == Spec => []JudgedOnce
<1>1. Init => OneConclusion
  BY DEF Init, OneConclusion, JudgedOnce
<1>2. TypeOK /\ OneConclusion /\ [Next]_vars => OneConclusion'
  BY OneConclusionStep
<1>3. OneConclusion => JudgedOnce
  BY DEF OneConclusion
<1>4. QED
  BY <1>1, <1>2, <1>3, TypeCorrect, PTL DEF Spec

-----------------------------------------------------------------------------
(* Dead credentials. *)

\* A dead credential is only ever answered with 401 or not at all, no dead identity
\* is anonymous, and verification never judged one denied.
DeadNeverDenied ==
  /\ world.dead \cap tc.anonymous = {}
  /\ \A id \in world.dead \cap Ids : exec[id].status \in {401, NoStatus}
  /\ ~tc.unauthorizedIsDenial =>
       \A id \in world.dead \cap Ids : tc.expect[id] = "deny" => verdict[id] # "denied"
  /\ DeadTokenProtectsNothing

\* A turn that ends with a fitting execution and no denial keeps it.
LEMMA DeadEndTurn ==
  ASSUME TypeOK, DeadNeverDenied, pc # "done", NEW id \in Ids, NEW e, NEW d,
         EndTurn(id, e, d), world' = world,
         id \in world.dead => e.status \in {401, NoStatus},
         id \in world.dead /\ tc.expect[id] = "deny" /\ ~tc.unauthorizedIsDenial => d # "denied"
  PROVE  DeadNeverDenied'
<1>1. tc' = tc /\ pc' = "turn"
  BY DEF EndTurn
<1>2. \A j \in Ids : exec'[j] = (IF j = id THEN e ELSE exec[j])
                   /\ verdict'[j] = (IF j = id THEN d ELSE verdict[j])
  BY DEF EndTurn, TypeOK
<1>3. QED
  BY <1>1, <1>2 DEF DeadNeverDenied, DeadTokenProtectsNothing

LEMMA DeadWithhold ==
  ASSUME TypeOK, DeadNeverDenied, pc # "done", NEW id \in Ids, Withhold(id), world' = world
  PROVE  DeadNeverDenied'
<1>1. NoExec.status = NoStatus
  BY DEF NoExec
<1>2. EndTurn(id, NoExec, "inconclusive")
  BY DEF Withhold
<1>3. QED
  BY <1>1, <1>2, DeadEndTurn

LEMMA DeadAnswers ==
  ASSUME NEW id \in world.dead, NEW s \in AnswersTo(id)
  PROVE  s \in {401, NoStatus}
BY DEF AnswersTo

\* Steps that leave executions and verdicts alone.
LEMMA DeadStays ==
  ASSUME DeadNeverDenied, UNCHANGED <<tc, world, exec, verdict>>, pc' # "done"
  PROVE  DeadNeverDenied'
BY DEF DeadNeverDenied, DeadTokenProtectsNothing

\* What the read after a write of a dead identity can conclude.
LEMMA DeadConclusion ==
  ASSUME DeadNeverDenied, NEW id \in world.dead, NEW s \in {401, NoStatus}, NEW read,
         tc.expect[id] = "deny", ~tc.unauthorizedIsDenial
  PROVE  Demoted(id, s, Conclusion(s, read)) # "denied"
<1>1. id \notin tc.anonymous
  BY DEF DeadNeverDenied
<1>2. CASE s = 401
  BY <1>1, <1>2 DEF Demoted
<1>3. CASE s = NoStatus
  <2>1. Conclusion(s, read) # "denied"
    BY <1>3 DEF Conclusion, Unsettled
  <2>2. QED
    BY <2>1, DemotedType
<1>4. QED
  BY <1>2, <1>3

LEMMA DeadConclude ==
  ASSUME TypeOK, DeadNeverDenied, NEW id \in world.dead,
         tc.expect[id] = "deny", ~tc.unauthorizedIsDenial, NEW recorded
  PROVE  Concluded(id, recorded) # "denied"
<1>1. id \in Ids /\ id \notin tc.anonymous
  BY DEF DeadNeverDenied, TypeOK, Worlds
<1>2. CASE Verified(id)
  BY <1>1, <1>2 DEF Concluded, Guarded, DeadNeverDenied
<1>3. CASE ~Verified(id) /\ exec[id].status = 401
  BY <1>1, <1>3 DEF Concluded, Demoted
<1>4. CASE ~Verified(id) /\ exec[id].status = NoStatus
  BY <1>1, <1>4 DEF Concluded, Demoted, Assessed
<1>5. QED
  BY <1>1, <1>2, <1>3, <1>4 DEF DeadNeverDenied

LEMMA DeadTurns ==
  ASSUME TypeOK, DeadNeverDenied, SendPlain \/ SendWrite \/ ReadAfter
  PROVE  DeadNeverDenied'
<1>1. CASE SendPlain
  <2> DEFINE plain(s, r, m) == [status |-> s, refusal |-> r, matched |-> m, sent |-> TRUE]
  <2>1. PICK i \in DOMAIN tc.order :
          \E s \in AnswersTo(tc.order[i]), r \in Lookups, m \in SUBSET {"allow", "deny"} :
            EndTurn(tc.order[i], plain(s, r, m), "none")
    BY <1>1 DEF SendPlain
  <2>2. PICK s \in AnswersTo(tc.order[i]), r \in Lookups, m \in SUBSET {"allow", "deny"} :
          EndTurn(tc.order[i], plain(s, r, m), "none")
    BY <2>1
  <2>3. tc.order[i] \in Ids /\ pc # "done" /\ world' = world
    BY <1>1, CaseType DEF SendPlain
  <2>4. tc.order[i] \in world.dead => s \in {401, NoStatus}
    BY DeadAnswers
  <2>5. QED
    BY <2>2, <2>3, <2>4, DeadEndTurn
<1>2. CASE SendWrite
  <2>1. Current \in Ids
    BY <1>2, CurrentType DEF SendWrite
  <2>2. PICK s \in AnswersTo(Current) :
          exec' = [exec EXCEPT ![Current] = [NoExec EXCEPT !.status = s, !.sent = TRUE]]
    BY <1>2 DEF SendWrite
  <2>3. Current \in world.dead => s \in {401, NoStatus}
    BY <2>2, DeadAnswers
  <2>4. \A j \in Ids : j # Current => exec'[j] = exec[j]
    BY <2>1, <2>2 DEF TypeOK
  <2>5. exec'[Current].status = s
    BY <2>1, <2>2 DEF TypeOK, NoExec
  <2>6. UNCHANGED <<tc, verdict, world>> /\ pc' # "done"
    BY <1>2 DEF SendWrite
  <2>7. \A j \in world.dead \cap Ids : exec'[j].status \in {401, NoStatus}
    BY <2>3, <2>4, <2>5 DEF DeadNeverDenied
  <2>8. QED
    BY <2>6, <2>7 DEF DeadNeverDenied, DeadTokenProtectsNothing
<1>3. CASE ReadAfter
  <2>1. Current \in Ids /\ pc # "done" /\ world' = world
    BY <1>3, CurrentType DEF ReadAfter, server
  <2>2. Current \in world.dead => exec[Current].status \in {401, NoStatus}
    BY <2>1 DEF DeadNeverDenied
  <2>3. CASE cancelled
    <3>1. EndTurn(Current, exec[Current], "inconclusive")
      BY <1>3, <2>3 DEF ReadAfter
    <3>2. QED
      BY <2>1, <2>2, <3>1, DeadEndTurn
  <2>4. CASE ~cancelled
    <3> DEFINE s == exec[Current].status
    <3>1. PICK read \in Reads :
            EndTurn(Current, exec[Current], Demoted(Current, s, Conclusion(s, read)))
      BY <1>3, <2>4 DEF ReadAfter
    <3>2. Current \in world.dead /\ tc.expect[Current] = "deny" /\ ~tc.unauthorizedIsDenial
            => Demoted(Current, s, Conclusion(s, read)) # "denied"
      BY <2>2, DeadConclusion
    <3>3. QED
      BY <2>1, <2>2, <3>1, <3>2, DeadEndTurn
  <2>5. QED
    BY <2>3, <2>4
<1>4. QED
  BY <1>1, <1>2, <1>3

LEMMA DeadResults ==
  ASSUME TypeOK, DeadNeverDenied, EndPreflight \/ Conclude
  PROVE  DeadNeverDenied'
<1>1. UNCHANGED <<tc, world, exec, verdict>>
  BY DEF EndPreflight, Conclude, server
<1>2. pc' = "done" /\ ~tc.unauthorizedIsDenial =>
        \A id \in world.dead : tc.expect[id] = "deny" => assessment'[id] # "denied"
  <2>1. world.dead \subseteq Ids
    BY DEF TypeOK, Worlds
  <2>2. CASE EndPreflight
    BY <2>1, <2>2 DEF EndPreflight
  <2>3. CASE Conclude
    BY <2>1, <2>3, DeadConclude, ConcludeWrites DEF First
  <2>4. QED
    BY <2>2, <2>3
<1>3. QED
  BY <1>1, <1>2 DEF DeadNeverDenied, DeadTokenProtectsNothing

LEMMA DeadStep ==
  ASSUME TypeOK, DeadNeverDenied, [Next]_vars
  PROVE  DeadNeverDenied'
<1>1. CASE SetupStep \/ ApplySetup \/ Probe
  BY <1>1, DeadStays DEF SetupStep, ApplySetup, Abort, Probe, server
<1>2. CASE EndPreflight \/ Conclude
  BY <1>2, DeadResults
<1>3. CASE SendPlain \/ SendWrite \/ ReadAfter
  BY <1>3, DeadTurns
<1>4. CASE StartVerified
  <2>1. PICK i \in DOMAIN tc.order :
          IF cancelled THEN Withhold(tc.order[i])
          ELSE Goto(IF tc.reset THEN "reset" ELSE "before")
    BY <1>4 DEF StartVerified
  <2>2. tc.order[i] \in Ids /\ pc # "done" /\ world' = world
    BY <1>4, CaseType DEF StartVerified, server
  <2>3. CASE cancelled
    BY <2>1, <2>2, <2>3, DeadWithhold
  <2>4. CASE ~cancelled
    BY <2>1, <2>2, <2>4, DeadStays DEF Goto
  <2>5. QED
    BY <2>3, <2>4
<1>5. CASE Reset \/ ReadBefore \/ ReadAgain
  <2>1. Current \in Ids /\ pc # "done" /\ world' = world
    BY <1>5, CurrentType DEF Reset, ReadBefore, ReadAgain, server
  <2>2. Withhold(Current) \/ \E step \in {"before", "again", "write"} : Goto(step)
    BY <1>5 DEF Reset, ReadBefore, ReadAgain
  <2>3. CASE Withhold(Current)
    BY <2>1, <2>3, DeadWithhold
  <2>4. CASE \E step \in {"before", "again", "write"} : Goto(step)
    BY <2>1, <2>4, DeadStays DEF Goto
  <2>5. QED
    BY <2>2, <2>3, <2>4
<1>6. CASE Cancel \/ TakeEffect \/ ForeignChange \/ UNCHANGED vars
  BY <1>6 DEF Cancel, TakeEffect, ForeignChange, run, server, vars,
              DeadNeverDenied, DeadTokenProtectsNothing
<1>7. QED
  BY <1>1, <1>2, <1>3, <1>4, <1>5, <1>6 DEF Next, Step

\* An expired or revoked token never makes a target look protected: whatever judged
\* the answer, 401 to a credential that was sent stays inconclusive unless the author
\* declared that this target refuses callers with 401.
THEOREM DeadTokensProveNothing == Spec => []DeadTokenProtectsNothing
<1>1. Init => DeadNeverDenied
  BY DEF Init, WorldFor, DeadNeverDenied, DeadTokenProtectsNothing, NoExec, Worlds
<1>2. TypeOK /\ DeadNeverDenied /\ [Next]_vars => DeadNeverDenied'
  BY DeadStep
<1>3. DeadNeverDenied => DeadTokenProtectsNothing
  BY DEF DeadNeverDenied
<1>4. QED
  BY <1>1, <1>2, <1>3, TypeCorrect, PTL DEF Spec

-----------------------------------------------------------------------------
(***************************************************************************)
(* What the conclusions of write verification are worth, for every target, *)
(* every reader and every number of identities.                            *)
(***************************************************************************)

(* What a reader sees. *)

\* s is what the reader sees of a record holding v, before it is written.
Seen(s, v) ==
  IF v = Absent THEN s.status = 404 /\ s.value = NoValue
  ELSE /\ tc.afterStatus = {} \/ v = world.first
       /\ s.status \in Success
       /\ s.value = IF tc.pointer THEN v ELSE NoValue

\* What only a reader of a written record sees: that it is refused.
SeenGone(s, v) ==
  /\ tc.afterStatus # {} /\ v # Absent /\ v # world.first
  /\ s.status \in tc.afterStatus /\ s.value = NoValue

LEMMA SuccessIs == Success \subseteq Int /\ 404 \notin Success /\ \A s \in 400..499 : s \notin Success
BY DEF Success

LEMMA SeenEqual ==
  ASSUME NEW s, NEW o, NEW v, Seen(s, v), Seen(o, v)
  PROVE  Equal(s, o)
BY DEF Seen, Equal

LEMMA EqualSeen ==
  ASSUME NEW s, NEW o, NEW v, Equal(s, o), Seen(o, v)
  PROVE  Seen(s, v)
BY SuccessIs DEF Seen, Equal

LEMMA EqualAlike ==
  ASSUME NEW s, NEW o PROVE /\ Equal(s, o) => Equal(o, s) 
                            /\ Equal(s, s)
BY DEF Equal

\* A faultless read shows what the reader's request looks at.
LEMMA GoodReadSees ==
  ASSUME TypeOK, NEW read \in GoodReads
  PROVE  \E v \in Shown : Seen(StateOf(read), v) \/ SeenGone(StateOf(read), v)
<1>1. PICK v \in Shown :
        read \in IF v = Absent THEN { [status |-> 404, value |-> NoValue] }
                ELSE IF tc.afterStatus # {} /\ v # world.first
                     THEN { [status |-> s, value |-> NoValue] : s \in tc.afterStatus }
                     ELSE { [status |-> s, value |-> v] : s \in Statuses \cap Success }
  BY DEF GoodReads
<1>2. CASE v = Absent
  <2>1. read = [status |-> 404, value |-> NoValue]
    BY <1>1, <1>2
  <2>2. StateOf(read).status = 404 /\ StateOf(read).value = NoValue
    BY <2>1 DEF StateOf
  <2>3. QED
    BY <1>2, <2>2 DEF Seen
<1>3. CASE v # Absent /\ tc.afterStatus # {} /\ v # world.first
  <2>1. PICK s \in tc.afterStatus : read = [status |-> s, value |-> NoValue]
    BY <1>1, <1>3
  <2>2. StateOf(read).status = s /\ StateOf(read).value = NoValue
    BY <2>1 DEF StateOf
  <2>3. QED
    BY <1>3, <2>2 DEF SeenGone
<1>4. CASE v # Absent /\ ~(tc.afterStatus # {} /\ v # world.first)
  <2>1. PICK s \in Statuses \cap Success : read = [status |-> s, value |-> v]
    BY <1>1, <1>4
  <2>2. StateOf(read).status = s /\ StateOf(read).value = (IF tc.pointer THEN v ELSE NoValue)
    BY <2>1 DEF StateOf
  <2>3. QED
    BY <1>4, <2>2 DEF Seen
<1>5. QED
  BY <1>2, <1>3, <1>4

\* A read that failed is never usable.
LEMMA UsableIsGood ==
  ASSUME NEW read \in Reads, NEW b, Usable(read, b)
  PROVE  read \in GoodReads
<1>1. SUFFICES ASSUME read \in BadReads, read.status \in Success => tc.pointer PROVE FALSE
  BY DEF Reads
<1>2. PICK s \in (Statuses \cup {NoStatus}) \ (tc.afterStatus \cup {404}) :
        read = [status |-> s, value |-> NoValue]
  BY <1>1 DEF BadReads
<1>3. read.status = s /\ read.value = NoValue
  BY <1>2
<1>4. QED
  BY <1>1, <1>3 DEF Usable

LEMMA AfterSees ==
  ASSUME TypeOK, NEW read \in Reads, NEW b, Usable(read, b)
  PROVE  \E v \in Shown : Seen(StateOf(read), v) \/ SeenGone(StateOf(read), v)
BY UsableIsGood, GoodReadSees

\* The engine takes no refusal for the record's value before it writes.
LEMMA BeforeSees ==
  ASSUME TypeOK, tc.verify, ValidVerification(tc), NEW read \in Reads, Usable(read, FALSE)
  PROVE  \E v \in Shown : Seen(StateOf(read), v)
<1>1. PICK v \in Shown : Seen(StateOf(read), v) \/ SeenGone(StateOf(read), v)
  BY AfterSees
<1>2. ~SeenGone(StateOf(read), v)
  <2>1. SUFFICES ASSUME SeenGone(StateOf(read), v) PROVE FALSE
    OBVIOUS
  <2>2. tc.strategy = "changed"
    BY <2>1 DEF SeenGone, ValidVerification
  <2>3. read.status \in Success
    BY <2>2 DEF Usable
  <2>4. read.status \in tc.afterStatus
    BY <2>1 DEF SeenGone, StateOf
  <2>5. tc.afterStatus \in SUBSET (400..499)
    <3>1. tc \in Case
      BY CasesAssumption DEF TypeOK
    <3>2. QED
      BY <3>1, ZenonT(60) DEF Case
  <2>6. QED
    BY <2>3, <2>4, <2>5, SuccessIs
<1>3. QED
  BY <1>1, <1>2

-----------------------------------------------------------------------------
(* What is fixed during a run. *)

Verifying == {"reset", "before", "again", "write", "after"}

\* A run that was not aborted has a valid case, and the target is one for it.
Fixed ==
  /\ pc # "aborted" => Valid(tc) /\ WorldFor(tc, world)
  /\ Isolated => foreign = 0

LEMMA CaseStays ==
  ASSUME [Next]_vars
  PROVE  tc' = tc /\ world' = world /\ (pc' # "aborted" => pc # "aborted")
<1>1. CASE SetupStep \/ ApplySetup
  BY <1>1 DEF SetupStep, ApplySetup, Abort, server
<1>2. CASE Probe \/ EndPreflight \/ Conclude
  BY <1>2 DEF Probe, EndPreflight, Conclude, server
<1>3. CASE SendPlain \/ StartVerified
  BY <1>3 DEF SendPlain, StartVerified, EndTurn, Withhold, Goto, server
<1>4. CASE Reset \/ ReadBefore \/ ReadAgain
  BY <1>4 DEF Reset, ReadBefore, ReadAgain, EndTurn, Withhold, Goto, server
<1>5. CASE SendWrite \/ ReadAfter
  BY <1>5 DEF SendWrite, ReadAfter, EndTurn, server
<1>6. CASE Cancel \/ TakeEffect \/ ForeignChange \/ UNCHANGED vars
  BY <1>6 DEF Cancel, TakeEffect, ForeignChange, Running, run, server, vars
<1>7. QED
  BY <1>1, <1>2, <1>3, <1>4, <1>5, <1>6 DEF Next, Step

\* Only others change the record without a request.
LEMMA ForeignStays ==
  ASSUME [Next]_vars
  PROVE  foreign' = foreign \/ (foreign' = foreign + 1 /\ ~Isolated)
<1>1. CASE SetupStep \/ ApplySetup \/ Probe \/ EndPreflight \/ Conclude
  BY <1>1 DEF SetupStep, ApplySetup, Probe, EndPreflight, Conclude, server
<1>2. CASE SendPlain \/ StartVerified \/ Reset
  BY <1>2 DEF SendPlain, StartVerified, Reset, server
<1>3. CASE ReadBefore \/ ReadAgain \/ SendWrite \/ ReadAfter
  BY <1>3 DEF ReadBefore, ReadAgain, SendWrite, ReadAfter, server
<1>4. CASE Cancel \/ TakeEffect \/ ForeignChange \/ UNCHANGED vars
  BY <1>4 DEF Cancel, TakeEffect, ForeignChange, server, vars
<1>5. QED
  BY <1>1, <1>2, <1>3, <1>4 DEF Next, Step

LEMMA FixedStep ==
  ASSUME Fixed, [Next]_vars
  PROVE  Fixed'
<1>1. tc' = tc /\ world' = world
  BY CaseStays
<1>2. Valid(tc)' <=> Valid(tc)
  <2>1. ValidPreflight(tc)' <=> ValidPreflight(tc)
    BY <1>1 DEF ValidPreflight, Judged
  <2>2. ValidVerification(tc)' <=> ValidVerification(tc)
    BY <1>1 DEF ValidVerification, Judged
  <2>3. QED
    BY <1>1, <2>1, <2>2 DEF Valid
<1>3. WorldFor(tc, world)' <=> WorldFor(tc, world)
  BY <1>1 DEF WorldFor
<1>4. QED
  BY <1>1, <1>2, <1>3, CaseStays, ForeignStays DEF Fixed, Isolated

LEMMA FixedAlways == Spec => []Fixed
<1>1. Init => Fixed
  BY DEF Init, Fixed
<1>2. Fixed /\ [Next]_vars => Fixed'
  BY FixedStep
<1>3. QED
  BY <1>1, <1>2, PTL DEF Spec

-----------------------------------------------------------------------------
(* One verified turn at a time. *)

\* Whoever's verified turn it is has not been judged, and has sent its request only
\* when the read after it is next; between turns whoever has sent one was judged.
InTurn ==
  /\ pc \in Verifying =>
       /\ Verified(Current) /\ verdict[Current] = "none"
       /\ exec[Current].sent <=> pc = "after"
  /\ \A id \in Ids : Verified(id) /\ exec[id].sent /\ verdict[id] = "none"
       => pc = "after" /\ id = Current
  /\ pc \notin Turns \cup {"done"} => \A id \in Ids : ~exec[id].sent

LEMMA InTurnEnds ==
  ASSUME TypeOK, InTurn, NEW id \in Ids, NEW e, NEW d, EndTurn(id, e, d),
         pc = "turn" \/ (pc \in Verifying /\ id = Current),
         Verified(id) => d # "none"
  PROVE  InTurn'
<1>1. tc' = tc /\ pc' = "turn"
  BY DEF EndTurn
<1>2. \A j \in Ids : exec'[j] = (IF j = id THEN e ELSE exec[j])
                   /\ verdict'[j] = (IF j = id THEN d ELSE verdict[j])
  BY DEF EndTurn, TypeOK
<1>3. \A j : Verified(j)' <=> Verified(j)
  BY <1>1 DEF Verified, Judged
<1>4. QED
  BY <1>1, <1>2, <1>3 DEF InTurn, Verifying, Turns

LEMMA InTurnWithheld ==
  ASSUME TypeOK, InTurn, NEW id \in Ids, Withhold(id),
         pc = "turn" \/ (pc \in Verifying /\ id = Current)
  PROVE  InTurn'
<1>1. EndTurn(id, NoExec, "inconclusive")
  BY DEF Withhold
<1>2. QED
  BY <1>1, InTurnEnds

LEMMA InTurnGoes ==
  ASSUME InTurn, NEW step, Goto(step), at' = at, pc \in Verifying \ {"after"},
         step \in Verifying \ {"after"}
  PROVE  InTurn'
BY DEF InTurn, Goto, Verifying, Verified, Judged, Current, Turns

LEMMA InTurnPlain ==
  ASSUME TypeOK, InTurn, SendPlain
  PROVE  InTurn'
<1>1. PICK i \in DOMAIN tc.order :
        ~Verified(tc.order[i]) /\ \E e : EndTurn(tc.order[i], e, "none")
  BY DEF SendPlain
<1>2. tc.order[i] \in Ids
  BY CaseType
<1>3. pc = "turn"
  BY DEF SendPlain
<1>4. QED
  BY <1>1, <1>2, <1>3, InTurnEnds

LEMMA InTurnStarts ==
  ASSUME TypeOK, InTurn, StartVerified
  PROVE  InTurn'
<1>1. PICK i \in DOMAIN tc.order :
        /\ IsNext(i) /\ Verified(tc.order[i]) /\ at' = i
        /\ IF cancelled THEN Withhold(tc.order[i])
           ELSE Goto(IF tc.reset THEN "reset" ELSE "before")
  BY DEF StartVerified
<1>2. tc.order[i] \in Ids /\ pc = "turn"
  BY CaseType DEF StartVerified
<1>3. CASE cancelled
  BY <1>1, <1>2, <1>3, InTurnWithheld
<1>4. CASE ~cancelled
  <2>1. UNCHANGED <<tc, exec, verdict>> /\ pc' \in {"reset", "before"}
    BY <1>1, <1>4 DEF Goto
  <2>2. Current' = tc.order[i] /\ verdict[tc.order[i]] = "none" /\ ~exec[tc.order[i]].sent
    BY <1>1, <2>1 DEF Current, IsNext, Waiting
  <2>3. QED
    BY <1>1, <1>2, <2>1, <2>2 DEF InTurn, Verifying, Turns, Verified, Judged
<1>5. QED
  BY <1>3, <1>4

LEMMA InTurnStep ==
  ASSUME TypeOK, InTurn, [Next]_vars
  PROVE  InTurn'
<1>1. CASE SetupStep \/ ApplySetup \/ Probe \/ EndPreflight \/ Conclude
  BY <1>1 DEF SetupStep, ApplySetup, Abort, Probe, EndPreflight, Conclude,
              InTurn, Verifying, Verified, Judged, Turns
<1>2. CASE SendPlain
  BY <1>2, InTurnPlain
<1>3. CASE StartVerified
  BY <1>3, InTurnStarts
<1>4. CASE Reset \/ ReadBefore \/ ReadAgain
  <2>1. Current \in Ids /\ pc \in Verifying \ {"after"} /\ at' = at
    BY <1>4, CurrentType DEF Reset, ReadBefore, ReadAgain, Verifying
  <2>2. Withhold(Current) \/ \E step \in {"before", "again", "write"} : Goto(step)
    BY <1>4 DEF Reset, ReadBefore, ReadAgain
  <2>3. CASE Withhold(Current)
    BY <2>1, <2>3, InTurnWithheld
  <2>4. CASE \E step \in {"before", "again", "write"} : Goto(step)
    BY <2>1, <2>4, InTurnGoes DEF Verifying
  <2>5. QED
    BY <2>2, <2>3, <2>4
<1>5. CASE SendWrite
  <2>1. Current \in Ids /\ pc = "write" /\ pc' = "after"
    BY <1>5, CurrentType DEF SendWrite
  <2>2. PICK s \in AnswersTo(Current) :
          exec' = [exec EXCEPT ![Current] = [NoExec EXCEPT !.status = s, !.sent = TRUE]]
    BY <1>5 DEF SendWrite
  <2>3. /\ \A j \in Ids : j # Current => exec'[j] = exec[j]
        /\ exec'[Current].sent
    BY <2>1, <2>2 DEF TypeOK, NoExec
  <2>4. UNCHANGED <<tc, at, verdict>>
    BY <1>5 DEF SendWrite
  <2>5. QED
    BY <2>1, <2>3, <2>4 DEF InTurn, Verifying, Verified, Judged, Current, Turns
<1>6. CASE ReadAfter
  <2>1. Current \in Ids /\ pc \in Verifying
    BY <1>6, CurrentType DEF ReadAfter, Verifying
  <2>2. \E d \in {"allowed", "denied", "inconclusive"} : EndTurn(Current, exec[Current], d)
    BY <1>6, ConclusionType, DemotedType DEF ReadAfter
  <2>3. QED
    BY <2>1, <2>2, InTurnEnds
<1>7. CASE Cancel \/ TakeEffect \/ ForeignChange \/ UNCHANGED vars
  BY <1>7 DEF Cancel, TakeEffect, ForeignChange, vars, run,
              InTurn, Verifying, Verified, Judged, Current, Turns
<1>8. QED
  BY <1>1, <1>2, <1>3, <1>4, <1>5, <1>6, <1>7 DEF Next, Step

LEMMA InTurnAlways == Spec => []InTurn
<1>1. Init => InTurn
  BY DEF Init, InTurn, Verifying, NoExec
<1>2. TypeOK /\ InTurn /\ [Next]_vars => InTurn'
  BY InTurnStep
<1>3. QED
  BY <1>1, <1>2, TypeCorrect, PTL DEF Spec

-----------------------------------------------------------------------------
(* The record between the reads before a write and the read after it. *)

\* What the two reads before a write established, whatever the reader looks at.
Tried ==
  /\ pc \in {"again", "write", "after"} =>
       IF tc.strategy = "created" THEN before.status = 404 /\ before.value = NoValue
       ELSE before.status \in Success
  /\ pc \in {"write", "after"} =>
       /\ world.oracle = "constant" => Seen(before, world.first)
       /\ tc.target # NoValue => before.value # tc.target
       /\ tc.reset => baseline # NoState /\ Equal(before, baseline)

\* What has become of the record since: nothing, or the effect of some write.
Sighted ==
  world.oracle = "record" =>
    /\ pc \in {"write", "after"} /\ Isolated => record = world.effect \/ Seen(before, record)
    /\ pc = "write" /\ late = "never" /\ foreign = 0 => Seen(before, record)
    /\ pc = "after" /\ late = "never" /\ foreign = 0
         => Seen(before, wrote[Current].from) /\ wrote[Current].to = record
    /\ pc = "after" /\ Isolated /\ Current \in world.admits /\ ~Unsettled(exec[Current].status)
         => record = world.effect

LEMMA SecondRead ==
  ASSUME TypeOK, Fixed, InTurn, pc = "again", NEW read \in Reads, ReadyToWrite(read)
  PROVE  /\ world.oracle = "record" => Seen(before, record)
         /\ world.oracle = "constant" => Seen(before, world.first)
<1>1. tc.verify /\ ValidVerification(tc)
  BY DEF Fixed, InTurn, Verifying, Verified, Valid
<1>2. PICK v \in Shown : Seen(StateOf(read), v)
  BY <1>1, BeforeSees DEF ReadyToWrite
<1>3. Seen(before, v)
  BY <1>2, EqualSeen, EqualAlike DEF ReadyToWrite
<1>4. CASE world.oracle = "record"
  BY <1>2, <1>3, <1>4 DEF Shown
<1>5. CASE world.oracle = "constant"
  BY <1>2, <1>3, <1>5 DEF Shown
<1>6. QED
  BY <1>4, <1>5

\* Steps outside the reads and the write, and those that end a turn.
LEMMA TriedElsewhere ==
  ASSUME pc' \notin {"again", "write", "after"}
  PROVE  Tried' /\ Sighted'
BY DEF Tried, Sighted

LEMMA TriedReads ==
  ASSUME TypeOK, Fixed, InTurn, Tried, Sighted, ReadBefore \/ ReadAgain
  PROVE  Tried' /\ Sighted'
<1>1. CASE Withhold(Current)
  BY <1>1, TriedElsewhere DEF Withhold, EndTurn
<1>2. CASE ReadBefore /\ ~Withhold(Current)
  <2>1. PICK read \in Reads :
          GoodBaseline(read) /\ Goto("again") /\ before' = StateOf(read)
    BY <1>2 DEF ReadBefore
  <2>2. pc' = "again" /\ tc' = tc
    BY <2>1 DEF Goto
  <2>3. before'.status = read.status /\ (read.status = 404 => before'.value = NoValue)
    BY <2>1, SuccessIs DEF StateOf
  <2>4. QED
    BY <2>1, <2>2, <2>3 DEF Tried, Sighted, GoodBaseline
<1>3. CASE ReadAgain /\ ~Withhold(Current)
  <2>1. PICK read \in Reads :
          /\ ReadyToWrite(read) /\ Goto("write") /\ before' = before
          /\ baseline' = IF tc.reset /\ baseline = NoState THEN before ELSE baseline
    BY <1>3 DEF ReadAgain
  <2>2. pc = "again" /\ pc' = "write" /\ tc' = tc /\ UNCHANGED server
    BY <1>3, <2>1 DEF ReadAgain, Goto
  <2>3. before \in Observation
    BY DEF TypeOK
  <2>4. tc.reset => baseline' # NoState /\ Equal(before, baseline')
    <3>1. before # NoState
      BY <2>2, SuccessIs DEF Tried, NoState, NoStatus, Success
    <3>2. CASE baseline = NoState
      BY <2>1, <3>1, <3>2, EqualAlike
    <3>3. CASE baseline # NoState
      BY <2>1, <3>3, EqualAlike DEF ReadyToWrite
    <3>4. QED
      BY <3>2, <3>3
  <2>5. /\ world.oracle = "record" => Seen(before, record)
        /\ world.oracle = "constant" => Seen(before, world.first)
    BY <2>1, <2>2, SecondRead
  <2>6. \A v : Seen(before, v) => Seen(before, v)'
    BY <2>1, <2>2 DEF Seen, server
  <2>7. Tried'
    <3>1. tc.target # NoValue => before.value # tc.target
      BY <2>1 DEF ReadyToWrite
    <3>2. Equal(before, baseline') <=> Equal(before, baseline)'
      BY <2>1 DEF Equal
    <3>3. QED
      BY <2>1, <2>2, <2>4, <2>5, <2>6, <3>1, <3>2 DEF Tried, server
  <2>8. Sighted'
    BY <2>1, <2>2, <2>5, <2>6 DEF Sighted, server
  <2>9. QED
    BY <2>7, <2>8
<1>4. QED
  BY <1>2, <1>3, <1>1

LEMMA TriedWrite ==
  ASSUME TypeOK, Fixed, InTurn, Tried, Sighted, SendWrite
  PROVE  Tried' /\ Sighted'
<1>1. Current \in Ids /\ pc = "write" /\ pc' = "after"
  BY CurrentType DEF SendWrite
<1>2. PICK s \in AnswersTo(Current) :
        /\ Effect(Current, s)
        /\ exec' = [exec EXCEPT ![Current] = [NoExec EXCEPT !.status = s, !.sent = TRUE]]
  BY DEF SendWrite
<1>3. /\ UNCHANGED <<tc, at, before, baseline, world, foreign>>
      /\ wrote' = [wrote EXCEPT ![Current] = [from |-> record, to |-> record']]
  BY DEF SendWrite
<1>4. exec'[Current].status = s /\ Current' = Current
  BY <1>1, <1>2, <1>3 DEF TypeOK, NoExec, Current
<1>5. wrote'[Current].from = record /\ wrote'[Current].to = record'
  BY <1>1, <1>3 DEF TypeOK
<1>6. tc.mutating
  BY <1>1 DEF InTurn, Verifying, Verified, Fixed, Valid, ValidVerification
<1>7. \A b, v : Seen(b, v) <=> Seen(b, v)'
  BY <1>3 DEF Seen
<1>8. Tried'
  BY <1>1, <1>3 DEF Tried, Seen, Equal
<1>9. record' = world.effect \/ record' = record
  BY <1>2 DEF Effect
<1>10. late' = "never" => late = "never"
  BY <1>2 DEF Effect
<1>11. Isolated /\ Current \in world.admits /\ ~Unsettled(s) => record' = world.effect
  BY <1>2, <1>6 DEF Effect, Unsettled
<1>12. Sighted'
  BY <1>1, <1>3, <1>4, <1>5, <1>7, <1>9, <1>10, <1>11 DEF Sighted, Isolated
<1>13. QED
  BY <1>8, <1>12

LEMMA TriedAround ==
  ASSUME TypeOK, Fixed, InTurn, Tried, Sighted,
         Cancel \/ TakeEffect \/ ForeignChange \/ UNCHANGED vars
  PROVE  Tried' /\ Sighted'
<1>1. UNCHANGED <<tc, pc, at, exec, before, baseline, world, wrote>>
  BY DEF Cancel, TakeEffect, ForeignChange, run, server, vars
<1>2. Seen(before, world.first)' <=> Seen(before, world.first)
  BY <1>1 DEF Seen
<1>3. Equal(before, baseline)' <=> Equal(before, baseline)
  BY <1>1 DEF Equal
<1>4. Tried'
  BY <1>1, <1>2, <1>3 DEF Tried
<1>5. CASE Cancel \/ UNCHANGED vars
  BY <1>1, <1>4, <1>5 DEF Cancel, vars, server, Sighted, Seen, Isolated, Current
<1>6. CASE TakeEffect
  BY <1>1, <1>4, <1>6 DEF TakeEffect, Sighted, Seen, Isolated, Current
<1>7. CASE ForeignChange
  <2>1. ~Isolated /\ foreign' # 0
    BY <1>7, CasesAssumption DEF ForeignChange, TypeOK
  <2>2. QED
    BY <1>1, <1>4, <2>1 DEF Sighted, Isolated
<1>8. QED
  BY <1>5, <1>6, <1>7

LEMMA TriedStep ==
  ASSUME TypeOK, Fixed, InTurn, Tried, Sighted, [Next]_vars
  PROVE  Tried' /\ Sighted'
<1>1. CASE SetupStep \/ ApplySetup \/ Probe \/ EndPreflight \/ Conclude
  BY <1>1, TriedElsewhere DEF SetupStep, ApplySetup, Abort, Probe, EndPreflight, Conclude
<1>2. CASE SendPlain \/ StartVerified \/ Reset \/ ReadAfter
  BY <1>2, TriedElsewhere DEF SendPlain, StartVerified, Reset, ReadAfter, EndTurn, Withhold, Goto
<1>3. CASE ReadBefore \/ ReadAgain
  BY <1>3, TriedReads
<1>4. CASE SendWrite
  BY <1>4, TriedWrite
<1>5. CASE Cancel \/ TakeEffect \/ ForeignChange \/ UNCHANGED vars
  BY <1>5, TriedAround
<1>6. QED
  BY <1>1, <1>2, <1>3, <1>4, <1>5 DEF Next, Step

LEMMA TriedAlways == Spec => [](Tried /\ Sighted)
<1>1. Init => Tried /\ Sighted
  BY DEF Init, Tried, Sighted
<1>2. TypeOK /\ Fixed /\ InTurn /\ Tried /\ Sighted /\ [Next]_vars => (Tried /\ Sighted)'
  BY TriedStep
<1>3. QED
  BY <1>1, <1>2, TypeCorrect, FixedAlways, InTurnAlways, PTL DEF Spec

-----------------------------------------------------------------------------
(* What a conclusion says about the target. *)

\* Per identity: what an "allowed" and a "denied" of verification say about the
\* effect of a write, and what the record was when its write was sent.
Truths ==
  \A id \in Ids :
    /\ verdict[id] = "allowed" => tc.environment # "unknown"
    /\ verdict[id] = "allowed" /\ Steady =>
         /\ world.oracle = "record"
         /\ late = "never" /\ foreign = 0 => wrote[id].from # wrote[id].to
         /\ Isolated =>
              /\ tc.strategy = "created" => world.effect # Absent
              /\ tc.strategy = "deleted" => world.effect = Absent
              /\ tc.target # NoValue => world.effect = tc.target
              /\ tc.reset => baseline # NoState /\ ~Seen(baseline, world.effect)
    /\ verdict[id] = "denied" /\ id \in world.admits /\ Isolated /\ world.oracle = "record" =>
         /\ tc.strategy = "created" => world.effect = Absent
         /\ tc.strategy = "deleted" => world.effect # Absent
         /\ tc.target # NoValue => world.effect # tc.target
         /\ tc.reset => baseline # NoState /\ Seen(baseline, world.effect)
    /\ wrote[id] # NotSent /\ world.oracle = "record" /\ late = "never" /\ foreign = 0 =>
         /\ tc.strategy = "created" <=> wrote[id].from = Absent
         /\ tc.target # NoValue => wrote[id].from # tc.target
         /\ tc.reset => baseline # NoState /\ Seen(baseline, wrote[id].from)

\* The target value of a case is a value the record can have, seen as it is.
LEMMA TargetType ==
  ASSUME TypeOK, Fixed, pc # "aborted", tc.verify, tc.target # NoValue
  PROVE  tc.pointer /\ tc.target \in Values /\ tc.target # Absent
<1>1. tc \in Case
  BY CasesAssumption DEF TypeOK
<1>2. tc.target \in Values
  BY <1>1, ZenonT(60) DEF Case
<1>3. QED
  BY <1>2, CasesAssumption DEF Fixed, Valid, ValidVerification

LEMMA AfterStatusIs == ASSUME TypeOK PROVE \A s \in tc.afterStatus : s \notin Success
<1>1. tc \in Case
  BY CasesAssumption DEF TypeOK
<1>2. tc.afterStatus \in SUBSET (400..499)
  BY <1>1, ZenonT(60) DEF Case
<1>3. QED
  BY <1>2, SuccessIs

\* What is seen before the write of a value says what the value is.
LEMMA SeenValue ==
  ASSUME TypeOK, Fixed, InTurn, Tried, pc \in {"write", "after"}, NEW v \in States, Seen(before, v)
  PROVE  /\ tc.strategy = "created" <=> v = Absent
         /\ tc.target # NoValue => v # tc.target
         /\ tc.reset => baseline # NoState /\ Seen(baseline, v)
<1>1. pc # "aborted" /\ tc.verify
  BY DEF InTurn, Verifying, Verified
<1>2. tc.strategy = "created" <=> v = Absent
  BY SuccessIs DEF Tried, Seen
<1>3. tc.target # NoValue => v # tc.target
  BY <1>1, TargetType DEF Tried, Seen
<1>4. tc.reset => baseline # NoState /\ Seen(baseline, v)
  BY EqualSeen, EqualAlike DEF Tried
<1>5. QED
  BY <1>2, <1>3, <1>4

\* An "allowed" is a change a steady reader saw in the record itself.
LEMMA AfterAllowed ==
  ASSUME TypeOK, Fixed, InTurn, Tried, pc = "after", NEW s, NEW read \in Reads,
         Conclusion(s, read) = "allowed", Steady
  PROVE  /\ world.oracle = "record"
         /\ ~Seen(before, record)
         /\ tc.strategy = "created" => record # Absent
         /\ tc.strategy = "deleted" => record = Absent
         /\ tc.target # NoValue => record = tc.target
<1> DEFINE after == StateOf(read)
<1>1. /\ Usable(read, TRUE) /\ ~Equal(after, before) /\ tc.environment # "unknown"
      /\ tc.target # NoValue => after.value = tc.target
      /\ tc.strategy = "created" => after.status = 404 \/ after.status \in Success
      /\ tc.strategy = "deleted" => after.status = 404
  BY DEF Conclusion
<1>2. PICK v \in Shown : Seen(after, v) \/ SeenGone(after, v)
  BY <1>1, AfterSees
<1>3. ~Seen(before, v)
  BY <1>1, <1>2, SeenEqual DEF SeenGone, Seen
<1>4. tc.verify /\ ValidVerification(tc) /\ WorldFor(tc, world) /\ pc # "aborted"
  BY DEF Fixed, InTurn, Verifying, Verified, Valid
<1>5. world.oracle # "constant"
  BY <1>2, <1>3 DEF Shown, Tried
<1>6. world.oracle # "clock"
  BY DEF Steady
<1>7. world.oracle = "record"
  BY <1>5, <1>6, OraclesAssumption DEF TypeOK, Worlds
<1>8. v = record
  BY <1>2, <1>7 DEF Shown
<1>9. tc.strategy = "created" => record # Absent
  <2>1. SUFFICES ASSUME tc.strategy = "created", record = Absent PROVE FALSE
    OBVIOUS
  <2>2. after.status = 404 /\ after.value = NoValue
    BY <1>2, <1>8, <2>1 DEF Seen, SeenGone
  <2>3. before.status = 404 /\ before.value = NoValue
    BY <2>1 DEF Tried
  <2>4. QED
    BY <1>3, <1>8, <2>1, <2>3 DEF Seen
<1>10. tc.strategy = "deleted" => record = Absent
  <2>1. SUFFICES ASSUME tc.strategy = "deleted", record # Absent PROVE FALSE
    OBVIOUS
  <2>2. tc.afterStatus = {}
    BY <1>4, <2>1 DEF ValidVerification
  <2>3. after.status \in Success
    BY <1>2, <1>8, <2>1, <2>2 DEF Seen, SeenGone
  <2>4. QED
    BY <1>1, <2>1, <2>3, SuccessIs
<1>11. tc.target # NoValue => record = tc.target
  BY <1>1, <1>2, <1>4, <1>8, TargetType DEF Seen, SeenGone
<1>12. QED
  BY <1>1, <1>3, <1>7, <1>8, <1>9, <1>10, <1>11

\* A "denied" is an answered write after which the reader sees what it saw before.
LEMMA AfterDenied ==
  ASSUME TypeOK, Fixed, InTurn, Tried, pc = "after", NEW s, NEW read \in Reads,
         Conclusion(s, read) = "denied", world.oracle = "record"
  PROVE  ~Unsettled(s) /\ Seen(before, record)
<1> DEFINE after == StateOf(read)
<1>1. Usable(read, TRUE) /\ Equal(after, before) /\ ~Unsettled(s)
  BY DEF Conclusion
<1>2. PICK v \in Shown : Seen(after, v) \/ SeenGone(after, v)
  BY <1>1, AfterSees
<1>3. v = record
  BY <1>2 DEF Shown
<1>4. ~SeenGone(after, v)
  <2>1. SUFFICES ASSUME SeenGone(after, v) PROVE FALSE
    OBVIOUS
  <2>2. tc.strategy = "changed"
    BY <2>1 DEF SeenGone, Fixed, Valid, ValidVerification, InTurn, Verifying, Verified
  <2>3. before.status \in Success /\ after.status \notin Success
    BY <2>1, <2>2, AfterStatusIs DEF Tried, SeenGone
  <2>4. QED
    BY <1>1, <2>3 DEF Equal
<1>5. QED
  BY <1>1, <1>2, <1>3, <1>4, EqualSeen, EqualAlike

\* Steps that judge nobody and send no verified write.
LEMMA TruthsStay ==
  ASSUME Truths, tc' = tc, world' = world, wrote' = wrote,
         baseline' = baseline \/ baseline = NoState,
         late' = "never" => late = "never", foreign' = 0 => foreign = 0,
         \A id \in Ids : verdict'[id] \in {verdict[id], "none", "inconclusive"}
  PROVE  Truths'
<1>1. (Isolated' <=> Isolated) /\ (Steady' <=> Steady)
  BY DEF Isolated, Steady
<1>2. baseline # NoState => (Seen(baseline, world.effect)' <=> Seen(baseline, world.effect))
  BY DEF Seen
<1>3. \A id \in Ids : baseline # NoState =>
        (Seen(baseline, wrote[id].from)' <=> Seen(baseline, wrote[id].from))
  BY DEF Seen
<1>4. QED
  BY <1>1, <1>2, <1>3 DEF Truths

LEMMA TruthsWrite ==
  ASSUME TypeOK, Fixed, InTurn, Tried, Sighted, Truths, SendWrite
  PROVE  Truths'
<1>1. Current \in Ids /\ pc = "write"
  BY CurrentType DEF SendWrite
<1>2. UNCHANGED <<tc, baseline, world, foreign, verdict>>
  BY DEF SendWrite
<1>3. wrote' = [wrote EXCEPT ![Current] = [from |-> record, to |-> record']]
  BY DEF SendWrite
<1>4. wrote'[Current].from = record /\ \A id \in Ids : id # Current => wrote'[id] = wrote[id]
  BY <1>1, <1>3 DEF TypeOK
<1>5. late' = "never" => late = "never"
  BY DEF SendWrite, Effect
<1>6. verdict[Current] = "none"
  BY <1>1 DEF InTurn, Verifying
<1>7. record \in States
  BY DEF TypeOK
<1>8. world.oracle = "record" /\ late = "never" /\ foreign = 0 =>
        /\ tc.strategy = "created" <=> record = Absent
        /\ tc.target # NoValue => record # tc.target
        /\ tc.reset => baseline # NoState /\ Seen(baseline, record)
  BY <1>1, <1>7, SeenValue DEF Sighted
<1>9. /\ Isolated' <=> Isolated
      /\ Steady' <=> Steady
      /\ Seen(baseline, world.effect)' <=> Seen(baseline, world.effect)
  BY <1>2 DEF Isolated, Steady, Seen
<1>10. \A id \in Ids \ {Current} :
         Seen(baseline, wrote[id].from)' <=> Seen(baseline, wrote[id].from)
  BY <1>2, <1>4 DEF Seen
<1>11. Seen(baseline, wrote[Current].from)' <=> Seen(baseline, record)
  <2>1. Current' = Current
    BY DEF SendWrite, Current
  <2>2. QED
    BY <1>2, <1>4, <2>1 DEF Seen
<1>12. Current' = Current
  BY DEF SendWrite, Current
<1>13. QED
  BY <1>1, <1>2, <1>4, <1>5, <1>6, <1>8, <1>9, <1>10, <1>11, <1>12 DEF Truths

LEMMA TruthsJudged ==
  ASSUME TypeOK, Fixed, InTurn, Tried, Sighted, Truths, ReadAfter
  PROVE  Truths'
<1>1. Current \in Ids /\ pc = "after"
  BY CurrentType DEF ReadAfter
<1>2. UNCHANGED <<tc, baseline, world, foreign, late, wrote>>
  BY DEF ReadAfter, EndTurn, server
<1>3. CASE cancelled
  <2>1. verdict' = [verdict EXCEPT ![Current] = "inconclusive"]
    BY <1>3 DEF ReadAfter, EndTurn
  <2>2. \A id \in Ids : verdict'[id] \in {verdict[id], "none", "inconclusive"}
    BY <1>1, <2>1 DEF TypeOK
  <2>3. QED
    BY <1>2, <2>2, TruthsStay
<1>4. CASE ~cancelled
  <2> DEFINE s == exec[Current].status
  <2>1. PICK read \in Reads :
          verdict' = [verdict EXCEPT ![Current] = Demoted(Current, s, Conclusion(s, read))]
    BY <1>4 DEF ReadAfter, EndTurn
  <2>2. /\ \A id \in Ids \ {Current} : verdict'[id] = verdict[id]
        /\ verdict'[Current] \in {Conclusion(s, read), "inconclusive"}
    BY <1>1, <2>1, DemotedType DEF TypeOK
  <2>3. world.effect \in States
    BY DEF TypeOK, Worlds
  <2>4. Seen(before, world.effect) =>
          /\ tc.strategy = "created" <=> world.effect = Absent
          /\ tc.target # NoValue => world.effect # tc.target
          /\ tc.reset => baseline # NoState /\ Seen(baseline, world.effect)
    BY <1>1, <2>3, SeenValue
  <2>5. CASE Conclusion(s, read) = "allowed"
    <3>1. Steady =>
            /\ world.oracle = "record"
            /\ ~Seen(before, record)
            /\ tc.strategy = "created" => record # Absent
            /\ tc.strategy = "deleted" => record = Absent
            /\ tc.target # NoValue => record = tc.target
      BY <1>1, <2>5, AfterAllowed
    <3>2. Steady /\ late = "never" /\ foreign = 0 => wrote[Current].from # wrote[Current].to
      BY <1>1, <3>1 DEF Sighted
    <3>3. Steady /\ Isolated => record = world.effect
      BY <1>1, <3>1 DEF Sighted
    <3>4. tc.reset => baseline # NoState /\ (Seen(baseline, record) => Seen(before, record))
      BY <1>1, EqualSeen DEF Tried
    <3>5. QED
      <4>1. /\ (Isolated' <=> Isolated) /\ (Steady' <=> Steady)
            /\ Seen(baseline, world.effect)' <=> Seen(baseline, world.effect)
            /\ \A id \in Ids : Seen(baseline, wrote[id].from)' <=> Seen(baseline, wrote[id].from)
        BY <1>2 DEF Isolated, Steady, Seen
      <4>2. tc.environment # "unknown"
        BY <2>5 DEF Conclusion
      <4>3. Steady =>
              /\ world.oracle = "record"
              /\ late = "never" /\ foreign = 0 => wrote[Current].from # wrote[Current].to
              /\ Isolated =>
                /\ tc.strategy = "created" => world.effect # Absent
                /\ tc.strategy = "deleted" => world.effect = Absent
                /\ tc.target # NoValue => world.effect = tc.target
                /\ tc.reset => baseline # NoState /\ ~Seen(baseline, world.effect)
        BY <3>1, <3>2, <3>3, <3>4
      <4>4. verdict'[Current] # "denied"
        BY <2>2, <2>5
      <4>5. QED
        BY <1>2, <2>2, <4>1, <4>2, <4>3, <4>4 DEF Truths
  <2>6. CASE Conclusion(s, read) = "denied"
    <3>1. world.oracle = "record" => ~Unsettled(s) /\ Seen(before, record)
      BY <1>1, <2>6, AfterDenied
    <3>2. world.oracle = "record" /\ Isolated /\ Current \in world.admits => record = world.effect
      BY <1>1, <3>1 DEF Sighted
    <3>3. world.oracle = "record" /\ Isolated /\ Current \in world.admits =>
            Seen(before, world.effect)
      BY <3>1, <3>2
    <3>4. /\ (Isolated' <=> Isolated) /\ (Steady' <=> Steady)
          /\ Seen(baseline, world.effect)' <=> Seen(baseline, world.effect)
          /\ \A id \in Ids : Seen(baseline, wrote[id].from)' <=> Seen(baseline, wrote[id].from)
      BY <1>2 DEF Isolated, Steady, Seen
    <3>5. Seen(before, world.effect) /\ tc.strategy = "deleted" => world.effect # Absent
      BY <1>1, SuccessIs DEF Tried, Seen
    <3>6. verdict'[Current] # "allowed"
      BY <2>2, <2>6
    <3>7. QED
      BY <1>2, <2>2, <2>4, <3>3, <3>4, <3>5, <3>6 DEF Truths
  <2>7. CASE Conclusion(s, read) = "inconclusive"
    BY <1>2, <2>2, <2>7, TruthsStay
  <2>8. QED
    BY <2>5, <2>6, <2>7, ConclusionType
<1>5. QED
  BY <1>3, <1>4

LEMMA TruthsEnds ==
  ASSUME TypeOK, NEW id \in Ids, NEW e, NEW d \in {"none", "inconclusive"}, EndTurn(id, e, d)
  PROVE  \A j \in Ids : verdict'[j] \in {verdict[j], "none", "inconclusive"}
BY DEF EndTurn, TypeOK

LEMMA TruthsStep ==
  ASSUME TypeOK, Fixed, InTurn, Tried, Sighted, Truths, [Next]_vars
  PROVE  Truths'
<1>1. CASE SetupStep \/ ApplySetup \/ Probe \/ EndPreflight \/ Conclude
  <2>1. UNCHANGED <<tc, world, wrote, baseline, late, foreign, verdict>>
    BY <1>1 DEF SetupStep, ApplySetup, Abort, Probe, EndPreflight, Conclude, server
  <2>2. QED
    BY <2>1, TruthsStay
<1>2. CASE SendPlain
  <2>1. PICK i \in DOMAIN tc.order :
          /\ \E e : EndTurn(tc.order[i], e, "none")
          /\ \E s : Effect(tc.order[i], s)
    BY <1>2 DEF SendPlain
  <2>2. UNCHANGED <<wrote, baseline, world, foreign>> /\ (late' = "never" => late = "never")
    BY <1>2, <2>1 DEF SendPlain, Effect
  <2>3. \A j \in Ids : verdict'[j] \in {verdict[j], "none", "inconclusive"}
    BY <2>1, CaseType, TruthsEnds
  <2>4. QED
    BY <2>2, <2>3, TruthsStay, CaseStays
<1>3. CASE StartVerified
  <2>1. PICK i \in DOMAIN tc.order :
          Withhold(tc.order[i]) \/ (Goto(IF tc.reset THEN "reset" ELSE "before")
                                     /\ UNCHANGED <<baseline, wrote>>)
    BY <1>3 DEF StartVerified
  <2>2. UNCHANGED <<wrote, baseline, world, foreign, late>>
    BY <1>3, <2>1 DEF StartVerified, Withhold, server
  <2>3. \A j \in Ids : verdict'[j] \in {verdict[j], "none", "inconclusive"}
    BY <2>1, CaseType, TruthsEnds DEF Withhold, Goto
  <2>4. QED
    BY <2>2, <2>3, TruthsStay, CaseStays
<1>4. CASE Reset \/ ReadBefore \/ ReadAgain
  <2>1. Current \in Ids
    BY <1>4, CurrentType DEF Reset, ReadBefore, ReadAgain
  <2>2. Withhold(Current) \/ \E step : Goto(step)
    BY <1>4 DEF Reset, ReadBefore, ReadAgain
  <2>3. UNCHANGED <<wrote, world, foreign, late>> /\ (baseline' = baseline \/ baseline = NoState)
    BY <1>4 DEF Reset, ReadBefore, ReadAgain, Withhold, server
  <2>4. \A j \in Ids : verdict'[j] \in {verdict[j], "none", "inconclusive"}
    BY <2>1, <2>2, TruthsEnds DEF Withhold, Goto
  <2>5. QED
    BY <2>3, <2>4, TruthsStay, CaseStays
<1>5. CASE SendWrite
  BY <1>5, TruthsWrite
<1>6. CASE ReadAfter
  BY <1>6, TruthsJudged
<1>7. CASE Cancel \/ TakeEffect \/ ForeignChange \/ UNCHANGED vars
  <2>1. UNCHANGED <<tc, world, wrote, baseline, verdict>> /\ (late' = "never" => late = "never")
    BY <1>7 DEF Cancel, TakeEffect, ForeignChange, run, server, vars
  <2>2. foreign' = 0 => foreign = 0
    BY <1>7, CasesAssumption DEF Cancel, TakeEffect, ForeignChange, server, vars, TypeOK
  <2>3. QED
    BY <2>1, <2>2, TruthsStay
<1>8. QED
  BY <1>1, <1>2, <1>3, <1>4, <1>5, <1>6, <1>7 DEF Next, Step

LEMMA TruthsAlways == Spec => []Truths
<1>1. Init => Truths
  BY DEF Init, Truths
<1>2. TypeOK /\ Fixed /\ InTurn /\ Tried /\ Sighted /\ Truths /\ [Next]_vars => Truths'
  BY TruthsStep
<1>3. QED
  BY <1>1, <1>2, TypeCorrect, FixedAlways, InTurnAlways, TriedAlways, PTL DEF Spec

-----------------------------------------------------------------------------
(* From the conclusions to the result. *)

\* The result is what was concluded, or nothing where a probe failed.
Reported ==
  pc = "done" => \/ \A id \in Ids : \E recorded : assessment[id] = Concluded(id, recorded)
                 \/ \A id \in Ids : assessment[id] \in {"inconclusive", "skipped"}

LEMMA ReportedStep ==
  ASSUME TypeOK, Reported, [Next]_vars
  PROVE  Reported'
<1>1. CASE SetupStep \/ ApplySetup \/ Probe \/ SendPlain \/ StartVerified
  BY <1>1 DEF SetupStep, ApplySetup, Abort, Probe, SendPlain, StartVerified, EndTurn, Withhold,
              Goto, Reported
<1>2. CASE Reset \/ ReadBefore \/ ReadAgain \/ SendWrite \/ ReadAfter
  BY <1>2 DEF Reset, ReadBefore, ReadAgain, SendWrite, ReadAfter, EndTurn, Withhold, Goto, Reported
<1>3. CASE EndPreflight
  BY <1>3 DEF EndPreflight, Reported
<1>4. CASE Conclude
  <2>1. UNCHANGED <<tc, exec, verdict>>
    BY <1>4 DEF Conclude
  <2>2. \A id \in Ids : \E recorded : assessment'[id] = Concluded(id, recorded)
    BY <1>4, ConcludeWrites DEF First
  <2>3. \A id \in Ids : \A recorded : Concluded(id, recorded)' = Concluded(id, recorded)
    BY <2>1 DEF Concluded, Guarded, Demoted, Assessed, Verified, Judged
  <2>4. QED
    BY <2>2, <2>3 DEF Reported
<1>5. CASE Cancel \/ TakeEffect \/ ForeignChange \/ UNCHANGED vars
  <2>1. UNCHANGED <<tc, pc, exec, verdict, assessment>>
    BY <1>5 DEF Cancel, TakeEffect, ForeignChange, run, vars
  <2>2. \A id \in Ids : \A recorded : Concluded(id, recorded)' = Concluded(id, recorded)
    BY <2>1 DEF Concluded, Guarded, Demoted, Assessed, Verified, Judged
  <2>3. QED
    BY <2>1, <2>2 DEF Reported
<1>6. QED
  BY <1>1, <1>2, <1>3, <1>4, <1>5 DEF Next, Step

LEMMA ReportedAlways == Spec => []Reported
<1>1. Init => Reported
  BY DEF Init, Reported
<1>2. TypeOK /\ Reported /\ [Next]_vars => Reported'
  BY ReportedStep
<1>3. QED
  BY <1>1, <1>2, TypeCorrect, PTL DEF Spec

\* A verified "allowed" of the result is one of verification, and so is a "denied",
\* which has a control beside it.
LEMMA ReportedVerdict ==
  ASSUME TypeOK, Reported, pc = "done", NEW id \in Ids, Verified(id)
  PROVE  /\ assessment[id] = "allowed" => verdict[id] = "allowed"
         /\ assessment[id] = "denied" => verdict[id] = "denied"
         /\ assessment[id] = "denied" /\ tc.expect[id] = "deny" =>
              \E control \in Ids : tc.expect[control] = "allow" /\ verdict[control] = "allowed"
<1>1. CASE \E recorded : assessment[id] = Concluded(id, recorded)
  BY <1>1 DEF Concluded, Guarded
<1>2. CASE assessment[id] \in {"inconclusive", "skipped"}
  BY <1>2
<1>3. QED
  BY <1>1, <1>2 DEF Reported

LEMMA Environments ==
  ASSUME TypeOK
  PROVE  tc.environment \in {"", "unknown", "synchronous_isolated"}
<1>1. tc \in Case
  BY CasesAssumption DEF TypeOK
<1>2. QED
  BY <1>1, ZenonT(60) DEF Case

\* A verified "allowed" is that identity's own doing: wherever the environment is
\* declared, no write came late and the reader looks at something that does not
\* change by itself, its own request changed the record -- for every number of
\* identities and every failed read.
THEOREM AllowedMeansChanged == Spec => []AllowedTrue
<1>1. TypeOK /\ Fixed /\ Truths /\ Reported => AllowedTrue
  <2>1. SUFFICES ASSUME TypeOK, Fixed, Truths, Reported, NEW id \in Ids, pc = "done", Verified(id),
                        assessment[id] = "allowed", tc.environment # "", late = "never",
                        Steady
                 PROVE  wrote[id].from # wrote[id].to
    BY DEF AllowedTrue
  <2>2. verdict[id] = "allowed"
    BY <2>1, ReportedVerdict
  <2>3. tc.environment # "unknown"
    BY <2>1, <2>2 DEF Truths
  <2>4. foreign = 0
    BY <2>1, <2>3, Environments DEF Fixed, Isolated
  <2>5. QED
    BY <2>1, <2>2, <2>4 DEF Truths
<1>2. QED
  BY <1>1, TypeCorrect, FixedAlways, TruthsAlways, ReportedAlways, PTL

\* Two identities that are judged make the target value, the kind of change or the
\* reset of a case obligatory.
LEMMA TwoJudged ==
  ASSUME TypeOK, Fixed, pc # "aborted", tc.verify, NEW id \in Ids, NEW other \in Ids,
         id # other, Judged(tc, id), Judged(tc, other)
  PROVE  \/ tc.target # NoValue
         \/ tc.strategy \in {"created", "deleted"}
         \/ tc.reset
<1> DEFINE judged == { j \in Ids : Judged(tc, j) }
           declared == { tc.order[i] : i \in DOMAIN tc.order }
<1>1. IsFiniteSet(declared)
  <2>1. DOMAIN tc.order = 1..Len(tc.order) /\ Len(tc.order) \in Nat
    BY CaseType
  <2>2. IsFiniteSet(DOMAIN tc.order)
    BY <2>1, FS_Interval
  <2>3. tc.order \in [DOMAIN tc.order -> declared]
    BY <2>1, CaseType
  <2>4. tc.order \in Surjection(DOMAIN tc.order, declared)
    BY <2>3 DEF Surjection
  <2>5. QED
    BY <2>2, <2>4, FS_Surjection
<1>2. judged \subseteq declared
  BY DEF Fixed, Valid, Judged
<1>3. IsFiniteSet(judged)
  BY <1>1, <1>2, FS_Subset
<1>4. Cardinality(judged) > 1
  <2>1. {id, other} \subseteq judged
    OBVIOUS
  <2>2. Cardinality({id, other}) <= Cardinality(judged)
    BY <1>3, <2>1, FS_Subset
  <2>3. Cardinality({id, other}) = 2
    <3>1. IsFiniteSet({id}) /\ Cardinality({id}) = 1
      BY FS_Singleton
    <3>2. Cardinality({id} \cup {other}) = Cardinality({id}) + 1
      BY <3>1, FS_AddElement
    <3>3. {id, other} = {id} \cup {other}
      OBVIOUS
    <3>4. QED
      BY <3>1, <3>2, <3>3
  <2>4. Cardinality(judged) \in Nat
    BY <1>3, FS_CardinalityType
  <2>5. QED
    BY <2>2, <2>3, <2>4
<1>5. ValidVerification(tc)
  BY DEF Fixed, Valid
<1>6. QED
  BY <1>4, <1>5 DEF ValidVerification

\* A verified "denied" of an identity that was to be denied means that the target
\* did not let its request through, in every declared environment: the control's
\* change was seen by the same reader, from a state in which the denied write
\* would have been seen as well -- provided the reader looks at something that does
\* not change by itself.
THEOREM DenialsAreTrue == Spec => []DeniedTrue
<1>1. TypeOK /\ Fixed /\ Truths /\ Reported => DeniedTrue
  <2>1. SUFFICES ASSUME TypeOK, Fixed, Truths, Reported, NEW id \in Ids, pc = "done", Verified(id),
                        assessment[id] = "denied", tc.expect[id] = "deny", tc.environment # "",
                        Steady, id \in world.admits
                 PROVE  FALSE
    BY DEF DeniedTrue
  <2>2. PICK control \in Ids : tc.expect[control] = "allow" /\ verdict[control] = "allowed"
    BY <2>1, ReportedVerdict
  <2>3. verdict[id] = "denied"
    BY <2>1, ReportedVerdict
  <2>4. tc.environment # "unknown" /\ world.oracle = "record"
    BY <2>1, <2>2 DEF Truths
  <2>5. Isolated
    BY <2>1, <2>4, Environments DEF Isolated
  <2>6. /\ tc.strategy = "created" => world.effect # Absent
        /\ tc.strategy = "deleted" => world.effect = Absent
        /\ tc.target # NoValue => world.effect = tc.target
        /\ tc.reset => ~Seen(baseline, world.effect)
    BY <2>1, <2>2, <2>5 DEF Truths
  <2>7. /\ tc.strategy = "created" => world.effect = Absent
        /\ tc.strategy = "deleted" => world.effect # Absent
        /\ tc.target # NoValue => world.effect # tc.target
        /\ tc.reset => Seen(baseline, world.effect)
    BY <2>1, <2>3, <2>4, <2>5 DEF Truths
  <2>8. \/ tc.target # NoValue
        \/ tc.strategy \in {"created", "deleted"}
        \/ tc.reset
    BY <2>1, <2>2, TwoJudged DEF Verified, Judged
  <2>9. QED
    BY <2>6, <2>7, <2>8
<1>2. QED
  BY <1>1, TypeCorrect, FixedAlways, TruthsAlways, ReportedAlways, PTL

\* What a reader of the value sees once, it sees of one value only.
LEMMA SeenOnce ==
  ASSUME NEW s, NEW v, NEW w, tc.pointer, Seen(s, v), Seen(s, w)
  PROVE  v = w
BY SuccessIs DEF Seen

\* Every verified write is tried on a record it can be judged on, and with a reset on
\* the same one for all identities, whatever the reset claims to have done.
THEOREM TriedOnBaselines == Spec => []TriedFromBaseline
<1>1. Fixed /\ Truths => TriedFromBaseline
  <2>1. SUFFICES ASSUME Fixed, Truths, tc.verify, Isolated, world.oracle = "record", late = "never",
                        NEW id \in Ids, wrote[id] # NotSent
                 PROVE  /\ tc.strategy = "created" <=> wrote[id].from = Absent
                        /\ tc.target # NoValue => wrote[id].from # tc.target
                        /\ tc.reset /\ tc.pointer =>
                             \A other \in Ids : wrote[other] # NotSent
                               => wrote[other].from = wrote[id].from
    BY DEF TriedFromBaseline
  <2>2. foreign = 0
    BY <2>1 DEF Fixed
  <2>3. \A j \in Ids : wrote[j] # NotSent =>
          /\ tc.strategy = "created" <=> wrote[j].from = Absent
          /\ tc.target # NoValue => wrote[j].from # tc.target
          /\ tc.reset => Seen(baseline, wrote[j].from)
    BY <2>1, <2>2 DEF Truths
  <2>4. QED
    BY <2>1, <2>3, SeenOnce
<1>2. QED
  BY <1>1, FixedAlways, TruthsAlways, PTL

-----------------------------------------------------------------------------
(* Whoever is to be denied goes first. *)

\* Every identity to be denied has been judged.
DeniedJudged ==
  \A id \in Ids : tc.expect[id] = "deny" /\ Declared(id) => verdict[id] # "none"

DenyOrder ==
  /\ DenyFirst
  /\ pc \in Verifying /\ tc.expect[Current] # "deny" => DeniedJudged

\* The identity that is next is to be denied as long as one of these waits.
LEMMA NextAfterDenied ==
  ASSUME TypeOK, InTurn, tc.verify, pc = "turn", NEW i \in DOMAIN tc.order, IsNext(i),
         tc.expect[tc.order[i]] # "deny"
  PROVE  DeniedJudged
<1>1. SUFFICES ASSUME NEW id \in Ids, tc.expect[id] = "deny", Declared(id), verdict[id] = "none"
               PROVE  FALSE
  BY DEF DeniedJudged
<1>2. PICK k \in DOMAIN tc.order : tc.order[k] = id
  BY <1>1 DEF Declared
<1>3. ~exec[id].sent
  BY <1>1 DEF InTurn, Verified, Judged
<1>4. k \in Waiting /\ k # i
  BY <1>1, <1>2, <1>3 DEF Waiting
<1>5. Precedes(i, k)
  BY <1>4 DEF IsNext
<1>6. QED
  BY <1>1, <1>2, <1>5 DEF Precedes

\* A turn that ends takes no verdict back.
LEMMA DeniedStays ==
  ASSUME TypeOK, NEW id \in Ids, NEW e, NEW d, EndTurn(id, e, d), d # "none" \/ verdict[id] = "none"
  PROVE  /\ DeniedJudged => DeniedJudged'
         /\ \A j \in Ids : verdict[j] # "none" => verdict'[j] # "none"
         /\ \A j \in Ids \ {id} : exec'[j] = exec[j]
         /\ exec'[id] = e
BY DEF EndTurn, TypeOK, DeniedJudged, Declared

LEMMA DenyOrderEnds ==
  ASSUME TypeOK, DenyOrder, NEW id \in Ids, NEW e, NEW d, EndTurn(id, e, d),
         d # "none" \/ verdict[id] = "none",
         tc.verify /\ e.sent /\ tc.expect[id] # "deny" => DeniedJudged
  PROVE  DenyOrder'
<1>1. tc' = tc /\ pc' = "turn"
  BY DEF EndTurn
<1>2. DenyFirst'
  <2>1. SUFFICES ASSUME tc.verify, NEW j \in Ids, NEW other \in Ids,
                        tc.expect[j] = "deny", tc.expect[other] # "deny",
                        exec'[other].sent, Declared(j)
                 PROVE  verdict'[j] # "none"
    BY <1>1 DEF DenyFirst, Declared
  <2>2. CASE other = id
    BY <2>1, <2>2, DeniedStays DEF DeniedJudged
  <2>3. CASE other # id
    BY <2>1, <2>3, DeniedStays DEF DenyOrder, DenyFirst
  <2>4. QED
    BY <2>2, <2>3
<1>3. QED
  BY <1>1, <1>2 DEF DenyOrder, Verifying

LEMMA DenyOrderWithheld ==
  ASSUME TypeOK, DenyOrder, NEW id \in Ids, Withhold(id)
  PROVE  DenyOrder'
<1>1. EndTurn(id, NoExec, "inconclusive") /\ ~NoExec.sent
  BY DEF Withhold, NoExec
<1>2. QED
  BY <1>1, DenyOrderEnds

\* Steps that judge nobody and send nothing.
LEMMA DenyOrderStays ==
  ASSUME DenyOrder, tc' = tc, exec' = exec, verdict' = verdict,
         pc' \in Verifying => pc \in Verifying /\ at' = at
  PROVE  DenyOrder'
BY DEF DenyOrder, DenyFirst, DeniedJudged, Declared, Current

LEMMA DenyOrderStep ==
  ASSUME TypeOK, InTurn, DenyOrder, [Next]_vars
  PROVE  DenyOrder'
<1>1. CASE SetupStep \/ ApplySetup \/ Probe \/ EndPreflight \/ Conclude
  BY <1>1, DenyOrderStays DEF SetupStep, ApplySetup, Abort, Probe, EndPreflight, Conclude, Verifying
<1>2. CASE SendPlain
  <2>1. PICK i \in DOMAIN tc.order :
          IsNext(i) /\ ~Verified(tc.order[i]) /\ \E e : EndTurn(tc.order[i], e, "none")
    BY <1>2 DEF SendPlain
  <2>2. tc.order[i] \in Ids /\ pc = "turn" /\ verdict[tc.order[i]] = "none"
    BY <1>2, <2>1, CaseType DEF SendPlain, IsNext, Waiting
  <2>3. tc.verify => tc.expect[tc.order[i]] # "deny"
    BY <2>1 DEF Verified, Judged
  <2>4. tc.verify => DeniedJudged
    BY <2>1, <2>2, <2>3, NextAfterDenied
  <2>5. QED
    BY <2>1, <2>2, <2>4, DenyOrderEnds
<1>3. CASE StartVerified
  <2>1. PICK i \in DOMAIN tc.order :
          /\ IsNext(i) /\ Verified(tc.order[i]) /\ at' = i
          /\ IF cancelled THEN Withhold(tc.order[i])
             ELSE Goto(IF tc.reset THEN "reset" ELSE "before")
    BY <1>3 DEF StartVerified
  <2>2. tc.order[i] \in Ids /\ pc = "turn" /\ tc.verify
    BY <1>3, <2>1, CaseType DEF StartVerified, Verified
  <2>3. CASE cancelled
    BY <2>1, <2>2, <2>3, DenyOrderWithheld
  <2>4. CASE ~cancelled
    <3>1. UNCHANGED <<tc, exec, verdict>>
      BY <2>1, <2>4 DEF Goto
    <3>2. DenyFirst'
      BY <3>1 DEF DenyOrder, DenyFirst, Declared
    <3>3. tc.expect[tc.order[i]] # "deny" => DeniedJudged
      BY <2>1, <2>2, NextAfterDenied
    <3>4. QED
      BY <2>1, <3>1, <3>2, <3>3 DEF DenyOrder, DeniedJudged, Declared, Current
  <2>5. QED
    BY <2>3, <2>4
<1>4. CASE Reset \/ ReadBefore \/ ReadAgain
  <2>1. Current \in Ids /\ pc \in Verifying /\ at' = at
    BY <1>4, CurrentType DEF Reset, ReadBefore, ReadAgain, Verifying
  <2>2. Withhold(Current) \/ \E step \in {"before", "again", "write"} : Goto(step)
    BY <1>4 DEF Reset, ReadBefore, ReadAgain
  <2>3. CASE Withhold(Current)
    BY <2>1, <2>3, DenyOrderWithheld
  <2>4. CASE \E step \in {"before", "again", "write"} : Goto(step)
    BY <2>1, <2>4, DenyOrderStays DEF Goto
  <2>5. QED
    BY <2>2, <2>3, <2>4
<1>5. CASE SendWrite
  <2>1. Current \in Ids /\ pc \in Verifying
    BY <1>5, CurrentType DEF SendWrite, Verifying
  <2>2. UNCHANGED <<tc, at, verdict>> /\ \E e : exec' = [exec EXCEPT ![Current] = e]
    BY <1>5 DEF SendWrite
  <2>3. \A j \in Ids \ {Current} : exec'[j] = exec[j]
    BY <2>1, <2>2 DEF TypeOK
  <2>4. DenyFirst'
    BY <2>1, <2>2, <2>3 DEF DenyOrder, DenyFirst, DeniedJudged, Declared
  <2>5. QED
    BY <2>1, <2>2, <2>4 DEF DenyOrder, DeniedJudged, Declared, Current
<1>6. CASE ReadAfter
  <2>1. Current \in Ids /\ pc \in Verifying
    BY <1>6, CurrentType DEF ReadAfter, Verifying
  <2>2. \E d \in {"allowed", "denied", "inconclusive"} : EndTurn(Current, exec[Current], d)
    BY <1>6, ConclusionType, DemotedType DEF ReadAfter
  <2>3. tc.expect[Current] # "deny" => DeniedJudged
    BY <2>1 DEF DenyOrder
  <2>4. QED
    BY <2>1, <2>2, <2>3, DenyOrderEnds
<1>7. CASE Cancel \/ TakeEffect \/ ForeignChange \/ UNCHANGED vars
  BY <1>7, DenyOrderStays DEF Cancel, TakeEffect, ForeignChange, run, vars
<1>8. QED
  BY <1>1, <1>2, <1>3, <1>4, <1>5, <1>6, <1>7 DEF Next, Step

\* While an identity that is to be denied waits for its turn, nobody else has sent
\* the verified request, however the case lists them: what an identity that may write
\* leaves behind never reads as the effect of a forbidden write.
THEOREM DeniedGoFirst == Spec => []DenyFirst
<1>1. Init => DenyOrder
  BY DEF Init, DenyOrder, DenyFirst, Verifying, NoExec
<1>2. TypeOK /\ InTurn /\ DenyOrder /\ [Next]_vars => DenyOrder'
  BY DenyOrderStep
<1>3. DenyOrder => DenyFirst
  BY DEF DenyOrder
<1>4. QED
  BY <1>1, <1>2, <1>3, TypeCorrect, InTurnAlways, PTL DEF Spec
-----------------------------------------------------------------------------
(* Every step brings a run closer to its end. *)

Unsent == { id \in ToProbe : probes[id] = "unsent" }

\* More than the turns can take.
Turning == 6 * Len(tc.order) + 2

\* At most how many steps a run has left: one for each setup step and each probe, and
\* six for each identity that waits for its turn.
Distance ==
  LET left == 6 * Cardinality(Waiting)
  IN  CASE pc = "setup" -> Turning + Cardinality(Unsent) + tc.setup + 2 - at
        [] pc = "preflight" -> Turning + Cardinality(Unsent)
        [] pc = "turn" -> left + 1
        [] pc = "reset" -> left
        [] pc = "before" -> left - 1
        [] pc = "again" -> left - 2
        [] pc = "write" -> left - 3
        [] pc = "after" -> left + 2
        [] OTHER -> 0

InSetup == pc = "setup" => at <= tc.setup + 1

LEMMA SetupInt == ASSUME TypeOK PROVE tc.setup \in Nat /\ at \in Nat /\ Len(tc.order) \in Nat
<1>1. tc \in Case
  BY CasesAssumption DEF TypeOK
<1>2. tc.setup \in Nat
  BY <1>1, ZenonT(60) DEF Case
<1>3. QED
  BY <1>2, CaseType DEF TypeOK

\* The sets that are counted are finite.
LEMMA LeftType ==
  ASSUME TypeOK
  PROVE  /\ IsFiniteSet(Waiting) /\ Cardinality(Waiting) \in 0..Len(tc.order)
         /\ IsFiniteSet(Unsent) /\ Cardinality(Unsent) \in Nat
<1> DEFINE D == DOMAIN tc.order
           named == { tc.order[i] : i \in D }
<1>1. Len(tc.order) \in Nat /\ D = 1..Len(tc.order)
  BY CaseType
<1>2. IsFiniteSet(D) /\ Cardinality(D) = Len(tc.order)
  <2>1. \A n \in Nat : IsFiniteSet(1..n) /\ Cardinality(1..n) = n
    BY FS_Interval, SMTT(60)
  <2>2. QED
    BY <1>1, <2>1
<1>3. Waiting \subseteq D
  BY DEF Waiting
<1>4. IsFiniteSet(Waiting) /\ Cardinality(Waiting) \in Nat /\ Cardinality(Waiting) <= Cardinality(D)
  BY <1>2, <1>3, FS_Subset, FS_CardinalityType
<1>5. IsFiniteSet(named \cup {Reader})
  <2>1. IsFiniteSet(named)
    BY <1>2, FiniteImage
  <2> HIDE DEF named
  <2>2. QED
    BY <2>1, FS_AddElement
<1>6. Unsent \subseteq named \cup {Reader}
  BY DEF Unsent, ToProbe, Declared
<1> HIDE DEF named, D
<1>7. IsFiniteSet(Unsent) /\ Cardinality(Unsent) \in Nat
  BY <1>5, <1>6, FS_Subset, FS_CardinalityType
<1>8. QED
  BY <1>1, <1>2, <1>4, <1>7

\* Whoever is in a verified turn before its write waits.
LEMMA CurrentWaits ==
  ASSUME TypeOK, InTurn, pc \in {"reset", "before", "again", "write"}
  PROVE  at \in Waiting /\ Cardinality(Waiting) >= 1
<1>1. at \in Waiting
  BY CurrentType DEF InTurn, Verifying, Waiting, Current
<1>2. Waiting # {} /\ IsFiniteSet(Waiting) /\ Cardinality(Waiting) \in Nat
  BY <1>1, LeftType
<1>3. Cardinality(Waiting) # 0
  BY <1>2, FS_EmptySet
<1>4. QED
  BY <1>1, <1>2, <1>3

LEMMA DistanceType ==
  ASSUME TypeOK, InTurn, InSetup
  PROVE  Distance \in Nat /\ (Running => Distance >= 1)
<1> DEFINE w == Cardinality(Waiting)
           u == Cardinality(Unsent)
<1>1. w \in Nat /\ u \in Nat /\ tc.setup \in Nat /\ at \in Nat /\ Turning \in Nat
  BY LeftType, SetupInt DEF Turning
<1>2. pc \in {"reset", "before", "again", "write"} => w >= 1
  BY CurrentWaits
<1> HIDE DEF w, u
<1>3. CASE pc = "setup"
  BY <1>1, <1>3 DEF Distance, u, InSetup
<1>4. CASE pc = "preflight"
  <2>1. Distance = Turning + u
    BY <1>4 DEF Distance, u
  <2>2. Turning >= 1
    BY SetupInt DEF Turning
  <2>3. QED
    BY <1>1, <2>1, <2>2
<1>5. CASE pc \in {"turn", "reset", "before", "again", "write", "after"}
  BY <1>1, <1>2, <1>5 DEF Distance, w
<1>6. CASE pc \in {"done", "aborted"}
  BY <1>6 DEF Distance, Running
<1>7. QED
  BY <1>3, <1>4, <1>5, <1>6 DEF TypeOK

\* Whoever's turn ends does not wait any more, and nobody waits again.
LEMMA EndedLeaves ==
  ASSUME TypeOK, NEW id \in Ids, NEW e, NEW d, EndTurn(id, e, d), d # "none" \/ e.sent
  PROVE  Waiting' = { i \in Waiting : tc.order[i] # id }
<1>1. /\ tc' = tc
      /\ \A j \in Ids : /\ exec'[j] = (IF j = id THEN e ELSE exec[j])
                        /\ verdict'[j] = (IF j = id THEN d ELSE verdict[j])
  BY DEF EndTurn, TypeOK
<1>2. \A i \in DOMAIN tc.order : tc.order[i] \in Ids
  BY CaseType
<1>3. QED
  BY <1>1, <1>2 DEF Waiting

LEMMA EndedIsCloser ==
  ASSUME TypeOK, NEW i \in Waiting, NEW e, NEW d, EndTurn(tc.order[i], e, d), d # "none" \/ e.sent
  PROVE  /\ Distance' = 6 * Cardinality(Waiting') + 1
         /\ Cardinality(Waiting') \in Nat /\ Cardinality(Waiting') < Cardinality(Waiting)
<1>1. tc.order[i] \in Ids
  BY CaseType DEF Waiting
<1>2. Waiting' = { k \in Waiting : tc.order[k] # tc.order[i] }
  BY <1>1, EndedLeaves
<1>3. Waiting' \subseteq Waiting /\ Waiting' # Waiting
  BY <1>2
<1>4. IsFiniteSet(Waiting)
  BY LeftType
<1>5. Cardinality(Waiting') \in Nat /\ Cardinality(Waiting') < Cardinality(Waiting)
  BY <1>3, <1>4, FS_Subset, FS_CardinalityType
<1>6. Distance' = 6 * Cardinality(Waiting') + 1
  BY DEF EndTurn, Distance
<1>7. QED
  BY <1>5, <1>6

\* Setup, probes, and the end of either.
LEMMA CloserBeforeTurns ==
  ASSUME TypeOK, InTurn, InSetup, SetupStep \/ ApplySetup \/ Probe \/ EndPreflight
  PROVE  InSetup' /\ Distance' < Distance
<1> DEFINE u == Cardinality(Unsent)
           w == Cardinality(Waiting)
<1>1. /\ u \in Nat /\ w \in 0..Len(tc.order) /\ tc.setup \in Nat /\ at \in Nat /\ Len(tc.order) \in Nat
      /\ Turning = 6 * Len(tc.order) + 2 /\ Distance \in Nat
  BY LeftType, SetupInt, DistanceType DEF Turning
<1>2. CASE pc' = "aborted" /\ Running
  <2>1. Distance' = 0
    BY <1>2 DEF Distance
  <2>2. QED
    BY <1>2, <2>1, DistanceType DEF InSetup
<1>3. CASE pc = "setup" /\ UNCHANGED <<tc, probes>> /\ ((pc' = "setup" /\ at <= tc.setup /\ at' = at + 1)
                                                        \/ (pc' = "preflight" /\ at' = at))
  <2>1. Unsent' = Unsent /\ Turning' = Turning
    BY <1>3 DEF Unsent, ToProbe, Declared, Turning
  <2>2. Distance = Turning + u + tc.setup + 2 - at /\ at <= tc.setup + 1
    BY <1>3 DEF Distance, InSetup
  <2>3. CASE pc' = "setup"
    <3>1. Distance' = Turning + u + tc.setup + 2 - (at + 1)
      BY <1>3, <2>1, <2>3 DEF Distance
    <3> HIDE DEF u
    <3>2. Distance' < Distance
      <4>1. PICK t \in Nat, v \in Nat : t = Turning /\ v = u
        BY <1>1
      <4>2. Distance = t + v + tc.setup + 2 - at /\ Distance' = t + v + tc.setup + 2 - (at + 1)
        BY <2>2, <3>1, <4>1
      <4>3. QED
        BY <1>1, <4>2
    <3>3. InSetup'
      BY <1>1, <1>3, <2>3 DEF InSetup
    <3>4. QED
      BY <3>2, <3>3
  <2>4. CASE pc' = "preflight"
    <3>1. Distance' = Turning + u
      BY <2>1, <2>4 DEF Distance
    <3> HIDE DEF u
    <3>2. PICK t \in Nat, v \in Nat : t = Turning /\ v = u
      BY <1>1
    <3>3. Distance = t + v + tc.setup + 2 - at /\ Distance' = t + v
      BY <2>2, <3>1, <3>2
    <3>4. Distance' < Distance
      BY <1>1, <2>2, <3>3
    <3>5. QED
      BY <2>4, <3>4 DEF InSetup
  <2>5. QED
    BY <1>3, <2>3, <2>4
<1>4. CASE Probe
  <2>1. PICK id \in ToProbe : /\ probes[id] = "unsent" /\ \E r \in {"passed", "failed"} :
                                                          probes' = [probes EXCEPT ![id] = r]
    BY <1>4 DEF Probe
  <2>2. UNCHANGED <<tc, pc, at>> /\ pc = "preflight"
    BY <1>4 DEF Probe
  <2>3. ToProbe' = ToProbe /\ Turning' = Turning
    BY <2>2 DEF ToProbe, Declared, Turning
  <2>4. ToProbe \subseteq Ids \cup {Reader}
    <3>1. tc \in Case
      BY CasesAssumption DEF TypeOK
    <3>2. tc.preflight \in SUBSET (Ids \cup {Reader})
      BY <3>1, ZenonT(60) DEF Case
    <3>3. QED
      BY <3>2 DEF ToProbe
  <2>5. \A k \in ToProbe : probes'[k] = "unsent" <=> probes[k] = "unsent" /\ k # id
    BY <2>1, <2>4 DEF TypeOK
  <2>6. Unsent' = Unsent \ {id} /\ id \in Unsent
    BY <2>1, <2>3, <2>5 DEF Unsent
  <2>7. Cardinality(Unsent') = u - 1
    BY <2>6, LeftType, FS_RemoveElement
  <2>8. Distance = Turning + u /\ Distance' = Turning + Cardinality(Unsent')
    BY <2>2, <2>3 DEF Distance
  <2> HIDE DEF u
  <2>9. QED
    BY <1>1, <2>2, <2>7, <2>8 DEF InSetup
<1>5. CASE EndPreflight
  <2>1. pc = "preflight" /\ UNCHANGED <<tc, exec, verdict>> /\ pc' \in {"turn", "done"}
    BY <1>5 DEF EndPreflight
  <2>2. Waiting' = Waiting
    BY <2>1 DEF Waiting
  <2>3. Distance = Turning + u /\ Distance' \in {0, 6 * w + 1}
    BY <2>1, <2>2 DEF Distance
  <2> HIDE DEF u, w
  <2>4. QED
    BY <1>1, <2>1, <2>3 DEF InSetup
<1>6. QED
  BY <1>2, <1>3, <1>4, <1>5 DEF SetupStep, ApplySetup, Abort, Running

\* A turn ends, or goes on with its next exchange.
LEMMA CloserWithheld ==
  ASSUME TypeOK, NEW i \in Waiting, Withhold(tc.order[i]),
         pc \in {"turn", "reset", "before", "again"}
  PROVE  Distance' < Distance
<1>1. EndTurn(tc.order[i], NoExec, "inconclusive")
  BY DEF Withhold
<1>2. /\ Distance' = 6 * Cardinality(Waiting') + 1
      /\ Cardinality(Waiting') \in Nat /\ Cardinality(Waiting') < Cardinality(Waiting)
  BY <1>1, EndedIsCloser
<1>3. PICK w \in Nat : w = Cardinality(Waiting)
  BY LeftType
<1>4. Distance >= 6 * w - 2 /\ Distance \in Int
  BY <1>3 DEF Distance
<1>5. QED
  BY <1>2, <1>3, <1>4

LEMMA CloserGoes ==
  ASSUME TypeOK, NEW step, Goto(step),
         \/ pc = "turn" /\ step \in {"reset", "before"}
         \/ pc = "reset" /\ step = "before"
         \/ pc = "before" /\ step = "again"
         \/ pc = "again" /\ step = "write"
  PROVE  Distance' < Distance
<1>1. Waiting' = Waiting /\ pc' = step
  BY DEF Goto, Waiting
<1>2. PICK w \in Nat : w = Cardinality(Waiting)
  BY LeftType
<1>3. QED
  BY <1>1, <1>2 DEF Distance

LEMMA CloserInTurns ==
  ASSUME TypeOK, InTurn,
         SendPlain \/ StartVerified \/ Reset \/ ReadBefore \/ ReadAgain \/ SendWrite \/ ReadAfter \/ Conclude
  PROVE  Distance' < Distance /\ pc' # "setup"
<1>1. PICK w \in Nat : w = Cardinality(Waiting)
  BY LeftType
<1>2. CASE SendPlain
  <2>1. PICK i \in DOMAIN tc.order : IsNext(i) /\ \E e : e.sent /\ EndTurn(tc.order[i], e, "none")
    BY <1>2 DEF SendPlain
  <2>2. i \in Waiting /\ pc = "turn"
    BY <1>2, <2>1 DEF IsNext, SendPlain
  <2>3. PICK e : e.sent /\ EndTurn(tc.order[i], e, "none")
    BY <2>1
  <2>4. /\ Distance' = 6 * Cardinality(Waiting') + 1
        /\ Cardinality(Waiting') \in Nat /\ Cardinality(Waiting') < Cardinality(Waiting)
    BY <2>2, <2>3, EndedIsCloser
  <2>5. Distance = 6 * w + 1
    BY <1>1, <2>2 DEF Distance
  <2>6. QED
    BY <1>1, <2>3, <2>4, <2>5 DEF EndTurn
<1>3. CASE StartVerified
  <2>1. PICK i \in DOMAIN tc.order :
          /\ IsNext(i)
          /\ Withhold(tc.order[i]) \/ Goto(IF tc.reset THEN "reset" ELSE "before")
    BY <1>3 DEF StartVerified
  <2>2. i \in Waiting /\ pc = "turn"
    BY <1>3, <2>1 DEF IsNext, StartVerified
  <2>3. Distance' < Distance
    BY <2>1, <2>2, CloserWithheld, CloserGoes
  <2>4. QED
    BY <2>1, <2>3 DEF Withhold, EndTurn, Goto
<1>4. CASE Reset \/ ReadBefore \/ ReadAgain
  <2>1. \/ Withhold(Current) /\ pc \in {"reset", "before", "again"}
        \/ Goto("before") /\ pc = "reset"
        \/ Goto("again") /\ pc = "before"
        \/ Goto("write") /\ pc = "again"
    BY <1>4 DEF Reset, ReadBefore, ReadAgain
  <2>2. at \in Waiting
    BY <2>1, CurrentWaits
  <2>3. Distance' < Distance
    BY <2>1, <2>2, CloserWithheld, CloserGoes DEF Current
  <2>4. QED
    BY <2>1, <2>3 DEF Withhold, EndTurn, Goto
<1>5. CASE SendWrite
  <2>1. /\ pc = "write" /\ pc' = "after" /\ UNCHANGED <<tc, verdict>>
        /\ \E e : e.sent /\ exec' = [exec EXCEPT ![Current] = e]
    BY <1>5 DEF SendWrite, NoExec
  <2>2. at \in Waiting /\ Current \in Ids
    BY <2>1, CurrentWaits, CurrentType
  <2>3. Waiting' = { i \in Waiting : tc.order[i] # Current }
    <3>1. PICK e : e.sent /\ exec' = [exec EXCEPT ![Current] = e]
      BY <2>1
    <3>2. \A j \in Ids : exec'[j] = IF j = Current THEN e ELSE exec[j]
      BY <3>1 DEF TypeOK
    <3>3. \A i \in DOMAIN tc.order : tc.order[i] \in Ids
      BY CaseType
    <3>4. QED
      BY <2>1, <3>1, <3>2, <3>3 DEF Waiting
  <2>4. Waiting' \subseteq Waiting /\ Waiting' # Waiting
    BY <2>2, <2>3 DEF Current
  <2>5. Cardinality(Waiting') \in Nat /\ Cardinality(Waiting') < w
    BY <1>1, <2>4, LeftType, FS_Subset, FS_CardinalityType
  <2>6. Distance = 6 * w - 3 /\ Distance' = 6 * Cardinality(Waiting') + 2
    BY <1>1, <2>1 DEF Distance
  <2>7. QED
    BY <2>1, <2>5, <2>6
<1>6. CASE ReadAfter
  <2>1. pc = "after" /\ \E d \in {"allowed", "denied", "inconclusive"} : EndTurn(Current, exec[Current], d)
    BY <1>6, ConclusionType, DemotedType DEF ReadAfter
  <2>2. PICK d : d # "none" /\ EndTurn(Current, exec[Current], d)
    BY <2>1
  <2>3. Waiting' = { i \in Waiting : tc.order[i] # Current }
    BY <2>1, <2>2, CurrentType, EndedLeaves
  <2>4. Cardinality(Waiting') \in Nat /\ Cardinality(Waiting') <= w
    BY <1>1, <2>3, LeftType, FS_Subset, FS_CardinalityType
  <2>5. Distance = 6 * w + 2 /\ Distance' = 6 * Cardinality(Waiting') + 1 /\ pc' = "turn"
    BY <1>1, <2>1, <2>2 DEF Distance, EndTurn
  <2>6. QED
    BY <1>1, <2>4, <2>5
<1>7. CASE Conclude
  <2>1. pc = "turn" /\ pc' = "done"
    BY <1>7 DEF Conclude
  <2>2. Distance = 6 * w + 1 /\ Distance' = 0
    BY <1>1, <2>1 DEF Distance
  <2>3. QED
    BY <1>1, <2>1, <2>2
<1>8. QED
  BY <1>2, <1>3, <1>4, <1>5, <1>6, <1>7

\* Cancellation, late writes and other people leave the distance as it is.
LEMMA SameDistance ==
  ASSUME UNCHANGED run
  PROVE  Distance' = Distance /\ (InSetup => InSetup')
<1>1. UNCHANGED <<tc, pc, at, probes, exec, verdict>>
  BY DEF run
<1>2. Waiting' = Waiting /\ Unsent' = Unsent /\ Turning' = Turning
  BY <1>1 DEF Waiting, Unsent, ToProbe, Declared, Turning
<1>3. QED
  BY <1>1, <1>2 DEF Distance, InSetup

\* No run goes on for ever: whatever the target answers, each step of the engine leaves
\* less to do, nothing else gives it more, and what there is to do at the start is
\* bounded by the case (Run, verifiedExecute).
THEOREM EveryStepIsCloser ==
  Spec => [](Distance \in Nat) /\ [][(Step => Distance' < Distance) /\ Distance' <= Distance]_vars
<1>1. Init => InSetup
  <2> SUFFICES ASSUME Init PROVE InSetup
    OBVIOUS
  <2>1. tc.setup \in Nat /\ at = 1
    BY InitType, SetupInt DEF Init
  <2>2. QED
    BY <2>1 DEF InSetup
<1>2. TypeOK /\ InTurn /\ InSetup /\ [Next]_vars
        => InSetup' /\ (Step => Distance' < Distance) /\ (UNCHANGED run \/ Step)
  <2> SUFFICES ASSUME TypeOK, InTurn, InSetup, [Next]_vars
               PROVE  InSetup' /\ (Step => Distance' < Distance) /\ (UNCHANGED run \/ Step)
    OBVIOUS
  <2>1. CASE SetupStep \/ ApplySetup \/ Probe \/ EndPreflight
    BY <2>1, CloserBeforeTurns DEF Step
  <2>2. CASE SendPlain \/ StartVerified \/ Reset \/ ReadBefore \/ ReadAgain \/ SendWrite \/ ReadAfter
             \/ Conclude
    BY <2>2, CloserInTurns DEF Step, InSetup
  <2>3. CASE UNCHANGED run /\ ~Step
    BY <2>3, SameDistance
  <2>4. QED
    BY <2>1, <2>2, <2>3 DEF Next, Step, Cancel, TakeEffect, ForeignChange, vars
<1>3. TypeOK /\ InTurn /\ InSetup /\ (Distance \in Nat) /\ (Distance \in Nat)' /\ [Next]_vars
        => [(Step => Distance' < Distance) /\ Distance' <= Distance]_vars
  <2> SUFFICES ASSUME TypeOK, InTurn, InSetup, Distance \in Nat, Distance' \in Nat, [Next]_vars
               PROVE  (Step => Distance' < Distance) /\ Distance' <= Distance
    OBVIOUS
  <2>2. (Step => Distance' < Distance) /\ (UNCHANGED run \/ Step)
    BY <1>2
  <2>3. UNCHANGED run => Distance' = Distance
    BY SameDistance
  <2>4. QED
    BY <2>2, <2>3
<1>4. TypeOK /\ InTurn /\ InSetup => Distance \in Nat
  BY DistanceType
<1>5. QED
  BY <1>1, <1>2, <1>3, <1>4, TypeCorrect, InTurnAlways, PTL DEF Spec

-----------------------------------------------------------------------------
(* Somebody is always next. *)

\* Whose probe is the next one to be sent.
ProbedNext(id) ==
  IF id = Reader THEN Unprobed = {}
  ELSE \E i \in Unprobed : tc.order[i] = id /\ \A k \in Unprobed : i <= k

LEMMA NextWaits == ASSUME TypeOK, Waiting # {} PROVE \E i \in DOMAIN tc.order : IsNext(i)
<1> DEFINE R == { ik \in Waiting \X Waiting : Precedes(ik[1], ik[2]) }
           first(n) == tc.verify /\ tc.expect[tc.order[n]] = "deny"
<1>1. Waiting \subseteq Nat /\ Waiting \subseteq DOMAIN tc.order /\ IsFiniteSet(Waiting)
  BY CaseType, LeftType DEF Waiting
<1>2. \A i, k \in Waiting : <<i, k>> \in R <=> Precedes(i, k)
  OBVIOUS
<1>3. \A i, k : Precedes(i, k) = IF first(i) = first(k) THEN i < k ELSE first(i)
  BY DEF Precedes
<1>4. \A i : first(i) \in BOOLEAN
  OBVIOUS
<1> HIDE DEF R, first
<1>5. \A i, k \in Waiting : i = k \/ <<i, k>> \in R \/ <<k, i>> \in R
  <2> SUFFICES ASSUME NEW i \in Waiting, NEW k \in Waiting
               PROVE  i = k \/ Precedes(i, k) \/ Precedes(k, i)
    BY <1>2
  <2>1. \A m, n \in Nat : m = n \/ m < n \/ n < m
    OBVIOUS
  <2>2. i = k \/ i < k \/ k < i
    BY <1>1, <2>1, Zenon
  <2>3. QED
    BY <1>3, <1>4, <2>2
<1>6. \A i, j, k \in Waiting : <<i, j>> \in R /\ <<j, k>> \in R => <<i, k>> \in R
  BY <1>1, <1>2, <1>3, <1>4
<1>7. \E i \in Waiting : \A k \in Waiting : k # i => <<i, k>> \in R
  BY <1>1, <1>5, <1>6, LeastExists
<1>8. QED
  BY <1>1, <1>2, <1>7 DEF IsNext

LEMMA NextProbe == ASSUME TypeOK, Unsent # {} PROVE \E id \in Unsent : ProbedNext(id)
<1>1. Unprobed \subseteq DOMAIN tc.order /\ DOMAIN tc.order = 1..Len(tc.order) /\ Len(tc.order) \in Nat
  BY CaseType DEF Unprobed
<1>2. CASE Unprobed = {}
  <2>1. PICK id \in Unsent : TRUE
    OBVIOUS
  <2>2. CASE id # Reader
    <3>1. PICK i \in DOMAIN tc.order : tc.order[i] = id
      BY <2>2 DEF Unsent, ToProbe, Declared
    <3>2. i \in Unprobed
      BY <3>1 DEF Unprobed, Unsent
    <3>3. QED
      BY <1>2, <3>2
  <2>3. CASE id = Reader
    BY <1>2, <2>1, <2>3 DEF ProbedNext
  <2>4. QED
    BY <2>2, <2>3
<1>3. CASE Unprobed # {}
  <2> DEFINE R == { ik \in Unprobed \X Unprobed : ik[1] < ik[2] }
  <2>1. IsFiniteSet(Unprobed)
    <3>1. IsFiniteSet(1..Len(tc.order))
      BY <1>1, FS_Interval
    <3>2. QED
      BY <1>1, <3>1, FS_Subset
  <2>2. \A i, k \in Unprobed : <<i, k>> \in R <=> i < k
    OBVIOUS
  <2>3. \A i \in Unprobed : i \in Nat
    BY <1>1
  <2> HIDE DEF R
  <2>4. \A i, k \in Unprobed : i = k \/ <<i, k>> \in R \/ <<k, i>> \in R
    <3>1. \A m, n \in Nat : m = n \/ m < n \/ n < m
      OBVIOUS
    <3>2. QED
      BY <2>2, <2>3, <3>1, Zenon
  <2>5. \A i, j, k \in Unprobed : <<i, j>> \in R /\ <<j, k>> \in R => <<i, k>> \in R
    BY <2>2, <2>3
  <2>6. PICK i \in Unprobed : \A k \in Unprobed : k # i => <<i, k>> \in R
    BY <1>3, <2>1, <2>4, <2>5, LeastExists
  <2>7. ASSUME NEW k \in Unprobed PROVE i <= k
    <3>1. i \in Nat /\ k \in Nat
      BY <2>3
    <3>2. k = i \/ i < k
      BY <2>2, <2>6
    <3>3. QED
      BY <3>1, <3>2
  <2>8. tc.order[i] \in Unsent /\ tc.order[i] \in Ids
    BY <1>1, CaseType DEF Unprobed, Unsent
  <2>9. tc.order[i] # Reader
    BY <2>8, CasesAssumption
  <2>10. QED
    BY <2>7, <2>8, <2>9 DEF ProbedNext
<1>4. QED
  BY <1>2, <1>3

\* Nobody is passed over for ever: while probes are due one of them is the next to be
\* sent, and while identities wait one of them is next, in whatever order they are
\* declared and expected (runPreflight, executionOrder).
THEOREM SomebodyIsNext ==
  Spec => [](/\ pc = "preflight" /\ Unsent # {} => \E id \in Unsent : ProbedNext(id)
             /\ pc = "turn" /\ Waiting # {} => \E i \in DOMAIN tc.order : IsNext(i))
BY NextWaits, NextProbe, TypeCorrect, PTL
=============================================================================
