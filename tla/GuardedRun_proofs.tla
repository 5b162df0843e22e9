--------------------------- MODULE GuardedRun_proofs ---------------------------
(***************************************************************************)
(* What a run behind a request guard promises, for every case, every plan  *)
(* and every target: it is a run like any other, and whoever's exchange    *)
(* the guard refused is not judged.                                        *)
(***************************************************************************)
EXTENDS GuardedRun, EngineRun_proofs

-----------------------------------------------------------------------------
(* A guarded run is a run. *)

LEMMA GuardedStepIsStep == GuardedStep => Step
<1>1. GuardedSetup => SetupStep
  BY DEF GuardedSetup
<1>2. GuardedProbe => Probe
  BY DEF GuardedProbe
<1>3. GuardedSend => SendPlain
  BY DEF GuardedSend
<1>4. GuardedReset => Reset
  BY DEF GuardedReset
<1>5. GuardedRead => ReadBefore \/ ReadAgain \/ ReadAfter
  BY DEF GuardedRead
<1>6. GuardedWrite => SendWrite
  BY DEF GuardedWrite
<1>7. QED
  BY <1>1, <1>2, <1>3, <1>4, <1>5, <1>6 DEF GuardedStep, Step

LEMMA GuardedNextIsNext == [GuardedNext]_allVars => [Next]_vars
BY GuardedStepIsStep DEF GuardedNext, Next, allVars

\* A guarded run is a run of EngineRun: to the engine a refused exchange is one that
\* failed, and the guard decides nothing else about the run.
THEOREM GuardedIsRun == GuardedSpec => Spec
<1>1. GuardedInit => Init
  BY DEF GuardedInit
<1>2. QED
  BY <1>1, GuardedNextIsNext, PTL DEF GuardedSpec, Spec

\* So whatever is proved of runs holds behind a guard as well.
LEMMA GuardedRuns ==
  GuardedSpec => [](TypeOK /\ Fixed /\ InTurn /\ Truths /\ ProbedBeforeSent)
BY GuardedIsRun, TypeCorrect, FixedAlways, InTurnAlways, TruthsAlways, ProbesBeforeRequests, PTL

-----------------------------------------------------------------------------
(* Whoever's exchange was refused is not judged. *)

\* Whoever's turn it was when an exchange was refused: its turn ended without a
\* conclusion, or its request counts as one that got no answer and did nothing.
Unjudged(id) ==
  /\ ~Verified(id) => exec[id].sent /\ exec[id].status = NoStatus
  /\ Verified(id) =>
       \/ verdict[id] = "inconclusive"
       \/ /\ exec[id].sent /\ exec[id].status = NoStatus
          /\ wrote[id].from = wrote[id].to /\ verdict[id] # "denied"

Refusals ==
  /\ pc = "setup" => refused = {}
  /\ pc = "preflight" => \A id \in refused : id \in ToProbe /\ probes[id] = "failed"
  /\ pc \in Turns => \A id \in refused \cap Ids : Unjudged(id)
  /\ RefusedJudgesNothing

\* What the guard does to an exchange in id's turn.
LEMMA ThroughRefuses ==
  ASSUME NEW phase, NEW key, NEW id, NEW failed \in BOOLEAN, Through(phase, key, id, failed)
  PROVE  refused' = refused \/ (refused' = refused \cup {id} /\ failed /\ server' = server)
BY DEF Through, guarding

\* Steps before the turns.
LEMMA RefusalsBefore ==
  ASSUME TypeOK, Refusals, GuardedSetup \/ GuardedProbe \/ (ApplySetup /\ UNCHANGED guarding)
  PROVE  Refusals'
<1>1. CASE GuardedSetup
  <2>1. refused' = refused \/ pc' = "aborted"
    BY <1>1, ThroughRefuses DEF GuardedSetup
  <2>2. pc = "setup" /\ pc' \in {"setup", "aborted"}
    BY <1>1 DEF GuardedSetup, SetupStep, Abort
  <2>3. QED
    BY <2>1, <2>2 DEF Refusals, RefusedJudgesNothing, Turns
<1>2. CASE GuardedProbe
  <2>1. PICK i \in ToProbe :
          /\ probes'[i] # probes[i]
          /\ Through("preflight", i, i, probes'[i] = "failed")
    BY <1>2 DEF GuardedProbe
  <2>2. PICK j \in ToProbe : /\ probes[j] = "unsent"
                             /\ \E result : probes' = [probes EXCEPT ![j] = result]
    BY <1>2 DEF GuardedProbe, Probe
  <2>3. ToProbe \subseteq Ids \cup {Reader}
    <3>1. tc \in Case
      BY CasesAssumption DEF TypeOK
    <3>2. QED
      BY <3>1, ZenonT(60) DEF Case, ToProbe
  <2>4. i = j
    BY <2>1, <2>2, <2>3 DEF TypeOK
  <2>5. \A k \in ToProbe : k # i => probes'[k] = probes[k]
    BY <2>2, <2>3, <2>4 DEF TypeOK
  <2>6. refused' = refused \/ (refused' = refused \cup {i} /\ probes'[i] = "failed")
    BY <2>1, ThroughRefuses
  <2>7. pc = "preflight" /\ pc' = pc /\ ToProbe' = ToProbe
    BY <1>2 DEF GuardedProbe, Probe, ToProbe, Declared
  <2>8. i \notin refused
    BY <2>2, <2>4, <2>7 DEF Refusals
  <2>9. \A k \in refused' : k \in ToProbe /\ probes'[k] = "failed"
    BY <2>5, <2>6, <2>7, <2>8 DEF Refusals
  <2>10. QED
    BY <2>7, <2>9 DEF Refusals, RefusedJudgesNothing, Turns
<1>3. CASE ApplySetup /\ UNCHANGED guarding
  BY <1>3 DEF ApplySetup, Abort, guarding, Refusals, RefusedJudgesNothing, Turns
<1>4. QED
  BY <1>1, <1>2, <1>3

\* The end of a turn judges only whose turn it was.
LEMMA RefusalsEnd ==
  ASSUME TypeOK, Refusals, pc \in Turns, NEW id \in Ids, NEW e, NEW d, EndTurn(id, e, d),
         wrote' = wrote, refused' \subseteq refused \cup {id}, id \in refused' => Unjudged(id)'
  PROVE  Refusals'
<1>1. tc' = tc /\ pc' = "turn"
  BY DEF EndTurn
<1>2. \A j \in Ids \ {id} : exec'[j] = exec[j] /\ verdict'[j] = verdict[j]
  BY DEF EndTurn, TypeOK
<1>3. \A j : Verified(j)' <=> Verified(j)
  BY <1>1 DEF Verified, Judged
<1>4. \A j \in (refused \cap Ids) \ {id} : Unjudged(j)'
  BY <1>1, <1>2, <1>3 DEF Refusals, Unjudged
<1>5. QED
  BY <1>1, <1>4 DEF Refusals, RefusedJudgesNothing, Turns

LEMMA RefusalsWithheld ==
  ASSUME TypeOK, Refusals, pc \in Turns, NEW id \in Ids, Verified(id), Withhold(id),
         refused' \subseteq refused \cup {id}
  PROVE  Refusals'
<1>1. EndTurn(id, NoExec, "inconclusive") /\ wrote' = wrote /\ tc' = tc
  BY DEF Withhold, EndTurn
<1>2. verdict'[id] = "inconclusive"
  BY <1>1 DEF EndTurn, TypeOK
<1>3. Verified(id)'
  BY <1>1 DEF Verified, Judged
<1>4. Unjudged(id)'
  BY <1>2, <1>3 DEF Unjudged
<1>5. QED
  BY <1>1, <1>4, RefusalsEnd

\* Steps that judge nobody and send nothing.
LEMMA RefusalsStay ==
  ASSUME Refusals, UNCHANGED <<tc, exec, verdict, wrote, refused>>, pc \in Turns, pc' \in Turns
  PROVE  Refusals'
<1>1. \A j : Unjudged(j)' <=> Unjudged(j)
  BY DEF Unjudged, Verified, Judged
<1>2. QED
  BY <1>1 DEF Refusals, RefusedJudgesNothing, Turns

LEMMA RefusalsSend ==
  ASSUME TypeOK, InTurn, Refusals, GuardedSend
  PROVE  Refusals'
<1> DEFINE Ending(id) ==
      \E s, r, m :
        EndTurn(id, [status |-> s, refusal |-> r, matched |-> m, sent |-> TRUE], "none")
<1>1. PICK i \in DOMAIN tc.order :
        IsNext(i) /\ ~Verified(tc.order[i]) /\ Ending(tc.order[i])
  BY DEF GuardedSend, SendPlain
<1> DEFINE id == tc.order[i]
<1>0. PICK s, r, m :
        EndTurn(id, [status |-> s, refusal |-> r, matched |-> m, sent |-> TRUE], "none")
  BY <1>1
<1> DEFINE e == [status |-> s, refusal |-> r, matched |-> m, sent |-> TRUE]
<1>2. id \in Ids /\ pc \in Turns /\ wrote' = wrote /\ tc' = tc
  BY <1>1, <1>0, CaseType DEF GuardedSend, SendPlain, EndTurn, Turns
<1>3. PICK j \in Ids :
        /\ exec'[j].sent /\ ~exec[j].sent
        /\ Through("resource", j, j, exec'[j].status = NoStatus)
  BY DEF GuardedSend
<1>4. j = id
  BY <1>0, <1>2, <1>3 DEF EndTurn, TypeOK
<1>5. exec'[id] = e
  BY <1>0, <1>2 DEF EndTurn, TypeOK
<1>6. refused' = refused \/ (refused' = refused \cup {id} /\ exec'[id].status = NoStatus)
  BY <1>3, <1>4, ThroughRefuses
<1>7. id \notin refused
  BY <1>1, <1>2 DEF Refusals, Unjudged, IsNext, Waiting
<1>8. id \in refused' => Unjudged(id)'
  BY <1>1, <1>2, <1>5, <1>6, <1>7 DEF Unjudged, Verified, Judged
<1>9. QED
  BY <1>0, <1>2, <1>6, <1>8, RefusalsEnd

LEMMA RefusalsTurn ==
  ASSUME TypeOK, InTurn, Refusals,
         GuardedReset \/ GuardedRead \/ (StartVerified /\ UNCHANGED guarding)
  PROVE  Refusals'
<1>1. CASE StartVerified /\ UNCHANGED guarding
  <2>1. PICK i \in DOMAIN tc.order :
          /\ Verified(tc.order[i])
          /\ Withhold(tc.order[i]) \/ (Goto(IF tc.reset THEN "reset" ELSE "before") /\ wrote' = wrote)
    BY <1>1 DEF StartVerified
  <2>2. tc.order[i] \in Ids /\ pc \in Turns /\ refused' = refused
    BY <1>1, CaseType DEF StartVerified, guarding, Turns
  <2>3. CASE Withhold(tc.order[i])
    BY <2>1, <2>2, <2>3, RefusalsWithheld
  <2>4. CASE Goto(IF tc.reset THEN "reset" ELSE "before") /\ wrote' = wrote
    BY <2>2, <2>4, RefusalsStay DEF Goto, Turns
  <2>5. QED
    BY <2>1, <2>3, <2>4
<1>2. CASE GuardedReset \/ (GuardedRead /\ ~ReadAfter)
  <2>1. Current \in Ids /\ pc \in Turns /\ Verified(Current)
    BY <1>2, CurrentType DEF GuardedReset, GuardedRead, Reset, ReadBefore, ReadAgain, Turns,
                             InTurn, Verifying
  <2>2. \/ Withhold(Current)
        \/ \E step \in {"before", "again", "write"} : Goto(step) /\ wrote' = wrote
    BY <1>2 DEF GuardedReset, GuardedRead, Reset, ReadBefore, ReadAgain
  <2>3. refused' = refused \/ (refused' = refused \cup {Current} /\ pc' = "turn")
    BY <1>2, ThroughRefuses DEF GuardedReset, GuardedRead
  <2>4. CASE Withhold(Current)
    BY <2>1, <2>3, <2>4, RefusalsWithheld
  <2>5. CASE \E step \in {"before", "again", "write"} : Goto(step) /\ wrote' = wrote
    <3>1. refused' = refused /\ pc' \in Turns
      BY <2>3, <2>5 DEF Goto, Turns
    <3>2. QED
      BY <2>1, <2>5, <3>1, RefusalsStay DEF Goto
  <2>6. QED
    BY <2>2, <2>4, <2>5
<1>3. CASE GuardedRead /\ ReadAfter
  <2>1. /\ Current \in Ids /\ pc \in Turns /\ Verified(Current) /\ exec[Current].sent
        /\ verdict[Current] = "none" /\ pc = "after"
    BY <1>3, CurrentType DEF ReadAfter, Turns, InTurn, Verifying
  <2>2. Through("verification", Reader, Current, verdict'[Current] = "inconclusive")
    BY <1>3 DEF GuardedRead, ReadAfter, ReadBefore, ReadAgain
  <2>3. refused' = refused \/ (refused' = refused \cup {Current} /\ verdict'[Current] = "inconclusive")
    BY <2>2, ThroughRefuses
  <2>4. PICK d : /\ EndTurn(Current, exec[Current], d)
                 /\ exec[Current].status = NoStatus => d # "denied"
    <3>1. CASE cancelled
      BY <1>3, <3>1 DEF ReadAfter
    <3>2. CASE ~cancelled
      <4>1. PICK read \in Reads :
              EndTurn(Current, exec[Current],
                      Demoted(Current, exec[Current].status, Conclusion(exec[Current].status, read)))
        BY <1>3, <3>2 DEF ReadAfter
      <4>2. exec[Current].status = NoStatus => Conclusion(exec[Current].status, read) # "denied"
        BY DEF Conclusion, Unsettled
      <4>3. QED
        BY <4>1, <4>2, DemotedType
    <3>3. QED
      BY <3>1, <3>2
  <2>5. exec'[Current] = exec[Current] /\ verdict'[Current] = d
    BY <2>1, <2>4 DEF EndTurn, TypeOK
  <2>6. wrote' = wrote /\ at' = at /\ tc' = tc
    BY <1>3, <2>4 DEF ReadAfter, EndTurn
  <2>7. Current \in refused' => Unjudged(Current)'
    <3>1. Current' = Current /\ (Verified(Current)' <=> Verified(Current))
      BY <2>6 DEF Current, Verified, Judged
    <3>2. CASE Current \in refused
      <4>1. exec[Current].status = NoStatus /\ wrote[Current].from = wrote[Current].to
        BY <2>1, <3>2 DEF Refusals, Unjudged
      <4>2. QED
        BY <2>1, <2>4, <2>5, <2>6, <3>1, <4>1 DEF Unjudged
    <3>3. CASE Current \notin refused /\ Current \in refused'
      BY <2>1, <2>3, <3>1, <3>3 DEF Unjudged
    <3>4. QED
      BY <3>2, <3>3
  <2>8. Current' = Current
    BY <2>6 DEF Current
  <2>9. QED
    BY <2>1, <2>3, <2>4, <2>6, <2>7, <2>8, RefusalsEnd
<1>4. QED
  BY <1>1, <1>2, <1>3

LEMMA RefusalsWrite ==
  ASSUME TypeOK, InTurn, Refusals, GuardedWrite
  PROVE  Refusals'
<1>1. /\ Current \in Ids /\ Verified(Current) /\ ~exec[Current].sent /\ verdict[Current] = "none"
      /\ pc \in Turns /\ pc' = "after"
  BY CurrentType DEF GuardedWrite, SendWrite, Turns, InTurn, Verifying
<1>2. UNCHANGED <<tc, at, verdict>> /\ wrote' = [wrote EXCEPT ![Current] = [from |-> record, to |-> record']]
  BY DEF GuardedWrite, SendWrite
<1>3. PICK s : exec' = [exec EXCEPT ![Current] = [NoExec EXCEPT !.status = s, !.sent = TRUE]]
  BY DEF GuardedWrite, SendWrite
<1>4. exec'[Current].sent /\ \A j \in Ids \ {Current} : exec'[j] = exec[j] /\ wrote'[j] = wrote[j]
  BY <1>1, <1>2, <1>3 DEF TypeOK, NoExec
<1>5. wrote'[Current].from = record /\ wrote'[Current].to = record'
  BY <1>1, <1>2 DEF TypeOK
<1>6. \/ refused' = refused
      \/ refused' = refused \cup {Current} /\ exec'[Current].status = NoStatus /\ server' = server
  BY ThroughRefuses DEF GuardedWrite
<1>7. Current \notin refused
  BY <1>1 DEF Refusals, Unjudged
<1>8. Current' = Current /\ \A j : Verified(j)' <=> Verified(j)
  BY <1>2 DEF Current, Verified, Judged
<1>9. \A j \in refused' \cap Ids : Unjudged(j)'
  <2>1. SUFFICES ASSUME NEW j \in refused' \cap Ids PROVE Unjudged(j)'
    OBVIOUS
  <2>2. CASE j = Current
    BY <1>1, <1>2, <1>4, <1>5, <1>6, <1>7, <2>2 DEF Unjudged, server
  <2>3. CASE j # Current
    BY <1>2, <1>4, <1>6, <1>8, <2>3, <1>1 DEF Unjudged, Refusals
  <2>4. QED
    BY <2>2, <2>3
<1>10. QED
  BY <1>1, <1>9 DEF Refusals, RefusedJudgesNothing, Turns

\* What the result says of whoever was refused.
LEMMA RefusalsResult ==
  ASSUME TypeOK, Truths, Refusals, EndPreflight \/ Conclude, UNCHANGED guarding
  PROVE  Refusals'
<1>1. refused' = refused
  BY DEF guarding
<1>2. CASE EndPreflight /\ Ready
  <2>1. pc' = "turn" /\ refused = {}
    BY <1>2 DEF EndPreflight, Ready, Refusals
  <2>2. QED
    BY <1>1, <2>1 DEF Refusals, RefusedJudgesNothing, Turns
<1>3. CASE EndPreflight /\ ~Ready
  <2>1. pc' = "done" /\ \A id \in Ids : assessment'[id] \in {"inconclusive", "skipped"}
    BY <1>3 DEF EndPreflight
  <2>2. QED
    BY <2>1 DEF Refusals, RefusedJudgesNothing, Turns
<1>4. CASE Conclude
  <2>1. /\ pc = "turn" /\ pc' = "done" /\ UNCHANGED <<tc, world, wrote, late, foreign>>
        /\ \A id \in Ids : \E recorded : assessment'[id] = Concluded(id, recorded)
    BY <1>4, ConcludeWrites DEF Conclude, server, First
  <2>2. ASSUME NEW id \in refused \cap Ids, NEW recorded
        PROVE  /\ Concluded(id, recorded) # "denied"
               /\ Verified(id) => \/ ~Steady \/ late # "never" \/ foreign > 0
                                  \/ Concluded(id, recorded) # "allowed"
               /\ ~Verified(id) => Concluded(id, recorded) # "allowed"
    <3>1. Unjudged(id)
      BY <2>1, <2>2 DEF Refusals, Turns
    <3>2. CASE ~Verified(id)
      <4>1. Assessed(id, recorded) \in {"skipped", "inconclusive"}
        BY <3>1, <3>2 DEF Unjudged, Assessed
      <4>2. QED
        BY <3>2, <4>1, DemotedType DEF Concluded
    <3>3. CASE Verified(id)
      <4>1. /\ Concluded(id, recorded) \in {verdict[id], "inconclusive"}
            /\ verdict[id] # "denied"
        BY <3>1, <3>3 DEF Concluded, Guarded, Unjudged
      <4>2. verdict[id] = "allowed" => ~(Steady /\ late = "never" /\ foreign = 0)
        BY <2>2, <3>1, <3>3 DEF Unjudged, Truths
      <4>3. foreign \in Nat
        BY CasesAssumption DEF TypeOK
      <4>4. QED
        BY <3>3, <4>1, <4>2, <4>3
    <3>4. QED
      BY <3>2, <3>3
  <2>3. (Steady' <=> Steady) /\ \A id : Verified(id)' <=> Verified(id)
    BY <2>1 DEF Steady, Verified, Judged
  <2>4. RefusedJudgesNothing'
    BY <1>1, <2>1, <2>2, <2>3 DEF RefusedJudgesNothing
  <2>5. QED
    BY <2>1, <2>4 DEF Refusals, Turns
<1>5. QED
  BY <1>2, <1>3, <1>4

LEMMA RefusalsStep ==
  ASSUME TypeOK, InTurn, Truths, Refusals, [GuardedNext]_allVars
  PROVE  Refusals'
<1>1. CASE GuardedSetup \/ GuardedProbe \/ (ApplySetup /\ UNCHANGED guarding)
  BY <1>1, RefusalsBefore
<1>2. CASE GuardedSend
  BY <1>2, RefusalsSend
<1>3. CASE GuardedReset \/ GuardedRead \/ (StartVerified /\ UNCHANGED guarding)
  BY <1>3, RefusalsTurn
<1>4. CASE GuardedWrite
  BY <1>4, RefusalsWrite
<1>5. CASE (EndPreflight \/ Conclude) /\ UNCHANGED guarding
  BY <1>5, RefusalsResult
<1>6. CASE (Cancel \/ TakeEffect \/ ForeignChange) /\ UNCHANGED guarding
  <2>1. UNCHANGED <<tc, pc, probes, exec, verdict, wrote, refused>> /\ pc # "done"
    BY <1>6 DEF Cancel, TakeEffect, ForeignChange, run, guarding, Running
  <2>2. \A id : Unjudged(id)' <=> Unjudged(id)
    BY <2>1 DEF Unjudged, Verified, Judged
  <2>3. QED
    BY <2>1, <2>2 DEF Refusals, RefusedJudgesNothing, ToProbe, Declared
<1>7. CASE UNCHANGED allVars
  <2>1. UNCHANGED <<tc, pc, probes, exec, verdict, assessment, world, wrote, late, foreign, refused>>
    BY <1>7 DEF allVars, vars, run, server, guarding
  <2>2. /\ Steady' <=> Steady
        /\ \A id : (Unjudged(id)' <=> Unjudged(id)) /\ (Verified(id)' <=> Verified(id))
    BY <2>1 DEF Steady, Unjudged, Verified, Judged
  <2>3. QED
    BY <2>1, <2>2 DEF Refusals, RefusedJudgesNothing, ToProbe, Declared
<1>8. QED
  BY <1>1, <1>2, <1>3, <1>4, <1>5, <1>6, <1>7 DEF GuardedNext, GuardedStep

\* An exchange the guard refused never reads as protection or as access: whoever's
\* turn it was is not judged, whatever the plan leaves out and wherever the refusal
\* comes -- before, in the middle of or after a verified write -- unless the record
\* changed without that write, or the reader's value did so by itself.
THEOREM RefusalsJudgeNothing == GuardedSpec => []RefusedJudgesNothing
<1>1. GuardedInit => Refusals
  BY DEF GuardedInit, Init, Refusals, RefusedJudgesNothing
<1>2. TypeOK /\ InTurn /\ Truths /\ Refusals /\ [GuardedNext]_allVars => Refusals'
  BY RefusalsStep
<1>3. Refusals => RefusedJudgesNothing
  BY DEF Refusals
<1>4. QED
  BY <1>1, <1>2, <1>3, GuardedRuns, PTL DEF GuardedSpec

-----------------------------------------------------------------------------
(* Plans. *)

\* RequestGuard and what is proved of it, for the guard in front of a run.
GP == INSTANCE RequestGuard_proofs WITH Keys <- Senders, Plans <- AllPlans

D(phase, key, max) == [phase |-> phase, key |-> key, max |-> max]

JudgedBy(c) == { id \in Ids : Judged(c, id) }

LEMMA NeededIs ==
  ASSUME NEW c
  PROVE  Needed(c) = { D("setup", n, 1) : n \in 1..c.setup }
                     \cup { D("preflight", id, 1) : id \in c.preflight }
                     \cup { D("resource", c.order[i], 1) : i \in DOMAIN c.order }
                     \cup { d \in {D("verification", Reader, 3 * Cardinality(JudgedBy(c)))} : c.verify }
                     \cup { d \in {D("reset", Restorer, Cardinality(JudgedBy(c)))} :
                              c.verify /\ c.reset }
BY DEF Needed, D, JudgedBy

\* What a watched case needs is a finite set of dispatches of senders.
LEMMA NeededType ==
  ASSUME NEW c \in Watched
  PROVE  IsFiniteSet(Needed(c)) /\ Needed(c) \subseteq GP!Dispatch
<1>1. /\ c.order \in Seq(Ids) /\ c.setup \in Nat /\ c.preflight \subseteq Ids \cup {Reader}
      /\ c.verify \in BOOLEAN /\ c.reset \in BOOLEAN
  <2>1. c \in Case
    BY WatchedAssumption, CasesAssumption
  <2>2. QED
    BY <2>1, ZenonT(60) DEF Case
<1>2. IsFiniteSet(c.preflight) /\ IsFiniteSet(JudgedBy(c)) /\ Cardinality(JudgedBy(c)) \in Nat
  BY WatchedAssumption, FS_CardinalityType DEF JudgedBy
<1> DEFINE S1 == { D("setup", n, 1) : n \in 1..c.setup }
           S2 == { D("preflight", id, 1) : id \in c.preflight }
           S3 == { D("resource", c.order[i], 1) : i \in DOMAIN c.order }
           S4 == { d \in {D("verification", Reader, 3 * Cardinality(JudgedBy(c)))} : c.verify }
           S5 == { d \in {D("reset", Restorer, Cardinality(JudgedBy(c)))} : c.verify /\ c.reset }
<1>3. IsFiniteSet(S1)
  <2> DEFINE f == [n \in 1..c.setup |-> D("setup", n, 1)]
  <2>1. S1 = { f[n] : n \in 1..c.setup }
    OBVIOUS
  <2>2. IsFiniteSet(1..c.setup)
    BY <1>1, FS_Interval
  <2> HIDE DEF f
  <2>3. QED
    BY <2>1, <2>2, FiniteImage
<1>4. IsFiniteSet(S2)
  <2> DEFINE f == [id \in c.preflight |-> D("preflight", id, 1)]
  <2>1. S2 = { f[id] : id \in c.preflight }
    OBVIOUS
  <2> HIDE DEF f
  <2>2. QED
    BY <1>2, <2>1, FiniteImage
<1>5. IsFiniteSet(S3)
  <2> DEFINE f == [i \in DOMAIN c.order |-> D("resource", c.order[i], 1)]
  <2>1. S3 = { f[i] : i \in DOMAIN c.order }
    OBVIOUS
  <2>2. DOMAIN c.order = 1..Len(c.order) /\ Len(c.order) \in Nat
    BY <1>1
  <2>3. IsFiniteSet(DOMAIN c.order)
    BY <2>2, FS_Interval
  <2> HIDE DEF f
  <2>4. QED
    BY <2>1, <2>3, FiniteImage
<1>6. IsFiniteSet(S4) /\ IsFiniteSet(S5)
  <2>1. ASSUME NEW d, NEW b PROVE IsFiniteSet({ e \in {d} : b })
    <3>1. { e \in {d} : b } \in SUBSET {d} /\ IsFiniteSet({d})
      BY FS_Singleton
    <3>2. QED
      BY <3>1, FS_Subset
  <2>2. QED
    BY <2>1
<1>7. Needed(c) = S1 \cup S2 \cup S3 \cup S4 \cup S5
  BY NeededIs
<1>8. IsFiniteSet(Needed(c))
  <2> HIDE DEF S1, S2, S3, S4, S5
  <2>1. IsFiniteSet(S1 \cup S2)
    BY <1>3, <1>4, FS_Union
  <2>2. IsFiniteSet(S1 \cup S2 \cup S3)
    BY <1>5, <2>1, FS_Union
  <2>3. IsFiniteSet(S1 \cup S2 \cup S3 \cup S4)
    BY <1>6, <2>2, FS_Union
  <2>4. QED
    BY <1>6, <1>7, <2>3, FS_Union
<1>9. Needed(c) \subseteq GP!Dispatch
  <2>1. S1 \subseteq GP!Dispatch
    <3>1. \A n \in 1..c.setup : n \in Senders
      BY DEF Senders
    <3>2. QED
      BY <3>1 DEF D, GP!Dispatch, GP!Phases
  <2>2. S2 \subseteq GP!Dispatch
    BY <1>1 DEF D, GP!Dispatch, GP!Phases, Senders
  <2>3. S3 \subseteq GP!Dispatch
    BY <1>1 DEF D, GP!Dispatch, GP!Phases, Senders
  <2>4. S4 \subseteq GP!Dispatch /\ S5 \subseteq GP!Dispatch
    BY <1>2 DEF D, GP!Dispatch, GP!Phases, Senders
  <2> HIDE DEF S1, S2, S3, S4, S5
  <2>5. QED
    BY <1>7, <2>1, <2>2, <2>3, <2>4
<1>10. QED
  BY <1>8, <1>9

\* A plan made of a finite set of dispatches lists each of them once, and its total
\* is what they add up to.
LEMMA PlanForType ==
  ASSUME NEW S, IsFiniteSet(S), S \subseteq GP!Dispatch
  PROVE  LET p == PlanFor(S)
         IN  /\ p.dispatches \in Seq(GP!Dispatch) /\ p.max \in Nat
             /\ { p.dispatches[i] : i \in DOMAIN p.dispatches } = S
             /\ GP!SumOfMax(p.dispatches) = p.max
<1> DEFINE p == PlanFor(S)
           w == [d \in S |-> d.max]
<1>1. p.dispatches = Listing(S)
  BY DEF PlanFor, Listing, F!FoldSet, F!MapThenFoldSet, MapThenFoldSet
<1>2. p.max = SumFunctionOnSet(w, S)
  BY DEF PlanFor, F!SumFunction, F!SumFunctionOnSet, F!FoldFunctionOnSet, F!MapThenFoldSet,
         SumFunctionOnSet, FoldFunctionOnSet, MapThenFoldSet
<1>3. \A d \in S : w[d] \in Nat
  BY DEF GP!Dispatch
<1>4. GP!SumOfMax(p.dispatches) = SumFunctionOnSet(GP!MaxOf(p.dispatches), DOMAIN p.dispatches)
  BY DEF GP!SumOfMax, GP!MaxOf, GP!SumFunction, GP!SumFunctionOnSet, GP!FoldFunctionOnSet,
         GP!MapThenFoldSet, SumFunctionOnSet, FoldFunctionOnSet, MapThenFoldSet
<1> HIDE DEF p, w
<1>5. /\ p.dispatches \in Seq(S)
      /\ \A d \in S : \E i \in DOMAIN p.dispatches : p.dispatches[i] = d
      /\ \A i, k \in DOMAIN p.dispatches : p.dispatches[i] = p.dispatches[k] => i = k
  BY <1>1, ListingLists
<1>6. \A i \in DOMAIN p.dispatches :
        p.dispatches[i] \in S /\ GP!MaxOf(p.dispatches)[i] = w[p.dispatches[i]]
  <2>1. \A i \in DOMAIN p.dispatches : p.dispatches[i] \in S
    BY <1>5
  <2>2. QED
    BY <2>1 DEF GP!MaxOf, w
<1>7. GP!SumOfMax(p.dispatches) = p.max
  <2>1. PICK l, v : l = p.dispatches /\ v = GP!MaxOf(p.dispatches)
    OBVIOUS
  <2>2. /\ l \in Seq(S) /\ \A d \in S : \E i \in DOMAIN l : l[i] = d
        /\ \A i, k \in DOMAIN l : l[i] = l[k] => i = k
        /\ \A i \in DOMAIN l : v[i] = w[l[i]]
    BY <1>5, <1>6, <2>1
  <2>3. SumFunctionOnSet(v, DOMAIN l) = SumFunctionOnSet(w, S)
    BY <1>3, <2>2, SumAlongList, SMTT(60)
  <2>4. QED
    BY <1>2, <1>4, <2>1, <2>3
<1>8. p.max \in Nat
  <2>1. IsFiniteSet(Units(w, S))
    BY <1>3, UnitsFinite
  <2>2. Cardinality(Units(w, S)) \in Nat
    BY <2>1, FS_CardinalityType
  <2>3. SumFunctionOnSet(w, S) = Cardinality(Units(w, S))
    BY <1>3, SumIsCount
  <2>4. QED
    BY <1>2, <2>2, <2>3
<1>9. p.dispatches \in Seq(GP!Dispatch) /\ { p.dispatches[i] : i \in DOMAIN p.dispatches } = S
  BY <1>5, <1>6
<1>10. QED
  BY <1>7, <1>8, <1>9 DEF p

\* The plans a run is given are ones RequestGuard is about.
LEMMA PlansAreTyped == \A p \in AllPlans : p.dispatches \in Seq(GP!Dispatch) /\ p.max \in Nat
<1> SUFFICES ASSUME NEW c \in Watched, NEW p \in {Whole(c)} \cup Short(c)
             PROVE  p.dispatches \in Seq(GP!Dispatch) /\ p.max \in Nat
  BY DEF AllPlans
<1>1. CASE p = Whole(c)
  BY <1>1, NeededType, PlanForType DEF Whole
<1>2. CASE p \in Short(c)
  <2>1. PICK d \in Needed(c) :
          p = PlanFor({ e \in (Needed(c) \ {d}) \cup {[d EXCEPT !.max = @ - 1]} : e.max > 0 })
    BY <1>2 DEF Short
  <2> DEFINE less == [d EXCEPT !.max = @ - 1]
             S == { e \in (Needed(c) \ {d}) \cup {less} : e.max > 0 }
  <2>2. IsFiniteSet(Needed(c) \ {d}) /\ IsFiniteSet((Needed(c) \ {d}) \cup {less})
    BY NeededType, FS_RemoveElement, FS_AddElement
  <2>3. IsFiniteSet(S)
    BY <2>2, FS_Subset
  <2>4. less.max > 0 => less \in GP!Dispatch
    BY NeededType DEF GP!Dispatch
  <2>5. S \subseteq GP!Dispatch
    BY <2>4, NeededType
  <2> HIDE DEF S
  <2>6. QED
    BY <2>1, <2>3, <2>5, PlanForType DEF S
<1>3. QED
  BY <1>1, <1>2

\* The guard is the one of RequestGuard.
LEMMA GuardIsGuard ==
  ASSUME NEW q
  PROVE  (G!Reserve(q) <=> GP!Reserve(q)) /\ (G!Refuse(q) <=> GP!Refuse(q))
BY DEF G!Reserve, G!Refuse, G!InTime, G!Fits, G!StageOf, G!guard,
       GP!Reserve, GP!Refuse, GP!InTime, GP!Fits, GP!StageOf, GP!guard

-----------------------------------------------------------------------------
(* The guard of a run is a RequestGuard. *)

LEMMA GuardStarts == GuardedInit /\ Watching => GP!Init
BY DEF GuardedInit, G!Init, G!Acceptable, G!StageOf, G!SumOfMax, G!MaxOf, G!SumFunction,
       G!SumFunctionOnSet, G!FoldFunctionOnSet, G!MapThenFoldSet,
       GP!Init, GP!Acceptable, GP!StageOf, GP!SumOfMax, GP!MaxOf, GP!SumFunction,
       GP!SumFunctionOnSet, GP!FoldFunctionOnSet, GP!MapThenFoldSet

Labelled(phase, key) == [phase |-> phase, key |-> key, canonical |-> TRUE]

\* An exchange of a watched run is a call of Allow.
LEMMA ThroughAsks ==
  ASSUME Watching, NEW phase \in GP!Phases, NEW key \in Senders, NEW id, NEW failed,
         Through(phase, key, id, failed)
  PROVE  \E q \in GP!Request : GP!Allow(q)
<1>1. Labelled(phase, key) \in GP!Request
  BY DEF Labelled, GP!Request
<1>2. G!Reserve(Labelled(phase, key)) \/ G!Refuse(Labelled(phase, key))
  BY DEF Through, Labelled
<1>3. QED
  BY <1>1, <1>2, GuardIsGuard DEF GP!Allow

\* Every exchange of the engine is a call of Allow, and whatever else happens
\* leaves the guard alone, or is the signal that cancels it.
LEMMA StepsAsk ==
  ASSUME TypeOK, InTurn, Watching, GuardedNext
  PROVE  (\E q \in GP!Request : GP!Allow(q)) \/ GP!Cancel \/ UNCHANGED GP!vars
<1> USE DEF GP!Phases
<1>1. tc \in Case /\ tc.setup \in Nat /\ tc.preflight \subseteq Ids \cup {Reader}
  <2>1. tc \in Case
    BY CasesAssumption DEF TypeOK
  <2>2. QED
    BY <2>1, ZenonT(60) DEF Case
<1>2. Ids \cup {Reader, Restorer} \subseteq Senders /\ \A n \in 1..tc.setup : n \in Senders
  BY DEF Senders, Watching
<1>3. CASE GuardedSetup
  <2>1. at \in 1..tc.setup
    BY <1>1, <1>3 DEF GuardedSetup, SetupStep, TypeOK
  <2>2. QED
    BY <1>2, <1>3, <2>1, ThroughAsks DEF GuardedSetup
<1>4. CASE GuardedProbe
  BY <1>1, <1>2, <1>4, ThroughAsks DEF GuardedProbe, ToProbe
<1>5. CASE GuardedSend
  BY <1>2, <1>5, ThroughAsks DEF GuardedSend
<1>6. CASE GuardedReset
  BY <1>2, <1>6, ThroughAsks DEF GuardedReset
<1>7. CASE GuardedRead
  BY <1>2, <1>7, ThroughAsks DEF GuardedRead
<1>8. CASE GuardedWrite
  <2>1. Current \in Ids
    BY <1>8, CurrentType DEF GuardedWrite, SendWrite
  <2>2. QED
    BY <1>2, <1>8, <2>1, ThroughAsks DEF GuardedWrite
<1>9. CASE (ApplySetup \/ EndPreflight \/ StartVerified \/ Conclude) /\ UNCHANGED guarding
  BY <1>9 DEF ApplySetup, EndPreflight, StartVerified, Conclude, guarding, GP!vars, GP!guard
<1>10. CASE Cancel /\ UNCHANGED guarding
  BY <1>10 DEF Cancel, guarding, GP!Cancel, GP!guard
<1>11. CASE (TakeEffect \/ ForeignChange) /\ UNCHANGED guarding
  BY <1>11 DEF TakeEffect, ForeignChange, guarding, GP!vars, GP!guard
<1>12. QED
  BY <1>3, <1>4, <1>5, <1>6, <1>7, <1>8, <1>9, <1>10, <1>11 DEF GuardedNext, GuardedStep

LEMMA WatchingStays == [GuardedNext]_allVars => (Watching' <=> Watching)
<1> SUFFICES ASSUME [GuardedNext]_allVars PROVE tc' = tc
  BY DEF Watching
<1>1. QED
  BY GuardedNextIsNext, CaseStays

\* The guard in front of a watched run behaves as RequestGuard says, so whatever is
\* proved of RequestGuard for every caller holds of the engine's exchanges.
THEOREM GuardKeepsItsPromise == GuardedSpec /\ Watching => GP!Spec
<1>1. TypeOK /\ InTurn /\ Watching /\ [GuardedNext]_allVars => [GP!Next]_(GP!vars)
  <2>1. CASE UNCHANGED allVars
    BY <2>1 DEF allVars, vars, guarding, GP!vars, GP!guard
  <2>2. QED
    BY <2>1, StepsAsk DEF GP!Next
<1>2. QED
  BY <1>1, GuardStarts, WatchingStays, GuardedRuns, PTL DEF GuardedSpec, GP!Spec

\* In a watched run the guard's counters count the exchanges it allowed.
LEMMA GuardCounts == GuardedSpec => [](Watching => GP!TypeOK /\ GP!CountInv)
<1>1. GP!PlansAssumption
  BY PlansAreTyped
<1>2. GP!Spec => [](GP!TypeOK /\ GP!CountInv)
  BY <1>1, GP!AlwaysCounted, PTL
<1>3. QED
  BY <1>2, GuardKeepsItsPromise, WatchingStays, PTL DEF GuardedSpec

-----------------------------------------------------------------------------
(***************************************************************************)
(* A plan that lists what the case needs is enough.  WithinNeed compares   *)
(* every counter of the guard with what the run has spent of the dispatch  *)
(* so far, which the engine's own state tells; a step that asks for an     *)
(* exchange has spent less of it than the case needs.                      *)
(***************************************************************************)

Planned == Watching /\ { plan.dispatches[i] : i \in DOMAIN plan.dispatches } = Needed(tc)

\* Identities whose verified turn is over.
Ended == { id \in JudgedBy(tc) : verdict[id] # "none" }

\* Reads and resets of the turn that is not over.
ReadsNow == IF pc = "again" THEN 1 ELSE IF pc \in {"write", "after"} THEN 2 ELSE 0
ResetsNow == IF pc \in {"before", "again", "write", "after"} THEN 1 ELSE 0

\* At most how often the run has asked for an exchange of d.
Spent(d) ==
  CASE d.phase = "setup" -> IF pc = "setup" /\ at <= d.key THEN 0 ELSE 1
    [] d.phase = "preflight" -> IF probes[d.key] = "unsent" THEN 0 ELSE 1
    [] d.phase = "resource" -> IF exec[d.key].sent THEN 1 ELSE 0
    [] d.phase = "verification" -> 3 * Cardinality(Ended) + ReadsNow
    [] OTHER -> Cardinality(Ended) + ResetsNow

WithinNeed == \A i \in DOMAIN plan.dispatches : counts[i] <= Spent(plan.dispatches[i])

\* No stage has begun that the engine has not come to.
Paced == (pc = "setup" => stage <= 0) /\ (pc = "preflight" => stage <= 1)

PlanInv ==
  /\ pc = "reset" => tc.reset
  /\ Planned => WithinNeed /\ Paced /\ refused = {}

LEMMA NeededCases ==
  ASSUME TypeOK, Watching, NEW d \in Needed(tc)
  PROVE  \/ d.phase = "setup" /\ d.key \in 1..tc.setup /\ d.max = 1
         \/ d.phase = "preflight" /\ d.key \in Ids \cup {Reader} /\ d.max = 1
         \/ d.phase = "resource" /\ d.key \in Ids /\ d.max = 1
         \/ d.phase = "verification" /\ d.max = 3 * Cardinality(JudgedBy(tc))
         \/ d.phase = "reset" /\ d.max = Cardinality(JudgedBy(tc))
<1>1. tc.preflight \subseteq Ids \cup {Reader} /\ \A i \in DOMAIN tc.order : tc.order[i] \in Ids
  <2>1. tc \in Case
    BY CasesAssumption DEF TypeOK
  <2>2. tc.preflight \subseteq Ids \cup {Reader}
    BY <2>1, ZenonT(60) DEF Case
  <2>3. QED
    BY <2>2, CaseType
<1>2. CASE d \in { D("setup", n, 1) : n \in 1..tc.setup }
  BY <1>2 DEF D
<1>3. CASE d \in { D("preflight", id, 1) : id \in tc.preflight }
  BY <1>1, <1>3 DEF D
<1>4. CASE d \in { D("resource", tc.order[i], 1) : i \in DOMAIN tc.order }
  BY <1>1, <1>4 DEF D
<1>5. CASE d = D("verification", Reader, 3 * Cardinality(JudgedBy(tc)))
  BY <1>5 DEF D
<1>6. CASE d = D("reset", Restorer, Cardinality(JudgedBy(tc)))
  BY <1>6 DEF D
<1>7. QED
  BY <1>2, <1>3, <1>4, <1>5, <1>6, NeededIs

LEMMA EndedType ==
  ASSUME TypeOK, Watching
  PROVE  /\ IsFiniteSet(JudgedBy(tc)) /\ IsFiniteSet(Ended)
         /\ Cardinality(JudgedBy(tc)) \in Nat /\ Cardinality(Ended) \in Nat
         /\ \A id \in JudgedBy(tc) : verdict[id] = "none" =>
              Cardinality(Ended) < Cardinality(JudgedBy(tc))
<1>1. IsFiniteSet(JudgedBy(tc)) /\ Ended \in SUBSET JudgedBy(tc)
  BY WatchedAssumption DEF Watching, JudgedBy, Ended
<1>2. /\ IsFiniteSet(Ended) /\ Cardinality(Ended) <= Cardinality(JudgedBy(tc))
      /\ Cardinality(JudgedBy(tc)) = Cardinality(Ended) => JudgedBy(tc) = Ended
  BY <1>1, FS_Subset
<1>3. Cardinality(JudgedBy(tc)) \in Nat /\ Cardinality(Ended) \in Nat
  BY <1>1, <1>2, FS_CardinalityType
<1>4. \A id \in JudgedBy(tc) : verdict[id] = "none" => JudgedBy(tc) # Ended
  BY DEF Ended
<1>5. QED
  BY <1>1, <1>2, <1>3, <1>4

LEMMA SpentType ==
  ASSUME TypeOK, Watching, NEW d \in Needed(tc)
  PROVE  Spent(d) \in Nat
BY NeededCases, EndedType DEF Spent, ReadsNow, ResetsNow

\* What the run has spent never shrinks.
LEMMA SpentGrows ==
  ASSUME TypeOK, Watching, NEW d \in Needed(tc),
         pc' = "setup" => pc = "setup" /\ at <= at' /\ at' \in Nat,
         \A id \in Ids \cup {Reader} : probes[id] # "unsent" => probes'[id] # "unsent",
         \A id \in Ids : exec[id].sent => exec'[id].sent,
         Cardinality(Ended') \in Nat,
         3 * Cardinality(Ended) + ReadsNow <= 3 * Cardinality(Ended') + ReadsNow',
         Cardinality(Ended) + ResetsNow <= Cardinality(Ended') + ResetsNow'
  PROVE  Spent(d)' \in Nat /\ Spent(d) <= Spent(d)'
<1>1. CASE d.phase = "setup"
  BY <1>1, NeededCases DEF Spent, TypeOK
<1>2. CASE d.phase = "preflight"
  BY <1>2, NeededCases DEF Spent
<1>3. CASE d.phase = "resource"
  BY <1>3, NeededCases DEF Spent
<1>4. CASE d.phase \in {"verification", "reset"}
  BY <1>4, EndedType DEF Spent, ReadsNow, ResetsNow
<1>5. QED
  BY <1>1, <1>2, <1>3, <1>4, NeededCases

\* The guard allows an exchange of which the case needs more than was spent.
LEMMA NotRefused ==
  ASSUME TypeOK, GP!TypeOK, GP!CountInv, Planned, WithinNeed,
         NEW d \in Needed(tc), Spent(d) < d.max, stage <= GP!StageOf(d.phase),
         NEW id, NEW failed, Through(d.phase, d.key, id, failed)
  PROVE  /\ refused' = refused /\ plan' = plan
         /\ \/ counts' = counts /\ stage' = stage
            \/ /\ stage' = GP!StageOf(d.phase)
               /\ \E i \in DOMAIN plan.dispatches :
                    /\ plan.dispatches[i].phase = d.phase /\ plan.dispatches[i].key = d.key
                    /\ counts' = [counts EXCEPT ![i] = @ + 1]
<1> DEFINE q == Labelled(d.phase, d.key)
<1>1. PICK i \in DOMAIN plan.dispatches : plan.dispatches[i] = d
  BY DEF Planned
<1>2. counts[i] \in Nat /\ Spent(d) \in Nat /\ d.max \in Nat
  BY <1>1, SpentType, NeededCases, EndedType, PlansAreTyped, GP!CountsType DEF Planned
<1>3. counts[i] < plan.dispatches[i].max
  BY <1>1, <1>2 DEF WithinNeed
<1>4. total < plan.max
  BY <1>3, PlansAreTyped, GP!RoomInTotal DEF GP!CountInv
<1>5. CASE GP!Reserve(q) /\ refused' = refused
  BY <1>5 DEF GP!Reserve, GP!Fits, Labelled
<1>6. CASE GP!Refuse(q) /\ (cancelled => refused' = refused)
  <2>1. GP!Fits(i, q)
    BY <1>1, <1>3 DEF GP!Fits, Labelled
  <2>2. GP!StageOf(d.phase) >= 0
    BY <1>1 DEF GP!CountInv, GP!Accepted, GP!Acceptable
  <2>3. ~cancelled => GP!InTime(q)
    BY <1>4, <2>2 DEF GP!InTime, Labelled
  <2>4. cancelled
    BY <1>6, <2>1, <2>3 DEF GP!Refuse, Labelled
  <2>5. QED
    BY <1>6, <2>4 DEF GP!Refuse, GP!guard
<1>7. QED
  <2>1. \/ G!Reserve(q) /\ refused' = refused
        \/ G!Refuse(q) /\ (cancelled => refused' = refused)
    BY DEF Through, Labelled, Planned
  <2>2. QED
    BY <1>5, <1>6, <2>1, GuardIsGuard

\* A step after which the run has spent at least as much of everything.
Grows ==
  /\ tc' = tc
  /\ pc' = "setup" => pc = "setup"
  /\ pc' = "preflight" => pc \in {"setup", "preflight"}
  /\ \A e \in Needed(tc) : Spent(e)' \in Nat /\ Spent(e) <= Spent(e)'

\* A step that spends one exchange of d, of which there is one left.
Spends(d) ==
  /\ Grows /\ Spent(d) < d.max
  /\ \A e \in Needed(tc) : e.phase = d.phase /\ e.key = d.key => Spent(e) < Spent(e)'
  /\ d.phase = "setup" => pc = "setup"
  /\ d.phase = "preflight" => pc = "preflight" /\ pc' = "preflight"
  /\ d.phase \notin {"setup", "preflight"} => pc' \notin {"setup", "preflight"}

\* Steps that spend what there is left keep within the need and are not refused.
LEMMA NeedKept ==
  ASSUME TypeOK, GP!TypeOK, GP!CountInv, PlanInv, Planned,
         NEW d \in Needed(tc), Spends(d), NEW id, NEW failed, Through(d.phase, d.key, id, failed)
  PROVE  WithinNeed' /\ Paced' /\ refused' = {}
<1>1. WithinNeed /\ Paced /\ refused = {}
  BY DEF PlanInv
<1>2. /\ GP!StageOf(d.phase) \in Int /\ stage \in Int /\ stage <= 2
      /\ d.phase = "setup" => GP!StageOf(d.phase) = 0
      /\ d.phase = "preflight" => GP!StageOf(d.phase) = 1
      /\ d.phase \notin {"setup", "preflight"} => GP!StageOf(d.phase) = 2
  BY NeededCases DEF Planned, GP!StageOf, GP!TypeOK
<1>3. stage <= GP!StageOf(d.phase)
  BY <1>1, <1>2 DEF Spends, Paced
<1>4. /\ refused' = refused /\ plan' = plan
      /\ \/ counts' = counts /\ stage' = stage
         \/ /\ stage' = GP!StageOf(d.phase)
            /\ \E i \in DOMAIN plan.dispatches :
                 /\ plan.dispatches[i].phase = d.phase /\ plan.dispatches[i].key = d.key
                 /\ counts' = [counts EXCEPT ![i] = @ + 1]
  BY <1>1, <1>3, NotRefused DEF Spends
<1>5. Paced'
  BY <1>1, <1>2, <1>4 DEF Paced, Spends, Grows
<1>6. /\ \A i \in DOMAIN plan.dispatches : plan.dispatches[i] \in Needed(tc)
      /\ \A i \in DOMAIN plan.dispatches : counts[i] \in Nat
      /\ \A e \in Needed(tc) : Spent(e) \in Nat /\ Spent(e)' \in Nat /\ Spent(e) <= Spent(e)'
      /\ DOMAIN counts = DOMAIN plan.dispatches
  BY PlansAreTyped, GP!CountsType, SpentType DEF Planned, Spends, Grows, GP!TypeOK
<1>7. ASSUME NEW k \in DOMAIN plan.dispatches PROVE counts'[k] <= Spent(plan.dispatches[k])'
  <2> DEFINE e == plan.dispatches[k]
  <2>1. /\ e \in Needed(tc) /\ counts[k] <= Spent(e) /\ Spent(e) <= Spent(e)'
        /\ counts[k] \in Nat /\ Spent(e) \in Nat /\ Spent(e)' \in Nat
    BY <1>1, <1>4, <1>6 DEF WithinNeed
  <2>2. CASE counts' = counts
    BY <2>1, <2>2
  <2>3. ASSUME NEW i \in DOMAIN plan.dispatches,
               plan.dispatches[i].phase = d.phase, plan.dispatches[i].key = d.key,
               counts' = [counts EXCEPT ![i] = @ + 1]
        PROVE  counts'[k] <= Spent(e)'
    <3>1. CASE k = i
      <4>1. Spent(e) < Spent(e)'
        BY <1>4, <2>1, <2>3, <3>1 DEF Spends
      <4>2. counts'[k] = counts[k] + 1
        BY <1>6, <2>3, <3>1
      <4>3. QED
        BY <2>1, <4>1, <4>2
    <3>2. CASE k # i
      <4>1. counts'[k] = counts[k]
        BY <1>6, <2>3, <3>2
      <4>2. QED
        BY <2>1, <4>1
    <3>3. QED
      BY <3>1, <3>2
  <2>4. QED
    BY <1>4, <2>2, <2>3
<1>8. WithinNeed'
  BY <1>4, <1>7 DEF WithinNeed
<1>9. QED
  BY <1>1, <1>4, <1>5, <1>8

LEMMA NeedStays ==
  ASSUME TypeOK, GP!TypeOK, PlanInv, Planned, Grows, UNCHANGED guarding
  PROVE  WithinNeed' /\ Paced' /\ refused' = {}
<1>1. UNCHANGED <<plan, counts, stage, refused>> /\ WithinNeed /\ Paced /\ refused = {}
  BY DEF guarding, PlanInv
<1>2. Paced'
  BY <1>1 DEF Paced, Grows, GP!TypeOK
<1>3. /\ \A i \in DOMAIN plan.dispatches : plan.dispatches[i] \in Needed(tc)
      /\ \A i \in DOMAIN plan.dispatches : counts[i] \in Nat
      /\ \A e \in Needed(tc) : Spent(e) \in Nat /\ Spent(e)' \in Nat /\ Spent(e) <= Spent(e)'
  BY PlansAreTyped, GP!CountsType, SpentType DEF Planned, Grows
<1>4. ASSUME NEW k \in DOMAIN plan.dispatches PROVE counts[k] <= Spent(plan.dispatches[k])'
  BY <1>1, <1>3 DEF WithinNeed
<1>5. QED
  BY <1>1, <1>2, <1>4 DEF WithinNeed

-----------------------------------------------------------------------------
(* What each step of the engine spends. *)

\* Before the turns nobody's turn ends.
LEMMA SetupSpends ==
  ASSUME TypeOK, Watching, GuardedSetup
  PROVE  \E id, failed : \E d \in Needed(tc) : Spends(d) /\ Through(d.phase, d.key, id, failed)
<1> DEFINE d == D("setup", at, 1)
<1>1. /\ pc = "setup" /\ at \in Nat \ {0} /\ at <= tc.setup
      /\ UNCHANGED <<tc, probes, exec, verdict>>
      /\ (pc' = "setup" /\ at' = at + 1) \/ pc' = "aborted"
  BY DEF GuardedSetup, SetupStep, Abort, TypeOK
<1>2. tc.setup \in Nat
  <2>1. tc \in Case
    BY CasesAssumption DEF TypeOK
  <2>2. QED
    BY <2>1, ZenonT(60) DEF Case
<1>3. d \in Needed(tc) /\ d.phase = "setup" /\ d.key = at /\ d.max = 1
  BY <1>1, <1>2, NeededIs DEF D
<1>4. Ended' = Ended /\ Cardinality(Ended) \in Nat /\ ReadsNow = 0 /\ ReadsNow' = 0
      /\ ResetsNow = 0 /\ ResetsNow' = 0
  BY <1>1, EndedType DEF Ended, ReadsNow, ResetsNow
<1> HIDE DEF d
<1>5. Grows
  BY <1>1, <1>4, SpentGrows DEF Grows
<1>6. \A e \in Needed(tc) : e.phase = "setup" /\ e.key = at => Spent(e) = 0 /\ Spent(e)' = 1
  BY <1>1 DEF Spent
<1>7. Spends(d)
  BY <1>1, <1>3, <1>5, <1>6 DEF Spends
<1>8. QED
  BY <1>3, <1>7 DEF GuardedSetup

LEMMA ProbeSpends ==
  ASSUME TypeOK, Watching, GuardedProbe
  PROVE  \E id, failed : \E d \in Needed(tc) : Spends(d) /\ Through(d.phase, d.key, id, failed)
<1>1. PICK i \in ToProbe :
        /\ probes'[i] # probes[i]
        /\ Through("preflight", i, i, probes'[i] = "failed")
  BY DEF GuardedProbe
<1>2. PICK j \in ToProbe : /\ probes[j] = "unsent"
                           /\ \E result \in {"passed", "failed"} : probes' = [probes EXCEPT ![j] = result]
  BY DEF GuardedProbe, Probe
<1>3. tc.preflight \subseteq Ids \cup {Reader} /\ ToProbe \subseteq tc.preflight
  <2>1. tc \in Case
    BY CasesAssumption DEF TypeOK
  <2>2. tc.preflight \subseteq Ids \cup {Reader}
    BY <2>1, ZenonT(60) DEF Case
  <2>3. QED
    BY <2>2 DEF ToProbe
<1>4. i = j /\ probes'[i] # "unsent" /\ \A k \in Ids \cup {Reader} : k # i => probes'[k] = probes[k]
  BY <1>1, <1>2, <1>3 DEF TypeOK
<1> DEFINE d == D("preflight", i, 1)
<1>5. d \in Needed(tc) /\ d.phase = "preflight" /\ d.key = i /\ d.max = 1
  BY <1>3, NeededIs DEF D
<1>6. pc = "preflight" /\ UNCHANGED <<tc, pc, at, exec, verdict>> /\ at \in Nat
  BY DEF GuardedProbe, Probe, TypeOK
<1>7. Ended' = Ended /\ Cardinality(Ended) \in Nat /\ ReadsNow = 0 /\ ReadsNow' = 0
      /\ ResetsNow = 0 /\ ResetsNow' = 0
  BY <1>6, EndedType DEF Ended, ReadsNow, ResetsNow
<1> HIDE DEF d
<1>8. Grows
  BY <1>2, <1>4, <1>6, <1>7, SpentGrows DEF Grows
<1>9. \A e \in Needed(tc) : e.phase = "preflight" /\ e.key = i => Spent(e) = 0 /\ Spent(e)' = 1
  BY <1>2, <1>4 DEF Spent
<1>10. Spends(d)
  BY <1>5, <1>6, <1>8, <1>9 DEF Spends
<1>11. QED
  BY <1>1, <1>5, <1>10

LEMMA SendSpends ==
  ASSUME TypeOK, Watching, GuardedSend
  PROVE  \E id, failed : \E d \in Needed(tc) : Spends(d) /\ Through(d.phase, d.key, id, failed)
<1>1. PICK i \in DOMAIN tc.order :
        /\ IsNext(i)
        /\ \E s, r, m : EndTurn(tc.order[i], [status |-> s, refusal |-> r, matched |-> m, sent |-> TRUE], "none")
  BY DEF GuardedSend, SendPlain
<1> DEFINE id == tc.order[i]
           d == D("resource", id, 1)
<1>2. id \in Ids /\ ~exec[id].sent /\ verdict[id] = "none"
  BY <1>1, CaseType DEF IsNext, Waiting
<1>3. /\ pc = "turn" /\ pc' = "turn" /\ UNCHANGED <<tc, probes, verdict>>
      /\ exec'[id].sent /\ \A j \in Ids \ {id} : exec'[j] = exec[j]
  BY <1>1, <1>2 DEF GuardedSend, SendPlain, EndTurn, TypeOK
<1>4. PICK j \in Ids : /\ exec'[j].sent /\ ~exec[j].sent
                       /\ Through("resource", j, j, exec'[j].status = NoStatus)
  BY DEF GuardedSend
<1>5. j = id
  BY <1>3, <1>4
<1>6. d \in Needed(tc) /\ d.phase = "resource" /\ d.key = id /\ d.max = 1
  BY NeededIs DEF D
<1>7. Ended' = Ended /\ Cardinality(Ended) \in Nat /\ ReadsNow = 0 /\ ReadsNow' = 0
      /\ ResetsNow = 0 /\ ResetsNow' = 0
  BY <1>3, EndedType DEF Ended, ReadsNow, ResetsNow
<1> HIDE DEF d
<1>8. Grows
  BY <1>2, <1>3, <1>7, SpentGrows DEF Grows
<1>9. \A e \in Needed(tc) : e.phase = "resource" /\ e.key = id => Spent(e) = 0 /\ Spent(e)' = 1
  BY <1>2, <1>3 DEF Spent
<1>10. Spends(d)
  BY <1>3, <1>6, <1>8, <1>9 DEF Spends
<1>11. QED
  BY <1>4, <1>5, <1>6, <1>10

\* The end of a verified turn is one turn more, and forgets no request.
LEMMA EndsOneTurn ==
  ASSUME TypeOK, Watching, NEW id \in Ids, Verified(id), verdict[id] = "none",
         NEW e, NEW v, EndTurn(id, e, v), v # "none", exec[id].sent => e.sent
  PROVE  /\ tc' = tc /\ pc' = "turn" /\ probes' = probes
         /\ Cardinality(Ended') = Cardinality(Ended) + 1
         /\ Cardinality(Ended) < Cardinality(JudgedBy(tc))
         /\ \A j \in Ids : exec[j].sent => exec'[j].sent
<1>1. /\ tc' = tc /\ pc' = "turn" /\ probes' = probes
      /\ verdict' = [verdict EXCEPT ![id] = v] /\ exec' = [exec EXCEPT ![id] = e]
  BY DEF EndTurn
<1>2. Ended' = Ended \cup {id} /\ id \notin Ended /\ id \in JudgedBy(tc)
  BY <1>1 DEF Ended, JudgedBy, TypeOK, Verified
<1>3. Cardinality(Ended') = Cardinality(Ended) + 1
  BY <1>2, EndedType, FS_AddElement
<1>4. \A j \in Ids : exec[j].sent => exec'[j].sent
  BY <1>1 DEF TypeOK
<1>5. QED
  BY <1>1, <1>2, <1>3, <1>4, EndedType

\* A turn goes on, or ends without a request.
LEMMA TurnSpends ==
  ASSUME TypeOK, InTurn, Watching, pc \in {"reset", "before", "again"},
         NEW next \in {"before", "again", "write"},
         pc = "reset" => next = "before",
         pc = "before" => next = "again",
         pc = "again" => next = "write",
         Goto(next) \/ Withhold(Current)
  PROVE  /\ Grows /\ pc' \notin {"setup", "preflight"}
         /\ Cardinality(Ended) \in Nat /\ Cardinality(Ended) < Cardinality(JudgedBy(tc))
         /\ Cardinality(JudgedBy(tc)) \in Nat
         /\ pc = "reset" => /\ ResetsNow = 0
                            /\ Cardinality(Ended) < Cardinality(Ended') + ResetsNow'
         /\ pc # "reset" => /\ ReadsNow \in {0, 1}
                            /\ 3 * Cardinality(Ended) + ReadsNow
                                 < 3 * Cardinality(Ended') + ReadsNow'
<1>1. /\ Current \in Ids /\ Verified(Current) /\ verdict[Current] = "none" /\ ~exec[Current].sent
      /\ Current \in JudgedBy(tc)
  BY CurrentType DEF InTurn, Verifying, JudgedBy, Verified
<1>2. CASE Goto(next)
  <2>1. UNCHANGED <<tc, probes, exec, verdict>> /\ pc' = next
    BY <1>2 DEF Goto
  <2>2. Ended' = Ended
    BY <2>1 DEF Ended
  <2>3. Grows
    BY <2>1, <2>2, EndedType, SpentGrows DEF Grows, ReadsNow, ResetsNow, Verifying
  <2>4. QED
    BY <1>1, <2>1, <2>2, <2>3, EndedType DEF ReadsNow, ResetsNow, Verifying
<1>3. CASE Withhold(Current)
  <2>1. EndTurn(Current, NoExec, "inconclusive")
    BY <1>3 DEF Withhold
  <2>2. /\ tc' = tc /\ pc' = "turn" /\ probes' = probes
        /\ Cardinality(Ended') = Cardinality(Ended) + 1
        /\ Cardinality(Ended) < Cardinality(JudgedBy(tc))
        /\ \A j \in Ids : exec[j].sent => exec'[j].sent
    BY <1>1, <2>1, EndsOneTurn
  <2>3. Grows
    BY <2>2, EndedType, SpentGrows DEF Grows, ReadsNow, ResetsNow, Verifying
  <2>4. QED
    BY <2>2, <2>3, EndedType DEF ReadsNow, ResetsNow, Verifying
<1>4. QED
  BY <1>2, <1>3

LEMMA ResetSpends ==
  ASSUME TypeOK, InTurn, PlanInv, Watching, GuardedReset
  PROVE  \E id, failed : \E d \in Needed(tc) : Spends(d) /\ Through(d.phase, d.key, id, failed)
<1> DEFINE d == D("reset", Restorer, Cardinality(JudgedBy(tc)))
<1>1. pc = "reset" /\ (Goto("before") \/ Withhold(Current))
  BY DEF GuardedReset, Reset
<1>2. tc.verify /\ tc.reset
  BY <1>1 DEF InTurn, PlanInv, Verifying, Verified
<1>3. /\ Grows /\ pc' \notin {"setup", "preflight"}
      /\ Cardinality(Ended) \in Nat /\ Cardinality(Ended) < Cardinality(JudgedBy(tc))
      /\ ResetsNow = 0 /\ Cardinality(Ended) < Cardinality(Ended') + ResetsNow'
  BY <1>1, TurnSpends DEF Verifying
<1>4. /\ d \in Needed(tc) /\ d.phase = "reset" /\ d.key = Restorer
      /\ d.max = Cardinality(JudgedBy(tc))
  BY <1>2, NeededIs DEF D
<1> HIDE DEF d
<1>5. \A e : e.phase = "reset" => /\ Spent(e) = Cardinality(Ended) + ResetsNow
                                  /\ Spent(e)' = Cardinality(Ended') + ResetsNow'
  BY DEF Spent
<1>6. Spends(d)
  BY <1>3, <1>4, <1>5 DEF Spends
<1>7. QED
  BY <1>4, <1>6 DEF GuardedReset

LEMMA ReadSpends ==
  ASSUME TypeOK, InTurn, Watching, GuardedRead
  PROVE  \E id, failed : \E d \in Needed(tc) : Spends(d) /\ Through(d.phase, d.key, id, failed)
<1> DEFINE d == D("verification", Reader, 3 * Cardinality(JudgedBy(tc)))
<1>1. /\ Grows /\ pc' \notin {"setup", "preflight"}
      /\ 3 * Cardinality(Ended) + ReadsNow < 3 * Cardinality(JudgedBy(tc))
      /\ 3 * Cardinality(Ended) + ReadsNow < 3 * Cardinality(Ended') + ReadsNow'
      /\ tc.verify
  <2>1. CASE ReadBefore \/ ReadAgain
    <3>1. /\ pc \in {"before", "again"}
          /\ Goto(IF pc = "before" THEN "again" ELSE "write") \/ Withhold(Current)
      BY <2>1 DEF ReadBefore, ReadAgain
    <3>2. tc.verify
      BY <3>1 DEF InTurn, Verifying, Verified
    <3>3. /\ Grows /\ pc' \notin {"setup", "preflight"}
          /\ Cardinality(Ended) \in Nat /\ Cardinality(Ended) < Cardinality(JudgedBy(tc))
          /\ Cardinality(JudgedBy(tc)) \in Nat
          /\ ReadsNow \in {0, 1}
          /\ 3 * Cardinality(Ended) + ReadsNow < 3 * Cardinality(Ended') + ReadsNow'
      BY <3>1, TurnSpends DEF Verifying
    <3>4. QED
      BY <3>2, <3>3
  <2>2. CASE ReadAfter
    <3>1. /\ pc = "after" /\ Current \in Ids /\ Verified(Current) /\ verdict[Current] = "none"
          /\ tc.verify
      BY <2>2, CurrentType DEF ReadAfter, InTurn, Verifying, Verified
    <3>2. PICK v : EndTurn(Current, exec[Current], v) /\ v # "none"
      <4>1. CASE cancelled
        BY <2>2, <4>1 DEF ReadAfter
      <4>2. CASE ~cancelled
        <5>1. PICK read \in Reads :
                EndTurn(Current, exec[Current],
                        Demoted(Current, exec[Current].status, Conclusion(exec[Current].status, read)))
          BY <2>2, <4>2 DEF ReadAfter
        <5>2. Conclusion(exec[Current].status, read) # "none"
          BY DEF Conclusion
        <5>3. QED
          BY <5>1, <5>2 DEF Demoted
      <4>3. QED
        BY <4>1, <4>2
    <3>3. /\ tc' = tc /\ pc' = "turn" /\ probes' = probes
          /\ Cardinality(Ended') = Cardinality(Ended) + 1
          /\ Cardinality(Ended) < Cardinality(JudgedBy(tc))
          /\ \A j \in Ids : exec[j].sent => exec'[j].sent
      BY <3>1, <3>2, EndsOneTurn
    <3>4. Grows
      BY <3>1, <3>3, EndedType, SpentGrows DEF Grows, ReadsNow, ResetsNow
    <3>5. QED
      BY <3>1, <3>3, <3>4, EndedType DEF ReadsNow
  <2>3. QED
    BY <2>1, <2>2 DEF GuardedRead
<1>2. /\ d \in Needed(tc) /\ d.phase = "verification" /\ d.key = Reader
      /\ d.max = 3 * Cardinality(JudgedBy(tc))
  BY <1>1, NeededIs DEF D
<1>3. \A e : e.phase = "verification" => /\ Spent(e) = 3 * Cardinality(Ended) + ReadsNow
                                         /\ Spent(e)' = 3 * Cardinality(Ended') + ReadsNow'
  BY DEF Spent
<1> HIDE DEF d
<1>4. Spends(d)
  BY <1>1, <1>2, <1>3 DEF Spends
<1>5. QED
  BY <1>2, <1>4 DEF GuardedRead

LEMMA WriteSpends ==
  ASSUME TypeOK, InTurn, Watching, GuardedWrite
  PROVE  \E id, failed : \E d \in Needed(tc) : Spends(d) /\ Through(d.phase, d.key, id, failed)
<1> DEFINE d == D("resource", Current, 1)
<1>1. /\ pc = "write" /\ pc' = "after" /\ UNCHANGED <<tc, probes, verdict>>
      /\ Current \in Ids /\ at \in DOMAIN tc.order /\ ~exec[Current].sent
  BY CurrentType DEF GuardedWrite, SendWrite, InTurn, Verifying
<1>2. PICK s : exec' = [exec EXCEPT ![Current] = [NoExec EXCEPT !.status = s, !.sent = TRUE]]
  BY DEF GuardedWrite, SendWrite
<1>3. exec'[Current].sent /\ \A j \in Ids \ {Current} : exec'[j] = exec[j]
  BY <1>1, <1>2 DEF TypeOK, NoExec
<1>4. d \in Needed(tc) /\ d.phase = "resource" /\ d.key = Current /\ d.max = 1
  BY <1>1, NeededIs DEF D, Current
<1>5. /\ Ended' = Ended /\ Cardinality(Ended) \in Nat
      /\ ReadsNow = 2 /\ ReadsNow' = 2 /\ ResetsNow = 1 /\ ResetsNow' = 1
  BY <1>1, EndedType DEF Ended, ReadsNow, ResetsNow
<1> HIDE DEF d
<1>6. Grows
  BY <1>1, <1>3, <1>5, SpentGrows DEF Grows
<1>7. Current' = Current
  BY <1>1 DEF Current, GuardedWrite, SendWrite
<1>8. \A e \in Needed(tc) : e.phase = "resource" /\ e.key = Current => Spent(e) = 0 /\ Spent(e)' = 1
  BY <1>1, <1>3, <1>7 DEF Spent
<1>9. Spends(d)
  BY <1>1, <1>4, <1>6, <1>8 DEF Spends
<1>10. QED
  BY <1>4, <1>9 DEF GuardedWrite

\* Steps that ask for nothing.
LEMMA OthersGrow ==
  ASSUME TypeOK, InTurn, Watching,
         \/ ApplySetup \/ EndPreflight \/ StartVerified \/ Conclude
         \/ Cancel \/ TakeEffect \/ ForeignChange \/ UNCHANGED allVars
  PROVE  Grows
<1>1. CASE StartVerified /\ cancelled
  <2>1. PICK i \in DOMAIN tc.order :
          IsNext(i) /\ Verified(tc.order[i]) /\ Withhold(tc.order[i])
    BY <1>1 DEF StartVerified
  <2> DEFINE id == tc.order[i]
  <2>2. /\ id \in Ids /\ verdict[id] = "none" /\ ~exec[id].sent /\ pc = "turn"
        /\ EndTurn(id, NoExec, "inconclusive")
    BY <1>1, <2>1, CaseType DEF StartVerified, IsNext, Waiting, Withhold
  <2> HIDE DEF id
  <2>3. /\ tc' = tc /\ pc' = "turn" /\ probes' = probes
        /\ Cardinality(Ended') = Cardinality(Ended) + 1
        /\ \A j \in Ids : exec[j].sent => exec'[j].sent
    BY <2>1, <2>2, EndsOneTurn DEF id
  <2>4. QED
    BY <2>2, <2>3, EndedType, SpentGrows DEF Grows, ReadsNow, ResetsNow
<1>2. CASE ~(StartVerified /\ cancelled)
  <2>1. /\ UNCHANGED <<tc, probes, exec, verdict>>
        /\ pc' = "setup" => pc = "setup" /\ at' = at
        /\ pc' = "preflight" => pc \in {"setup", "preflight"}
        /\ \/ pc' = pc
           \/ pc \in {"setup", "preflight"}
           \/ pc = "turn" /\ pc' \in {"reset", "before", "done"}
        /\ pc # "setup" \/ pc' \in {"setup", "preflight", "aborted"}
        /\ pc # "preflight" \/ pc' \in {"preflight", "turn", "done"}
    <3>1. CASE ApplySetup \/ EndPreflight \/ Conclude
      BY <3>1 DEF ApplySetup, Abort, EndPreflight, Conclude
    <3>2. CASE StartVerified
      BY <1>2, <3>2 DEF StartVerified, Goto
    <3>3. CASE Cancel \/ TakeEffect \/ ForeignChange \/ UNCHANGED allVars
      BY <3>3 DEF Cancel, TakeEffect, ForeignChange, run, allVars, vars
    <3>4. QED
      BY <3>1, <3>2, <3>3
  <2>2. Ended' = Ended
    BY <2>1 DEF Ended
  <2>3. ReadsNow <= ReadsNow' /\ ResetsNow <= ResetsNow' /\ {ReadsNow, ReadsNow', ResetsNow, ResetsNow'} \subseteq Nat
    BY <2>1 DEF ReadsNow, ResetsNow
  <2>4. QED
    BY <2>1, <2>2, <2>3, EndedType, SpentGrows DEF Grows, TypeOK
<1>3. QED
  BY <1>1, <1>2

-----------------------------------------------------------------------------
LEMMA ResetStays ==
  ASSUME PlanInv, [GuardedNext]_allVars
  PROVE  pc' = "reset" => tc'.reset
<1>1. CASE SetupStep \/ ApplySetup \/ Probe \/ EndPreflight \/ Conclude
  BY <1>1 DEF SetupStep, ApplySetup, Abort, Probe, EndPreflight, Conclude, PlanInv
<1>2. CASE SendPlain
  BY <1>2 DEF SendPlain, EndTurn
<1>3. CASE StartVerified
  BY <1>3 DEF StartVerified, Withhold, EndTurn, Goto
<1>4. CASE Reset \/ ReadBefore \/ ReadAgain \/ ReadAfter
  BY <1>4 DEF Reset, ReadBefore, ReadAgain, ReadAfter, Withhold, EndTurn, Goto
<1>5. CASE SendWrite
  BY <1>5 DEF SendWrite
<1>6. CASE Cancel \/ TakeEffect \/ ForeignChange \/ UNCHANGED vars
  BY <1>6 DEF Cancel, TakeEffect, ForeignChange, run, vars, PlanInv
<1>7. QED
  BY <1>1, <1>2, <1>3, <1>4, <1>5, <1>6, GuardedNextIsNext DEF Next, Step

LEMMA PlanStep ==
  ASSUME TypeOK, InTurn, PlanInv, Watching => GP!TypeOK /\ GP!CountInv, [GuardedNext]_allVars
  PROVE  PlanInv'
<1>1. tc' = tc
  BY GuardedNextIsNext, CaseStays
<1>2. ASSUME Planned PROVE WithinNeed' /\ Paced' /\ refused' = {}
  <2>1. Watching /\ GP!TypeOK /\ GP!CountInv
    BY <1>2 DEF Planned
  <2>2. CASE \E id, failed : \E d \in Needed(tc) :
               Spends(d) /\ Through(d.phase, d.key, id, failed)
    BY <1>2, <2>1, <2>2, NeedKept
  <2>3. CASE Grows /\ UNCHANGED guarding
    BY <1>2, <2>1, <2>3, NeedStays
  <2>4. CASE GuardedSetup \/ GuardedProbe \/ GuardedSend \/ GuardedReset \/ GuardedRead \/ GuardedWrite
    BY <2>1, <2>2, <2>4, SetupSpends, ProbeSpends, SendSpends, ResetSpends, ReadSpends, WriteSpends
  <2>5. CASE /\ ApplySetup \/ EndPreflight \/ StartVerified \/ Conclude
                \/ Cancel \/ TakeEffect \/ ForeignChange \/ UNCHANGED allVars
             /\ UNCHANGED guarding
    BY <2>1, <2>3, <2>5, OthersGrow
  <2>6. QED
    BY <2>4, <2>5 DEF GuardedNext, GuardedStep, allVars, guarding
<1>3. Planned' => Planned
  <2>1. Watching' <=> Watching
    BY <1>1 DEF Watching
  <2>2. Watching => plan' = plan
    <3>1. CASE UNCHANGED allVars
      BY <3>1 DEF allVars, guarding
    <3>2. CASE Watching /\ GuardedNext
      BY <3>2, StepsAsk DEF GP!Allow, GP!Reserve, GP!Refuse, GP!Cancel, GP!vars, GP!guard
    <3>3. QED
      BY <3>1, <3>2
  <2>3. QED
    BY <1>1, <2>1, <2>2 DEF Planned
<1>4. QED
  BY <1>2, <1>3, ResetStays DEF PlanInv

LEMMA PlanStart == GuardedInit => PlanInv
<1> SUFFICES ASSUME GuardedInit PROVE PlanInv
  OBVIOUS
<1>1. pc \in {"setup", "aborted"} /\ refused = {} /\ Init
  BY DEF GuardedInit, Init
<1>2. ASSUME Planned PROVE WithinNeed /\ Paced
  <2>1. GP!Init
    BY <1>2, GuardStarts DEF Planned
  <2>2. stage = -1 /\ \A i \in DOMAIN plan.dispatches : counts[i] = 0
    BY <2>1 DEF GP!Init
  <2>3. TypeOK
    BY <1>1, InitType
  <2>4. \A i \in DOMAIN plan.dispatches : Spent(plan.dispatches[i]) \in Nat
    BY <1>2, <2>3, SpentType DEF Planned
  <2>5. QED
    BY <2>2, <2>4 DEF WithinNeed, Paced
<1>3. QED
  BY <1>1, <1>2 DEF PlanInv

\* A plan that lists what the case needs is enough: whatever the target answers, on
\* no path through setup, probes, resets, repeated reads and writes does the run ask
\* for one exchange more, or for one out of its stage.
THEOREM PlanIsEnough == GuardedSpec => []PlanSuffices
<1>1. PlanInv => PlanSuffices
  BY DEF PlanInv, PlanSuffices, Planned
<1>2. TypeOK /\ InTurn /\ (Watching => GP!TypeOK /\ GP!CountInv) /\ PlanInv
        /\ [GuardedNext]_allVars => PlanInv'
  BY PlanStep
<1>3. QED
  BY <1>1, <1>2, PlanStart, GuardedRuns, GuardCounts, PTL DEF GuardedSpec

-----------------------------------------------------------------------------
\* The plan that lists everything a case needs is one New accepts, so there is a
\* plan that is enough: for every case that has somebody to send as and, where it is
\* verified, somebody to judge.
THEOREM WholeIsAccepted ==
  ASSUME NEW c \in Watched, c.order # <<>>, c.verify => JudgedBy(c) # {}
  PROVE  /\ GP!Acceptable(Whole(c))
         /\ { Whole(c).dispatches[i] : i \in DOMAIN Whole(c).dispatches } = Needed(c)
<1> DEFINE p == Whole(c)
<1>1. c.order \in Seq(Ids) /\ c.setup \in Nat
  <2>1. c \in Case
    BY WatchedAssumption, CasesAssumption
  <2>2. QED
    BY <2>1, ZenonT(60) DEF Case
<1>2. /\ p.dispatches \in Seq(GP!Dispatch) /\ p.max \in Nat
      /\ { p.dispatches[i] : i \in DOMAIN p.dispatches } = Needed(c)
      /\ GP!SumOfMax(p.dispatches) = p.max
  BY NeededType, PlanForType DEF Whole
<1>3. \A d \in Needed(c) : GP!StageOf(d.phase) >= 0 /\ d.max >= 1
  <2>1. c.verify => Cardinality(JudgedBy(c)) >= 1
    <3>1. IsFiniteSet(JudgedBy(c))
      BY WatchedAssumption DEF JudgedBy
    <3>2. Cardinality(JudgedBy(c)) \in Nat /\ (Cardinality(JudgedBy(c)) = 0 <=> JudgedBy(c) = {})
      BY <3>1, FS_CardinalityType, FS_EmptySet
    <3>3. QED
      BY <3>2
  <2>2. /\ Cardinality(JudgedBy(c)) \in Nat
        /\ \A n \in {"setup", "preflight", "resource", "verification", "reset"} :
             GP!StageOf(n) >= 0
    BY WatchedAssumption, FS_CardinalityType DEF JudgedBy, GP!StageOf
  <2>3. ASSUME NEW d \in Needed(c)
        PROVE  /\ d.phase \in {"setup", "preflight", "resource", "verification", "reset"}
               /\ \/ d.max = 1
                  \/ c.verify /\ d.max = 3 * Cardinality(JudgedBy(c))
                  \/ c.verify /\ d.max = Cardinality(JudgedBy(c))
    BY NeededIs DEF D
  <2>4. QED
    BY <2>1, <2>2, <2>3
<1>4. D("resource", c.order[1], 1) \in Needed(c)
  <2>1. 1 \in DOMAIN c.order
    BY <1>1
  <2>2. QED
    BY <2>1, NeededIs
<1> HIDE DEF p
<1>5. \A i \in DOMAIN p.dispatches : p.dispatches[i] \in Needed(c)
  BY <1>2
<1>6. PICK i \in DOMAIN p.dispatches : p.dispatches[i] = D("resource", c.order[1], 1)
  BY <1>2, <1>4
<1>7. p.dispatches # <<>>
  BY <1>6
<1>8. p.max >= 1
  <2> DEFINE ds == p.dispatches
             w == GP!MaxOf(ds)
             none == [k \in DOMAIN ds |-> 0]
  <2>1. p.max = SumFunctionOnSet(w, DOMAIN ds)
    BY <1>2 DEF GP!SumOfMax, GP!MaxOf, GP!SumFunction, GP!SumFunctionOnSet, GP!FoldFunctionOnSet,
                GP!MapThenFoldSet, SumFunctionOnSet, FoldFunctionOnSet, MapThenFoldSet
  <2>2. IsFiniteSet(DOMAIN ds)
    <3>1. DOMAIN ds = 1..Len(ds) /\ Len(ds) \in Nat
      BY <1>2
    <3>2. QED
      BY <3>1, FS_Interval
  <2>3. \A k \in DOMAIN ds : none[k] \in Nat /\ w[k] \in Nat /\ none[k] <= w[k]
    <3>1. \A k \in DOMAIN ds : ds[k] \in GP!Dispatch
      BY <1>2
    <3>2. QED
      BY <3>1 DEF GP!MaxOf, GP!Dispatch
  <2>4. none[i] < w[i]
    BY <1>6 DEF GP!MaxOf, D
  <2> HIDE DEF w, none
  <2>5. /\ Cardinality(Units(none, DOMAIN ds)) \in Nat /\ Cardinality(Units(w, DOMAIN ds)) \in Nat
        /\ Cardinality(Units(none, DOMAIN ds)) < Cardinality(Units(w, DOMAIN ds))
    BY <1>6, <2>2, <2>3, <2>4, UnitsUnder
  <2>6. p.max = Cardinality(Units(w, DOMAIN ds))
    BY <2>1, <2>2, <2>3, SumIsCount
  <2>7. QED
    BY <2>5, <2>6
<1>9. GP!Acceptable(p)
  BY <1>2, <1>3, <1>5, <1>7, <1>8 DEF GP!Acceptable
<1>10. QED
  BY <1>2, <1>9 DEF p
=============================================================================
