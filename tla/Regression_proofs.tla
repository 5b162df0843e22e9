-------------------------- MODULE Regression_proofs --------------------------
(***************************************************************************)
(* What a command and a save promise for every set of cases, command line  *)
(* and session.                                                            *)
(*                                                                         *)
(* No property is inductive alone: an exit code is decided long after the  *)
(* results it speaks of, a confirmation is written long after the run it   *)
(* names.  StageInv ties the point a command has reached to the results it *)
(* must have, FileInv to the files it must have written, SaveInv the point *)
(* a save has reached to what is in its directory, and FaithInv every      *)
(* result, file and confirmation to a run that took place.                 *)
(***************************************************************************)
EXTENDS Regression, TLAPS

Payloads == UNION { [some -> Result] : some \in SUBSET Ids }

TypeInv ==
  /\ cmd \in Commands /\ at \in 1..Len(Order)
  /\ session \in Session
  /\ cases \in [Ids -> Text]
  /\ loaded \in [Ids -> Bodies]
  /\ results \in [Ids -> Result \cup {None}]

Before == {"ended", "load", "check"}
Emits == {"out", "fill out", "fill temp", "rename", "sarif", "fill sarif", "show", "gate"}

Have(ids) == \A id \in ids : results[id] # None

\* A run that says nothing of a case has its reason in the result.
Excused == \A id \in Ids :
  results[id] # None /\ results[id].executions = "none" =>
    results[id].preflightFailed \/ results[id].error # ""

StageInv ==
  /\ pc \in Before \cup {"run", "ran"} \cup Emits
  /\ pc # "ended" => exit = "none"
  /\ at <= Last
  /\ pc \in {"load", "check"} => at = 1
  /\ pc = "run" => \A k \in 1..(at - 1) : results[Order[k]] # None
  /\ pc = "ran" => \A k \in 1..at : results[Order[k]] # None
  /\ pc \in Emits => Have(Batch)

-----------------------------------------------------------------------------
LEMMA OrderType ==
  /\ Len(Order) \in Nat /\ Len(Order) >= 1 /\ 1 \in 1..Len(Order)
  /\ DOMAIN Order = 1..Len(Order)
  /\ \A k \in 1..Len(Order) : k \in Nat /\ Order[k] \in Ids
<1>1. Order \in Seq(Ids) /\ Order # <<>>
  BY CommandAssumption
<1>2. QED
  BY <1>1

LEMMA LastType == Last \in 1..Len(Order) /\ Last \in Nat
BY OrderType DEF Last

LEMMA BatchType == Batch \subseteq Ids /\ Batch = { Order[k] : k \in 1..Last }
<1>1. CASE Single
  BY <1>1, OrderType DEF Batch, Last
<1>2. CASE ~Single
  BY <1>2, OrderType DEF Batch, Last, Ids
<1>3. QED
  BY <1>1, <1>2

\* What is decided by the command and the results alone stays while they do.
LEMMA SameBatch ==
  ASSUME cmd' = cmd
  PROVE  Single' = Single /\ Batch' = Batch /\ Last' = Last /\ Atomic' = Atomic
BY DEF Single, Batch, Last, Atomic

LEMMA SamePayload ==
  ASSUME cmd' = cmd, results' = results
  PROVE  Payload' = Payload
BY SameBatch DEF Payload

\* The steps of emit and after leave the results alone.
EmitStep ==
  \/ SkipOut \/ OpenOut \/ FillOut \/ OpenTemp \/ FillTemp \/ Rename
  \/ OpenSarif \/ FillSarif \/ Show \/ Gate \/ Kill

LEMMA EmitStepEmits == EmitStep => Emitting
BY DEF EmitStep, SkipOut, OpenOut, FillOut, OpenTemp, FillTemp, Rename, OpenSarif, FillSarif,
       Show, Gate, Kill

\* What a run can return is a result, and one without executions says why.
LEMMA OutcomeType ==
  ASSUME NEW b \in Bodies, NEW r \in Outcomes(b), NEW d \in Bodies \cup {None}
  PROVE  /\ r \in Result /\ [r EXCEPT !.digest = d] \in Result
         /\ r.executions = "none" => r.preflightFailed \/ r.error # ""
         /\ r.findings \subseteq Finding
<1>1. Findable(b) \subseteq Finding /\ (Judged(b) # {}) \in BOOLEAN
  BY DEF Findable
<1> DEFINE Good(o) == o \in Result /\ (o.executions = "none" => o.preflightFailed \/ o.error # "")
<1>2. ASSUME r \in Errored(b) PROVE Good(r)
  <2>1. PICK fs \in SUBSET Findable(b) : r = Outcome("", FALSE, "errored", fs, Judged(b) # {})
    BY <1>2, Zenon DEF Errored
  <2>2. QED
    BY <2>1, <1>1 DEF Outcome, Result
<1>3. ASSUME r \in Conclusive(b) \cup Inconclusive(b) PROVE Good(r)
  <2>1. \/ \E fs \in SUBSET Findable(b) : r = Outcome("", FALSE, "answered", fs, FALSE)
        \/ \E fs \in SUBSET Findable(b) : r = Outcome("", FALSE, "answered", fs, Judged(b) # {})
    BY <1>3, Zenon DEF Conclusive, Inconclusive
  <2>2. ASSUME NEW fs \in SUBSET Finding, NEW i \in BOOLEAN, r = Outcome("", FALSE, "answered", fs, i)
        PROVE  Good(r)
    BY <2>2 DEF Outcome, Result
  <2>3. FALSE \in BOOLEAN /\ SUBSET Findable(b) \subseteq SUBSET Finding
    BY <1>1
  <2> HIDE DEF Good
  <2>4. QED
    BY <2>1, <2>2, <2>3, <1>1
<1>4. ASSUME r = Outcome("", TRUE, "none", {}, Judged(b) # {}) PROVE Good(r)
  BY <1>4, <1>1 DEF Outcome, Result
<1>5. ASSUME r = Outcome("setup_failed", FALSE, "none", {}, FALSE) PROVE Good(r)
  BY <1>5 DEF Outcome, Result
<1>6. Good(r)
  <2> HIDE DEF Good
  <2>1. QED
    BY <1>2, <1>3, <1>4, <1>5, Zenon DEF Outcomes
<1>7. QED
  BY <1>6 DEF Result

-----------------------------------------------------------------------------
LEMMA DigestType ==
  ASSUME TypeInv, NEW id \in Ids
  PROVE  DigestOf(id) \in Bodies \cup {None}
BY DEF TypeInv, DigestOf

\* The case whose turn it is, and how its result is replaced.
LEMMA TurnType == TypeInv => Order[at] \in Ids
BY OrderType DEF TypeInv

LEMMA RunCaseType ==
  ASSUME TypeInv, StageInv, Excused, RunCase
  PROVE  results' \in [Ids -> Result \cup {None}] /\ Excused'
<1> DEFINE id == Order[at]
<1>1. id \in Ids /\ loaded[id] \in Bodies
  BY TurnType DEF TypeInv
<1>2. CASE UNCHANGED results
  BY <1>2 DEF TypeInv, Excused
<1>3. ASSUME NEW r \in Outcomes(loaded[id]),
             results' = [results EXCEPT ![id] = [r EXCEPT !.digest = DigestOf(id)]]
      PROVE  results' \in [Ids -> Result \cup {None}] /\ Excused'
  <2> DEFINE kept == [r EXCEPT !.digest = DigestOf(id)]
  <2>1. DigestOf(id) \in Bodies \cup {None}
    BY <1>1, DigestType
  <2>2. kept \in Result /\ (r.executions = "none" => r.preflightFailed \/ r.error # "")
    BY <1>1, <2>1, OutcomeType
  <2>3. r \in Result
    BY <1>1, <2>1, OutcomeType
  <2>4. kept.executions = r.executions /\ kept.preflightFailed = r.preflightFailed /\ kept.error = r.error
    BY <2>3 DEF Result
  <2>5. results' = [results EXCEPT ![id] = kept]
    BY <1>3
  <2> HIDE DEF kept
  <2>6. QED
    BY <2>2, <2>4, <2>5, <1>1 DEF TypeInv, Excused
<1>4. QED
  BY <1>2, <1>3 DEF RunCase

LEMMA SettleType ==
  ASSUME TypeInv, StageInv, Excused, Settle
  PROVE  results' \in [Ids -> Result \cup {None}] /\ Excused'
<1> DEFINE id == Order[at]
<1>1. id \in Ids /\ results[id] \in Result
  BY TurnType, OrderType DEF TypeInv, StageInv, Settle
<1>2. CASE UNCHANGED results
  BY <1>2 DEF TypeInv, Excused
<1>3. ASSUME NEW e \in {"execution_cancelled", results[id].error},
             results' = [results EXCEPT ![id].error = e]
      PROVE  results' \in [Ids -> Result \cup {None}] /\ Excused'
  <2> DEFINE kept == [results[id] EXCEPT !.error = e]
  <2>1. kept \in Result /\ kept.executions = results[id].executions
        /\ kept.preflightFailed = results[id].preflightFailed /\ kept.error = e
    BY <1>1 DEF Result
  <2>2. results' = [results EXCEPT ![id] = kept]
    BY <1>3
  <2>3. results[id] # None
    BY <1>1, ResultAssumption
  <2> HIDE DEF kept
  <2>4. QED
    BY <2>1, <2>2, <2>3, <1>1 DEF TypeInv, Excused
<1>4. QED
  BY <1>2, <1>3 DEF Settle
-----------------------------------------------------------------------------
\* The command's own steps leave the session alone, and a save the command.
LEMMA SaveStepFrame ==
  ASSUME NEW s \in Savers, SaveStep(s)
  PROVE  UNCHANGED <<command, cases, session>>
BY DEF SaveStep, ReadCases, ReadResult, MakeDirectory, WriteSpec, WriteConfirmation, FailSave

LEMMA TypeStep == TypeInv /\ StageInv /\ Excused /\ [Next]_vars => TypeInv' /\ Excused'
<1> SUFFICES ASSUME TypeInv, StageInv, Excused, [Next]_vars PROVE TypeInv' /\ Excused'
  OBVIOUS
<1> USE DEF TypeInv
<1>1. CASE RunNext
  <2>1. session.commands \in Seq(Commands) /\ session.commands # <<>>
    BY <1>1 DEF RunNext, Session
  <2>2. Head(session.commands) \in Commands /\ Tail(session.commands) \in Seq(Commands)
    BY <2>1
  <2>3. session' \in Session
    BY <1>1, <2>2 DEF RunNext, Session
  <2>4. results' = [id \in Ids |-> None] /\ cmd' \in Commands /\ at' = 1
        /\ UNCHANGED <<cases, loaded>>
    BY <1>1, <2>2, SMTT(30) DEF RunNext, Start, NoResults
  <2>5. QED
    BY <2>3, <2>4, OrderType, Zenon DEF Excused
<1>2. CASE Edit
  <2>1. session' \in Session
    BY <1>2, SMTT(30) DEF Edit, Session
  <2>2. session.drafts \subseteq Text
    BY DEF Session
  <2>3. cases' \in [Ids -> Text]
    BY <1>2, <2>2 DEF Edit
  <2>4. QED
    BY <1>2, <2>1, <2>3 DEF Edit, command, Excused
<1>3. CASE Load /\ UNCHANGED <<session, save, directory>>
  <2>1. [id \in Ids |-> cases[id].body] \in [Ids -> Bodies]
    BY DEF Text
  <2>2. QED
    BY <1>3, <2>1 DEF Load, Excused
<1>4. CASE Check /\ UNCHANGED <<session, save, directory>>
  BY <1>4 DEF Check, Excused
<1>5. CASE RunCase /\ UNCHANGED <<session, save, directory>>
  <2>1. UNCHANGED <<cases, cmd, at, loaded, session>>
    BY <1>5 DEF RunCase
  <2>2. QED
    BY <1>5, <2>1, RunCaseType
<1>6. CASE Settle /\ UNCHANGED <<session, save, directory>>
  <2>1. UNCHANGED <<cases, cmd, loaded, session>>
    BY <1>6 DEF Settle
  <2>2. at' \in 1..Len(Order)
    BY <1>6, OrderType, LastType DEF Settle
  <2>3. QED
    BY <1>6, <2>1, <2>2, SettleType
<1>7. CASE EmitStep /\ UNCHANGED <<session, save, directory>>
  BY <1>7, EmitStepEmits DEF Emitting, Excused
<1>8. CASE Signal /\ UNCHANGED <<session, save, directory>>
  BY <1>8 DEF Signal, Excused
<1>9. ASSUME NEW s \in Savers, SaveStep(s) PROVE TypeInv' /\ Excused'
  BY <1>9, SaveStepFrame DEF command, Excused
<1>10. CASE UNCHANGED vars
  BY <1>10 DEF vars, command, Excused
<1>11. QED
  BY <1>1, <1>2, <1>3, <1>4, <1>5, <1>6, <1>7, <1>8, <1>9, <1>10 DEF Next, Step, EmitStep
-----------------------------------------------------------------------------
\* Every step keeps the point a command has reached and its results together.
LEMMA StageStep == TypeInv /\ StageInv /\ Excused /\ [Next]_vars => StageInv'
<1> SUFFICES ASSUME TypeInv, StageInv, Excused, [Next]_vars PROVE StageInv'
  OBVIOUS
<1> USE DEF Before, Emits, Have
<1>1. CASE RunNext
  <2>1. pc' = "load" /\ at' = 1 /\ exit' = "none"
    BY <1>1 DEF RunNext, Start
  <2>2. Last' = 1 \/ Last' = Len(Order)
    BY DEF Last
  <2>3. QED
    <3>1. at' <= Last'
      BY <2>1, <2>2, OrderType
    <3>2. QED
      BY <2>1, <3>1 DEF StageInv
<1>2. CASE Edit
  BY <1>2, SameBatch DEF Edit, command, StageInv
<1>3. CASE Load /\ UNCHANGED <<session, save, directory>>
  <2>1. UNCHANGED <<cmd, at, results>> /\ pc = "load"
    BY <1>3 DEF Load
  <2>2. (pc' = "check" /\ exit' = exit) \/ pc' = "ended"
    BY <1>3 DEF Load, End
  <2>3. QED
    BY <2>1, <2>2, SameBatch DEF StageInv
<1>4. CASE Check /\ UNCHANGED <<session, save, directory>>
  <2>1. UNCHANGED <<cmd, at, results>> /\ pc = "check"
    BY <1>4 DEF Check
  <2>2. (pc' = "run" /\ exit' = exit) \/ pc' = "ended"
    BY <1>4 DEF Check, End
  <2>3. at' = 1 /\ 1..(at' - 1) = {} /\ at' <= Last'
    BY <2>1, SameBatch DEF StageInv
  <2>4. CASE pc' = "run"
    BY <2>1, <2>2, <2>3, <2>4 DEF StageInv
  <2>5. CASE pc' = "ended"
    BY <2>1, <2>3, <2>5, SameBatch DEF StageInv
  <2>6. QED
    BY <2>2, <2>4, <2>5
<1>5. CASE RunCase /\ UNCHANGED <<session, save, directory>>
  <2> DEFINE id == Order[at]
  <2>1. UNCHANGED <<cmd, at>> /\ pc = "run" /\ id \in Ids
    BY <1>5, TurnType DEF RunCase
  <2>2. ASSUME NEW r \in Outcomes(loaded[id]), pc' = "ran", UNCHANGED exit,
               results' = [results EXCEPT ![id] = [r EXCEPT !.digest = DigestOf(id)]]
        PROVE  StageInv'
    <3>1. [r EXCEPT !.digest = DigestOf(id)] # None
      <4>1. loaded[id] \in Bodies /\ DigestOf(id) \in Bodies \cup {None}
        BY <2>1, DigestType DEF TypeInv
      <4>2. [r EXCEPT !.digest = DigestOf(id)] \in Result
        BY <4>1, OutcomeType
      <4>3. QED
        BY <4>2, ResultAssumption
    <3>2. DOMAIN results = Ids /\ at \in 1..Len(Order) /\ at \in Nat
      BY OrderType DEF TypeInv
    <3>3. results'[id] # None
      BY <3>1, <3>2, <2>1, <2>2
    <3>4. \A other \in Ids : other # id => results'[other] = results[other]
      BY <3>2, <2>1, <2>2
    <3>5. ASSUME NEW k \in 1..at PROVE results'[Order[k]] # None
      <4>1. k \in 1..Len(Order) /\ Order[k] \in Ids
        BY <3>2, OrderType
      <4>2. CASE Order[k] = id
        BY <4>2, <3>3
      <4>3. CASE Order[k] # id
        <5>1. k \in 1..(at - 1)
          BY <4>3, <3>2
        <5>2. QED
          BY <5>1, <4>1, <4>3, <3>4, <2>1 DEF StageInv
      <4>4. QED
        BY <4>2, <4>3
    <3>6. QED
      BY <3>5, <2>1, <2>2, SameBatch DEF StageInv
  <2>3. CASE pc' = "ended"
    BY <2>1, <2>3, SameBatch DEF StageInv
  <2>4. QED
    BY <1>5, <2>2, <2>3 DEF RunCase, End
<1>6. CASE Settle /\ UNCHANGED <<session, save, directory>>
  <2> DEFINE id == Order[at]
  <2>1. UNCHANGED cmd /\ pc = "ran" /\ id \in Ids /\ at \in Nat
    BY <1>6, TurnType, OrderType DEF Settle, TypeInv
  <2>2. CASE pc' = "ended"
    <3>1. at' = at
      BY <1>6, <2>2 DEF Settle, End
    <3>2. QED
      BY <2>1, <2>2, <3>1, SameBatch DEF StageInv
  <2>3. ASSUME pc' # "ended"
        PROVE  /\ results' = [results EXCEPT ![id].error = IF caught' THEN "execution_cancelled" ELSE @]
               /\ IF at < Last THEN at' = at + 1 /\ pc' = "run" ELSE UNCHANGED at /\ pc' = "out"
               /\ UNCHANGED exit
    BY <1>6, <2>3 DEF Settle, End
  <2>4. ASSUME pc' # "ended", NEW k \in 1..at PROVE results'[Order[k]] # None
    <3>1. k \in 1..Len(Order) /\ Order[k] \in Ids /\ results[Order[k]] # None
      BY <2>1, <2>4, OrderType DEF TypeInv, StageInv
    <3>2. CASE Order[k] # id
      BY <3>1, <3>2, <2>3, <2>4, <2>1 DEF TypeInv
    <3>3. CASE Order[k] = id
      <4>1. results[id] \in Result
        BY <3>1, <3>3, <2>1 DEF TypeInv
      <4>2. \A e \in {"execution_cancelled", results[id].error} : [results[id] EXCEPT !.error = e] \in Result
        BY <4>1 DEF Result
      <4>3. results'[id] \in { [results[id] EXCEPT !.error = e] : e \in {"execution_cancelled", results[id].error} }
        BY <2>3, <2>4, <2>1 DEF TypeInv
      <4>4. results'[id] \in Result
        BY <4>2, <4>3
      <4>5. QED
        BY <4>4, <3>3, ResultAssumption
    <3>4. QED
      BY <3>2, <3>3
  <2>5. CASE pc' # "ended" /\ at < Last
    <3>1. at' = at + 1 /\ pc' = "run" /\ exit' = exit
      BY <2>3, <2>5
    <3>2. Last \in Nat
      BY LastType
    <3>3. QED
      BY <3>1, <3>2, <2>1, <2>4, <2>5, SameBatch DEF StageInv
  <2>6. CASE pc' # "ended" /\ ~(at < Last)
    <3>1. at' = at /\ pc' = "out" /\ exit' = exit
      BY <2>3, <2>6
    <3>2. at = Last
      BY <2>1, <2>6, LastType, OrderType DEF StageInv
    <3>3. \A other \in Batch : results'[other] # None
      BY <3>2, <2>4, <2>6, BatchType
    <3>4. QED
      BY <3>1, <3>3, <2>1, SameBatch DEF StageInv
  <2>7. QED
    BY <2>2, <2>5, <2>6
<1>7. CASE EmitStep /\ UNCHANGED <<session, save, directory>>
  <2>1. UNCHANGED <<cmd, at, results>>
    BY <1>7, EmitStepEmits DEF Emitting
  <2>2. \/ pc' \in Emits /\ pc \in Emits /\ UNCHANGED exit
        \/ pc' = "ended"
    BY <1>7 DEF EmitStep, SkipOut, OpenOut, FillOut, OpenTemp, FillTemp, Rename, OpenSarif,
                FillSarif, Show, Gate, Kill, Goto, End
  <2>3. QED
    BY <2>1, <2>2, SameBatch DEF StageInv
<1>8. CASE Signal /\ UNCHANGED <<session, save, directory>>
  BY <1>8, SameBatch DEF Signal, StageInv
<1>9. ASSUME NEW s \in Savers, SaveStep(s) PROVE StageInv'
  BY <1>9, SaveStepFrame, SameBatch DEF command, StageInv
<1>10. CASE UNCHANGED vars
  BY <1>10, SameBatch DEF vars, command, StageInv
<1>11. QED
  BY <1>1, <1>2, <1>3, <1>4, <1>5, <1>6, <1>7, <1>8, <1>9, <1>10 DEF Next, Step, EmitStep
-----------------------------------------------------------------------------
LEMMA InitInv == Init => TypeInv /\ StageInv /\ Excused
<1> SUFFICES ASSUME Init PROVE TypeInv /\ StageInv /\ Excused
  OBVIOUS
<1>1. session \in Session /\ session.commands # <<>>
  BY SessionAssumption DEF Init
<1>2. session.commands[1] \in Commands
  BY <1>1 DEF Session
<1>3. cases \in [Ids -> Text]
  BY <1>1 DEF Init, Session
<1>4. loaded \in [Ids -> Bodies]
  BY <1>3 DEF Init, Text
<1>5. results = [id \in Ids |-> None]
  BY DEF Init, NoResults
<1>6. TypeInv
  BY <1>1, <1>2, <1>3, <1>4, <1>5, OrderType DEF Init, TypeInv
<1>7. StageInv
  BY LastType DEF Init, StageInv, Before, Emits
<1>8. QED
  BY <1>5, <1>6, <1>7 DEF Excused

\* Where a command has got to, and what it must have by then.
LEMMA CommandInv == Spec => [](TypeInv /\ StageInv /\ Excused)
BY InitInv, TypeStep, StageStep, PTL DEF Spec

-----------------------------------------------------------------------------
(* Checks come before requests. *)

CheckInv ==
  /\ pc \in {"run", "ran"} \cup Emits => Accepted
  /\ pc \in {"load", "check"} => sent = {}

LEMMA SameChecks ==
  ASSUME cmd' = cmd, loaded' = loaded
  PROVE  /\ Accepted' = Accepted
         /\ sent' = sent => (ValidatedFirst' <=> ValidatedFirst)
BY SameBatch DEF Accepted, Validates, ValidatedFirst

\* A command of several cases checked them all; one of a single case checks it
\* at the only turn there is.
LEMMA TurnIsChecked ==
  ASSUME TypeInv, StageInv, CheckInv, pc = "run", Validates(loaded[Order[at]])
  PROVE  \A id \in Batch : Validates(loaded[id])
<1>1. CASE Single
  <2>1. at = 1 /\ Batch = {Order[1]}
    BY <1>1 DEF StageInv, TypeInv, Last, Batch
  <2>2. QED
    BY <2>1
<1>2. CASE ~Single
  <2>1. cmd.kind \in Kinds
    BY CommandAssumption DEF TypeInv, Command
  <2>2. cmd.kind \in {"cases", "policy", "suite"}
    BY <1>2, <2>1 DEF Single, Kinds
  <2>3. QED
    BY <2>2 DEF CheckInv, Accepted
<1>3. QED
  BY <1>1, <1>2

LEMMA CheckStep ==
  TypeInv /\ StageInv /\ CheckInv /\ ValidatedFirst /\ [Next]_vars => CheckInv' /\ ValidatedFirst'
<1> SUFFICES ASSUME TypeInv, StageInv, CheckInv, ValidatedFirst, [Next]_vars
             PROVE  CheckInv' /\ ValidatedFirst'
  OBVIOUS
<1> USE DEF Emits
<1>1. CASE RunNext
  BY <1>1 DEF RunNext, Start, CheckInv, ValidatedFirst
<1>2. CASE Edit
  BY <1>2, SameChecks DEF Edit, command, CheckInv
<1>3. CASE Load /\ UNCHANGED <<session, save, directory>>
  <2>1. sent = {} /\ sent' = {} /\ pc' \in {"check", "ended"}
    BY <1>3 DEF Load, End, CheckInv
  <2>2. QED
    BY <2>1 DEF CheckInv, ValidatedFirst
<1>4. CASE Check /\ UNCHANGED <<session, save, directory>>
  <2>1. sent = {} /\ sent' = {} /\ cmd' = cmd /\ loaded' = loaded
    BY <1>4 DEF Check, CheckInv
  <2>2. (Accepted /\ pc' = "run") \/ pc' = "ended"
    BY <1>4 DEF Check, End
  <2>3. QED
    BY <2>1, <2>2, SameChecks DEF CheckInv, ValidatedFirst
<1>5. CASE RunCase /\ UNCHANGED <<session, save, directory>>
  <2>1. pc = "run" /\ cmd' = cmd /\ loaded' = loaded /\ Accepted
    BY <1>5 DEF RunCase, CheckInv
  <2>2. CASE Validates(loaded[Order[at]])
    <3>1. \A id \in Batch : Validates(loaded[id])
      BY <2>1, <2>2, TurnIsChecked
    <3>2. ValidatedFirst'
      BY <2>1, <3>1, SameBatch DEF ValidatedFirst, Validates
    <3>3. pc' = "ran"
      BY <1>5, <2>2 DEF RunCase
    <3>4. QED
      BY <2>1, <3>2, <3>3, SameChecks DEF CheckInv
  <2>3. CASE ~Validates(loaded[Order[at]])
    <3>1. sent' = sent /\ pc' = "ended"
      BY <1>5, <2>3 DEF RunCase, End
    <3>2. QED
      BY <2>1, <3>1, SameChecks DEF CheckInv
  <2>4. QED
    BY <2>2, <2>3
<1>6. CASE Settle /\ UNCHANGED <<session, save, directory>>
  <2>1. UNCHANGED <<cmd, loaded, sent>> /\ pc = "ran" /\ pc' \in {"run", "out", "ended"}
    BY <1>6 DEF Settle, End
  <2>2. QED
    BY <2>1, SameChecks DEF CheckInv
<1>7. CASE EmitStep /\ UNCHANGED <<session, save, directory>>
  <2>1. UNCHANGED <<cmd, loaded, sent>>
    BY <1>7, EmitStepEmits DEF Emitting
  <2>2. (pc' \in Emits /\ pc \in Emits) \/ pc' = "ended"
    BY <1>7 DEF EmitStep, SkipOut, OpenOut, FillOut, OpenTemp, FillTemp, Rename, OpenSarif,
                FillSarif, Show, Gate, Kill, Goto, End
  <2>3. QED
    BY <2>1, <2>2, SameChecks DEF CheckInv
<1>8. CASE Signal /\ UNCHANGED <<session, save, directory>>
  BY <1>8, SameChecks DEF Signal, CheckInv
<1>9. ASSUME NEW s \in Savers, SaveStep(s) PROVE CheckInv' /\ ValidatedFirst'
  BY <1>9, SaveStepFrame, SameChecks DEF command, CheckInv
<1>10. CASE UNCHANGED vars
  BY <1>10, SameChecks DEF vars, command, CheckInv
<1>11. QED
  BY <1>1, <1>2, <1>3, <1>4, <1>5, <1>6, <1>7, <1>8, <1>9, <1>10 DEF Next, Step, EmitStep

\* No request of a batch goes out before every case of it was found valid, for
\* every list of cases (validateSuite, Engine.Run).
THEOREM NothingUnchecked == Spec => []ValidatedFirst
<1>1. Init => CheckInv /\ ValidatedFirst
  BY DEF Init, CheckInv, ValidatedFirst, Emits
<1>2. QED
  BY <1>1, CheckStep, CommandInv, PTL DEF Spec
-----------------------------------------------------------------------------
(* How a command ends. *)

\* A command that has ended stays so; one that ends now stopped early, had a
\* setup that failed, or reached the gate.
LEMMA EndStep ==
  ASSUME TypeInv, StageInv, [Next]_vars, pc' = "ended"
  PROVE  \/ pc = "ended" /\ UNCHANGED <<cmd, results, caught, exit, out, sarif, shown>>
         \/ exit' \in {"usage", "killed"}
         \/ Settle /\ exit' = "notExecuted"
         \/ Gate
<1>1. CASE RunNext
  BY <1>1 DEF RunNext, Start
<1>2. CASE Edit
  BY <1>2 DEF Edit, command, files
<1>3. CASE Step
  <2>1. CASE Load \/ Check \/ Kill
    BY <2>1 DEF Load, Check, Kill, End
  <2>2. CASE RunCase
    BY <2>2 DEF RunCase, End
  <2>3. CASE Settle
    BY <2>3 DEF Settle, End
  <2>4. CASE \/ SkipOut \/ OpenOut \/ FillOut \/ OpenTemp \/ FillTemp \/ Rename
             \/ OpenSarif \/ FillSarif \/ Show
    BY <2>4 DEF SkipOut, OpenOut, FillOut, OpenTemp, FillTemp, Rename, OpenSarif, FillSarif,
                Show, Goto, End
  <2>5. CASE Signal
    BY <2>5 DEF Signal
  <2>6. QED
    BY <1>3, <2>1, <2>2, <2>3, <2>4, <2>5 DEF Step
<1>4. ASSUME NEW s \in Savers, SaveStep(s)
      PROVE  pc = "ended" /\ UNCHANGED <<cmd, results, caught, exit, out, sarif, shown>>
  BY <1>4, SaveStepFrame DEF command, files
<1>5. CASE UNCHANGED vars
  BY <1>5 DEF vars, command, files
<1>6. QED
  BY <1>1, <1>2, <1>3, <1>4, <1>5 DEF Next

\* A setup that failed and was not an interruption ends the command there.
LEMMA SettleEnds ==
  ASSUME TypeInv, StageInv, Settle, exit' = "notExecuted"
  PROVE  /\ UNCHANGED <<cmd, results>> /\ cmd.kind # "suite" /\ Order[at] \in Batch
         /\ results[Order[at]] # None /\ results[Order[at]].error = "setup_failed"
<1>1. exit' # exit
  BY DEF Settle, StageInv
<1>2. results[Order[at]].error = "setup_failed" /\ cmd.kind # "suite" /\ UNCHANGED <<cmd, results>>
  BY <1>1 DEF Settle
<1>3. at \in 1..Last /\ at \in 1..at
  BY LastType, OrderType DEF TypeInv, StageInv
<1>4. Order[at] \in Batch
  BY <1>3, BatchType
<1>5. results[Order[at]] # None
  BY <1>3 DEF Settle, StageInv
<1>6. QED
  BY <1>2, <1>4, <1>5

\* A case without a result of its own has its reason: what the gate looks at is
\* what was tested.
LEMMA UntestedMeans ==
  ASSUME TypeInv, Excused, Have(Batch)
  PROVE  Untested <=> ~AllTested
<1>1. ASSUME NEW id \in Batch
      PROVE  (results[id].preflightFailed \/ results[id].error # "" \/ Unreached(results[id]))
               <=> ~Tested(results[id])
  <2>1. id \in Ids /\ results[id] \in Result /\ results[id] # None
    BY BatchType DEF Have, TypeInv
  <2>2. results[id].executions \in {"none", "errored", "answered"}
    BY <2>1 DEF Result
  <2>3. QED
    BY <2>1, <2>2 DEF Excused, Unreached, Tested
<1>2. QED
  BY <1>1 DEF Untested, AllTested

LEMMA BreachMeans ==
  ASSUME TypeInv
  PROVE  (cmd.failOn > 0 /\ Breach) <=> \E id \in Batch : Gates(results[id]) # {}
<1>1. cmd.failOn \in 0..5
  BY CommandAssumption DEF TypeInv, Command
<1>2. QED
  BY <1>1 DEF Breach, Gates

LEMMA VerdictStep ==
  ASSUME TypeInv, StageInv, Excused, StageInv', VerdictTruthful, [Next]_vars
  PROVE  VerdictTruthful'
<1>1. CASE pc' # "ended"
  <2>1. exit' = "none"
    BY <1>1 DEF StageInv
  <2>2. QED
    BY <2>1 DEF VerdictTruthful
<1>2. CASE pc' = "ended"
  <2>1. CASE pc = "ended" /\ UNCHANGED <<cmd, results, caught, exit, out, sarif, shown>>
    BY <2>1, SameBatch DEF VerdictTruthful, AllTested, Gates
  <2>2. CASE exit' \in {"usage", "killed"}
    BY <2>2 DEF VerdictTruthful
  <2>3. CASE Settle /\ exit' = "notExecuted"
    <3>1. Order[at] \in Batch' /\ results'[Order[at]] # None /\ ~Tested(results'[Order[at]])
      BY <2>3, SettleEnds, SameBatch DEF Tested
    <3>2. QED
      BY <2>3, <3>1 DEF VerdictTruthful
  <2>4. CASE Gate
    <3>1. /\ UNCHANGED <<cmd, results, caught>> /\ exit' = IF caught THEN Interrupted ELSE Verdict
          /\ Have(Batch)
      BY <2>4 DEF Gate, End, Emitting, StageInv, Emits
    <3>2. Order[1] \in Batch
      BY BatchType, LastType
    <3>3. CASE caught
      <4>1. exit' = Interrupted
        BY <3>1, <3>3
      <4>2. exit' = "inconclusive" => results[Order[1]].executions = "answered"
        BY <4>1 DEF Interrupted
      <4>3. exit' = "notExecuted" => results[Order[1]] # None /\ ~Tested(results[Order[1]])
        BY <4>1, <3>1, <3>2 DEF Interrupted, Tested, Have
      <4>4. exit' \in {"inconclusive", "notExecuted"}
        BY <4>1 DEF Interrupted
      <4>5. QED
        BY <3>1, <3>2, <3>3, <4>2, <4>3, <4>4, SameBatch DEF VerdictTruthful
    <3>4. CASE ~caught
      <4> DEFINE breached == \E id \in Batch : Gates(results[id]) # {}
                 judgedAll == \A id \in Batch : ~results[id].inconclusive
      <4>1. exit' = Verdict
        BY <3>1, <3>4
      <4>2. /\ exit' \in {"notExecuted", "findings", "inconclusive", "ok"}
            /\ exit' = "notExecuted" => ~AllTested
            /\ exit' # "notExecuted" => AllTested
            /\ exit' = "findings" => breached
            /\ exit' \in {"inconclusive", "ok"} => ~breached
            /\ exit' = "inconclusive" => cmd.failOnInconclusive /\ ~judgedAll
            /\ exit' = "ok" => (cmd.failOnInconclusive => judgedAll)
        BY <4>1, <3>1, UntestedMeans, BreachMeans DEF Verdict
      <4>3. exit' = "notExecuted" => \E id \in Batch : results[id] # None /\ ~Tested(results[id])
        BY <4>2, <3>1 DEF AllTested, Have
      <4>4. Batch' = Batch /\ cmd' = cmd /\ results' = results /\ caught' = caught
        BY <3>1, SameBatch
      <4>5. AllTested' = AllTested /\ breached' = breached /\ judgedAll' = judgedAll
        BY <4>4 DEF AllTested, Gates
      <4> HIDE DEF breached, judgedAll
      <4>6. QED
        BY <3>4, <4>2, <4>3, <4>4, <4>5 DEF VerdictTruthful, breached, judgedAll
    <3>5. QED
      BY <3>3, <3>4
  <2>5. QED
    BY <1>2, <2>1, <2>2, <2>3, <2>4, EndStep
<1>3. QED
  BY <1>1, <1>2

\* The exit code says what happened, for every batch, every threshold and every
\* result a case can have (gate, gateInconclusive, runError).
THEOREM ExitCodeIsTrue == Spec => []VerdictTruthful
<1>1. Init => VerdictTruthful
  BY DEF Init, VerdictTruthful
<1>2. TypeInv /\ StageInv /\ Excused /\ StageInv' /\ VerdictTruthful /\ [Next]_vars => VerdictTruthful'
  BY VerdictStep
<1>3. QED
  BY <1>1, <1>2, CommandInv, PTL DEF Spec
-----------------------------------------------------------------------------
(* What is on disk when a command ends. *)

FileInv ==
  /\ pc \in {"sarif", "fill sarif", "show", "gate"} /\ cmd.out => out = Payload
  /\ pc \in {"show", "gate"} /\ cmd.sarif => sarif = Payload
  /\ pc = "gate" /\ cmd.kind # "demo" /\ ~(cmd.out /\ cmd.json) => shown
  /\ pc = "rename" => temp = Payload
  /\ pc = "fill out" => ~Atomic

SavedAlready == {"sarif", "fill sarif", "show", "gate", "rename", "fill out"}

LEMMA FileStep ==
  ASSUME FileInv, [Next]_vars
  PROVE  FileInv'
<1>1. CASE SkipOut \/ OpenOut \/ OpenTemp
  <2>1. UNCHANGED <<cmd, results>>
    BY <1>1 DEF SkipOut, OpenOut, OpenTemp, Emitting
  <2>2. CASE SkipOut
    <3>1. pc' = "sarif" /\ ~cmd.out
      BY <2>2 DEF SkipOut, Goto
    <3>2. QED
      BY <2>1, <3>1 DEF FileInv
  <2>3. CASE OpenOut
    <3>1. pc' \in {"fill out", "ended"} /\ ~Atomic
      BY <2>3 DEF OpenOut, Goto, End
    <3>2. ~Atomic'
      BY <2>1, <3>1, SameBatch
    <3>3. QED
      BY <3>1, <3>2 DEF FileInv
  <2>4. CASE OpenTemp
    <3>1. pc' \in {"fill temp", "ended"}
      BY <2>4 DEF OpenTemp, Goto, End
    <3>2. QED
      BY <3>1 DEF FileInv
  <2>5. QED
    BY <1>1, <2>2, <2>3, <2>4
<1>2. CASE FillOut
  <2>1. UNCHANGED <<cmd, results>> /\ ((pc' = "sarif" /\ out' = Payload) \/ pc' = "ended")
    BY <1>2 DEF FillOut, Emitting, Goto, End
  <2>2. QED
    BY <2>1, SamePayload DEF FileInv
<1>3. CASE FillTemp
  <2>1. UNCHANGED <<cmd, results>> /\ ((pc' = "rename" /\ temp' = Payload) \/ pc' = "ended")
    BY <1>3 DEF FillTemp, Emitting, Goto, End
  <2>2. QED
    BY <2>1, SamePayload DEF FileInv
<1>4. CASE Rename
  <2>1. UNCHANGED <<cmd, results>> /\ pc = "rename" /\ ((pc' = "sarif" /\ out' = temp) \/ pc' = "ended")
    BY <1>4 DEF Rename, Emitting, Goto, End
  <2>2. QED
    BY <2>1, SamePayload DEF FileInv
<1>5. CASE OpenSarif
  <2>1. UNCHANGED <<cmd, results, out>> /\ pc = "sarif"
    BY <1>5 DEF OpenSarif, Emitting
  <2>2. pc' \in {"fill sarif", "ended"} \/ (pc' = "show" /\ ~cmd.sarif)
    BY <1>5 DEF OpenSarif, Goto, End
  <2>3. QED
    BY <2>1, <2>2, SamePayload DEF FileInv
<1>6. CASE FillSarif
  <2>1. /\ UNCHANGED <<cmd, results, out>> /\ pc = "fill sarif"
        /\ (pc' = "show" /\ sarif' = Payload) \/ pc' = "ended"
    BY <1>6 DEF FillSarif, Emitting, Goto, End
  <2>2. QED
    BY <2>1, SamePayload DEF FileInv
<1>7. CASE Show
  <2>1. UNCHANGED <<cmd, results, out, sarif>> /\ pc = "show" /\ pc' \in {"gate", "ended"}
    BY <1>7 DEF Show, Emitting, Goto, End
  <2>2. pc' = "gate" /\ cmd.kind # "demo" /\ ~(cmd.out /\ cmd.json) => shown'
    BY <1>7 DEF Show, Goto, End
  <2>3. QED
    BY <2>1, <2>2, SamePayload DEF FileInv
<1>8. CASE Gate \/ Kill
  BY <1>8 DEF Gate, Kill, End, FileInv
<1>9. CASE RunNext \/ Load \/ Check \/ RunCase \/ Settle
  <2>1. pc' \notin SavedAlready
    BY <1>9 DEF RunNext, Start, Load, Check, RunCase, Settle, End, SavedAlready
  <2>2. QED
    BY <2>1 DEF SavedAlready, FileInv
<1>10. CASE Signal \/ Edit \/ (\E s \in Savers : SaveStep(s)) \/ UNCHANGED vars
  <2>1. UNCHANGED <<cmd, pc, results, out, temp, sarif, shown>>
    BY <1>10, SaveStepFrame DEF Signal, Edit, vars, command, files
  <2>2. Payload' = Payload /\ Atomic' = Atomic
    BY <2>1, SameBatch, SamePayload
  <2>3. QED
    BY <2>1, <2>2, Zenon DEF FileInv
<1>11. QED
  BY <1>1, <1>2, <1>3, <1>4, <1>5, <1>6, <1>7, <1>8, <1>9, <1>10 DEF Next, Step

LEMMA FilesInv == Spec => []FileInv
<1>1. Init => FileInv
  BY DEF Init, FileInv
<1>2. QED
  BY <1>1, FileStep, PTL DEF Spec

LEMMA ReportedStep ==
  ASSUME TypeInv, StageInv, StageInv', FileInv, Reported, [Next]_vars
  PROVE  Reported'
<1>1. CASE pc' # "ended"
  BY <1>1 DEF StageInv, Reported
<1>2. CASE pc' = "ended"
  <2>1. CASE pc = "ended" /\ UNCHANGED <<cmd, results, caught, exit, out, sarif, shown>>
    BY <2>1, SameBatch, SamePayload DEF Reported, Aborted
  <2>2. CASE exit' \in {"usage", "killed"}
    BY <2>2 DEF Reported
  <2>3. CASE Settle /\ exit' = "notExecuted"
    <3>1. Aborted'
      BY <2>3, SettleEnds, SameBatch DEF Aborted
    <3>2. QED
      BY <3>1 DEF Reported
  <2>4. CASE Gate
    <3>1. UNCHANGED <<cmd, results, out, sarif, shown>> /\ pc = "gate" /\ Have(Batch)
      BY <2>4 DEF Gate, files, Emitting, StageInv, Emits
    <3>2. QED
      BY <3>1, SameBatch, SamePayload DEF Reported, FileInv, Have
  <2>5. QED
    BY <1>2, <2>1, <2>2, <2>3, <2>4, EndStep
<1>3. QED
  BY <1>1, <1>2

\* Who reads an exit code that speaks of results finds every file asked for,
\* complete and of this command, for every batch (emit, writeJSON, writeSARIF).
THEOREM ResultsAreReported == Spec => []Reported
<1>1. Init => Reported
  BY DEF Init, Reported
<1>2. TypeInv /\ StageInv /\ StageInv' /\ FileInv /\ Reported /\ [Next]_vars => Reported'
  BY ReportedStep
<1>3. QED
  BY <1>1, <1>2, CommandInv, FilesInv, PTL DEF Spec

\* The result of a guarded job takes the place of an earlier one whole or not at
\* all, for every result (writeJSONAtomic).
THEOREM PublishedAtomically == Spec => PublishedWhole
<1>1. ASSUME TypeInv, StageInv, FileInv, [Next]_vars, cmd.kind = "guarded", out' # out
      PROVE  out' \notin {NoFile, Torn} /\ out' = Payload
  <2>1. Atomic
    BY <1>1 DEF Atomic
  <2>2. Rename
    <3>1. ~UNCHANGED out /\ ~OpenOut /\ ~FillOut
      BY <1>1, <2>1 DEF OpenOut, FillOut, FileInv
    <3>2. ~UNCHANGED vars /\ ~RunNext /\ ~Edit /\ ~\E s \in Savers : SaveStep(s)
      BY <3>1, SaveStepFrame DEF vars, command, files, RunNext, Start, Edit
    <3>3. ~Load /\ ~Check /\ ~RunCase /\ ~Settle /\ ~Gate /\ ~Signal /\ ~Kill
      BY <3>1 DEF Load, Check, RunCase, Settle, Gate, Signal, Kill, files
    <3>4. ~SkipOut /\ ~OpenTemp /\ ~FillTemp /\ ~OpenSarif /\ ~FillSarif /\ ~Show
      BY <3>1 DEF SkipOut, OpenTemp, FillTemp, OpenSarif, FillSarif, Show, files
    <3>5. QED
      BY <1>1, <3>1, <3>2, <3>3, <3>4 DEF Next, Step
  <2>3. out' = Payload /\ Have(Batch)
    BY <1>1, <2>2 DEF Rename, FileInv, StageInv, Emits
  <2>4. Payload \in [Batch -> Result]
    BY <2>3, <1>1, BatchType DEF Payload, Have, TypeInv
  <2>5. QED
    BY <2>3, <2>4, BatchType, ResultAssumption
<1>2. TypeInv /\ StageInv /\ FileInv /\ [Next]_vars
        => [cmd.kind = "guarded" /\ out' # out => out' \notin {NoFile, Torn} /\ out' = Payload]_<<out, cmd>>
  BY <1>1
<1>3. QED
  BY <1>2, CommandInv, FilesInv, PTL DEF Spec, PublishedWhole
-----------------------------------------------------------------------------
(* Saves that race for one directory. *)

Holding == {"open spec", "fill spec", "open confirmation", "fill confirmation", "saved"}

Points == {"asked", "read", "checked", "failed"} \cup Holding

SaveRecord == [pc : Points, body : Bodies \cup {None}, manifest : Manifest \cup {None}]

\* What a save has read by the point it has reached.
Knows(s, r) ==
  /\ r.pc # "asked" => session.saves[s] \in Request
  /\ r.pc = "read" => r.body \in Bodies
  /\ r.pc \in {"checked"} \cup Holding =>
       r.manifest \in Manifest /\ r.body \in Bodies /\ r.manifest.spec = r.body

SaveType == save \in [Savers -> SaveRecord] /\ \A s \in Savers : Knows(s, save[s])

\* At most one save holds the directory, and what it has still to write is not there.
SaveInv ==
  /\ ~made => /\ confirmation = NoFile
              /\ \A s \in Savers : save[s].pc \notin Holding
  /\ \A s, t \in Savers : save[s].pc \in Holding /\ save[t].pc \in Holding => s = t
  /\ \A s \in Savers :
       /\ save[s].pc \in {"open spec", "fill spec", "open confirmation"} => confirmation = NoFile
       /\ save[s].pc \in {"open confirmation", "fill confirmation"} => spec = save[s].body

LEMMA SaveChange ==
  ASSUME SaveType, session' = session, NEW s \in Savers, NEW r \in SaveRecord, Knows(s, r),
         save' = [save EXCEPT ![s] = r]
  PROVE  SaveType'
<1>1. save' \in [Savers -> SaveRecord]
  BY DEF SaveType
<1>2. ASSUME NEW t \in Savers PROVE Knows(t, save'[t])
  BY <1>2 DEF SaveType
<1>3. QED
  BY <1>1, <1>2 DEF SaveType, Knows

LEMMA AdvanceType ==
  ASSUME SaveType, session' = session, NEW s \in Savers, NEW step \in Points, Advance(s, step),
         session.saves[s] \in Request,
         step # "failed" => save[s].pc \in {"checked"} \cup Holding /\ step \in Holding
  PROVE  SaveType'
<1> DEFINE r == [save[s] EXCEPT !.pc = step]
<1>1. save[s] \in SaveRecord /\ Knows(s, save[s])
  BY DEF SaveType
<1>2. r \in SaveRecord /\ r.pc = step /\ r.body = save[s].body /\ r.manifest = save[s].manifest
  BY <1>1 DEF SaveRecord
<1>3. Knows(s, r)
  <2> HIDE DEF r
  <2>1. QED
    BY <1>1, <1>2 DEF Knows, Holding
<1>4. save' = [save EXCEPT ![s] = r]
  BY DEF Advance
<1>5. QED
  BY <1>2, <1>3, <1>4, SaveChange

LEMMA SaveTypeStep ==
  ASSUME TypeInv, SaveType, NEW s \in Savers, SaveStep(s)
  PROVE  SaveType'
<1>1. session' = session /\ (session.saves[s] # None => session.saves[s] \in Request)
  BY SaveStepFrame DEF TypeInv, Session
<1>2. save[s] \in SaveRecord /\ Knows(s, save[s])
  BY DEF SaveType
<1>3. CASE ReadCases(s)
  <2> DEFINE body == cases[session.saves[s].case].body
             r == [save[s] EXCEPT !.pc = "read", !.body = body]
  <2>1. session.saves[s] \in Request
    BY <1>1, <1>3 DEF ReadCases
  <2>2. body \in Bodies
    BY <2>1 DEF TypeInv, Request, Text
  <2>3. r \in SaveRecord /\ r.pc = "read" /\ r.body = body
    BY <1>2, <2>2 DEF SaveRecord, Points
  <2>4. save' = [save EXCEPT ![s] = r]
    BY <1>3 DEF ReadCases
  <2> HIDE DEF r
  <2>5. Knows(s, r)
    BY <2>1, <2>2, <2>3 DEF Knows, Holding
  <2>6. QED
    BY <1>1, <2>3, <2>4, <2>5, SaveChange
<1>4. CASE ReadResult(s)
  <2> DEFINE wanted == session.saves[s]
             binding == Binding(out[wanted.case], save[s].body, wanted.allowUnbound)
             m == [case |-> wanted.case, spec |-> save[s].body, binding |-> binding]
             r == [save[s] EXCEPT !.pc = "checked", !.manifest = m]
  <2>1. save[s].pc = "read" /\ binding # "none" /\ save' = [save EXCEPT ![s] = r]
    BY <1>4 DEF ReadResult
  <2>2. wanted \in Request /\ save[s].body \in Bodies
    BY <1>2, <2>1 DEF Knows
  <2>3. binding \in {"exact_input_digest", "operator_confirmed_unbound"}
    BY <2>1 DEF Binding
  <2>4. m \in Manifest /\ m.spec = save[s].body
    BY <2>2, <2>3 DEF Manifest, Request
  <2> HIDE DEF m
  <2>5. r \in SaveRecord /\ r.pc = "checked" /\ r.manifest = m /\ r.body = save[s].body
    BY <1>2, <2>4 DEF SaveRecord, Points
  <2> HIDE DEF r
  <2>6. Knows(s, r)
    BY <2>2, <2>4, <2>5 DEF Knows, Holding
  <2>7. QED
    BY <1>1, <2>1, <2>5, <2>6, SaveChange
<1>5. CASE MakeDirectory(s) \/ WriteSpec(s) \/ WriteConfirmation(s)
  <2>1. save[s].pc \in {"checked"} \cup Holding /\ \E step \in Holding : Advance(s, step)
    BY <1>5 DEF MakeDirectory, WriteSpec, WriteConfirmation, Holding
  <2>2. session.saves[s] \in Request
    BY <1>2, <2>1 DEF Knows, Holding
  <2>3. PICK step \in Holding : Advance(s, step)
    BY <2>1
  <2>4. QED
    BY <1>1, <2>1, <2>2, <2>3, AdvanceType DEF Points
<1>6. CASE FailSave(s)
  <2>1. Advance(s, "failed") /\ session.saves[s] \in Request
    BY <1>1, <1>6 DEF FailSave
  <2>2. PICK step \in Points : step = "failed"
    BY DEF Points
  <2>3. Advance(s, step)
    BY <2>1, <2>2
  <2>4. step # "failed" => FALSE
    BY <2>2
  <2>5. QED
    BY <1>1, <2>1, <2>2, <2>3, <2>4, AdvanceType
<1>7. QED
  BY <1>3, <1>4, <1>5, <1>6 DEF SaveStep

\* A save moves one record, and no other save's.
LEMMA AdvanceMoves ==
  ASSUME SaveType, NEW s \in Savers, NEW step, Advance(s, step)
  PROVE  /\ save'[s].pc = step /\ save'[s].body = save[s].body
         /\ \A t \in Savers : t # s => save'[t] = save[t]
BY DEF SaveType, SaveRecord, Advance

\* A save that holds no directory after its step, and writes none, disturbs nobody.
LEMMA SaveLetsGo ==
  ASSUME SaveType, SaveInv, NEW s \in Savers, UNCHANGED directory,
         \A t \in Savers : t # s => save'[t] = save[t], save'[s].pc \notin Holding
  PROVE  SaveInv'
BY DEF SaveInv, directory, Holding

LEMMA SaveInvStep ==
  ASSUME SaveType, SaveInv, ConfirmedIsWhole, NEW s \in Savers, SaveStep(s)
  PROVE  SaveInv' /\ ConfirmedIsWhole'
<1>1. CASE ReadCases(s) \/ ReadResult(s) \/ FailSave(s)
  <2>1. UNCHANGED directory /\ save'[s].pc \in {"read", "checked", "failed"}
    BY <1>1 DEF ReadCases, ReadResult, FailSave, Advance, SaveType, SaveRecord
  <2>2. \A t \in Savers : t # s => save'[t] = save[t]
    BY <1>1 DEF ReadCases, ReadResult, FailSave, Advance, SaveType
  <2>3. save'[s].pc \notin Holding
    BY <2>1 DEF Holding
  <2>4. QED
    BY <2>1, <2>2, <2>3, SaveLetsGo DEF ConfirmedIsWhole, directory
<1>2. CASE MakeDirectory(s)
  <2>1. ~made /\ made' /\ UNCHANGED <<spec, confirmation>> /\ Advance(s, "open spec")
    BY <1>2 DEF MakeDirectory, Makeable
  <2>2. confirmation = NoFile /\ \A t \in Savers : save[t].pc \notin Holding
    BY <2>1 DEF SaveInv
  <2>3. save'[s].pc = "open spec" /\ \A t \in Savers : t # s => save'[t].pc \notin Holding
    BY <2>1, <2>2, AdvanceMoves
  <2>4. \A t \in Savers : save'[t].pc \in Holding => t = s
    BY <2>3
  <2>5. SaveInv'
    BY <2>1, <2>2, <2>3, <2>4 DEF SaveInv, Holding
  <2>6. QED
    BY <2>1, <2>2, <2>5 DEF ConfirmedIsWhole
<1>3. CASE WriteSpec(s)
  <2>1. /\ confirmation = NoFile /\ UNCHANGED <<made, confirmation>>
        /\ \A t \in Savers : save[t].pc \in Holding => t = s
        /\ made
    BY <1>3 DEF WriteSpec, SaveInv, Holding
  <2>2. \/ Advance(s, "fill spec")
        \/ Advance(s, "open confirmation") /\ spec' = save[s].body
    BY <1>3 DEF WriteSpec
  <2>3. /\ save'[s].pc \in {"fill spec", "open confirmation"} /\ save'[s].body = save[s].body
        /\ \A t \in Savers : t # s => save'[t] = save[t]
        /\ save'[s].pc = "open confirmation" => spec' = save'[s].body
    <3>1. CASE Advance(s, "fill spec")
      <4>1. /\ save'[s].pc = "fill spec" /\ save'[s].body = save[s].body
            /\ \A t \in Savers : t # s => save'[t] = save[t]
        BY <3>1, AdvanceMoves, Zenon
      <4>2. QED
        BY <4>1
    <3>2. CASE Advance(s, "open confirmation") /\ spec' = save[s].body
      <4>1. /\ save'[s].pc = "open confirmation" /\ save'[s].body = save[s].body
            /\ \A t \in Savers : t # s => save'[t] = save[t]
        BY <3>2, AdvanceMoves, Zenon
      <4>2. QED
        BY <3>2, <4>1
    <3>3. QED
      BY <2>2, <3>1, <3>2
  <2>4. \A t \in Savers : save'[t].pc \in Holding => t = s
    BY <2>1, <2>3
  <2>5. SaveInv'
    BY <2>1, <2>3, <2>4 DEF SaveInv, Holding
  <2>6. QED
    BY <2>1, <2>5 DEF ConfirmedIsWhole
<1>4. CASE WriteConfirmation(s)
  <2>1. /\ spec = save[s].body /\ UNCHANGED <<made, spec>>
        /\ \A t \in Savers : save[t].pc \in Holding => t = s
        /\ made
    BY <1>4 DEF WriteConfirmation, SaveInv, Holding
  <2>2. \/ Advance(s, "fill confirmation") /\ confirmation' = Torn
        \/ Advance(s, "saved") /\ confirmation' = save[s].manifest
    BY <1>4 DEF WriteConfirmation
  <2>3. save[s].body \in Bodies /\ save[s].manifest \in Manifest /\ save[s].manifest.spec = save[s].body
    BY <1>4 DEF WriteConfirmation, SaveType, Knows, Holding
  <2>4. SaveInv'
    BY <2>1, <2>2, AdvanceMoves, ZenonT(60) DEF SaveInv, Holding
  <2>5. ConfirmedIsWhole'
    BY <2>1, <2>2, <2>3 DEF ConfirmedIsWhole
  <2>6. QED
    BY <2>4, <2>5
<1>5. QED
  BY <1>1, <1>2, <1>3, <1>4 DEF SaveStep

LEMMA SavesInv == Spec => [](SaveType /\ SaveInv /\ ConfirmedIsWhole)
<1>1. Init => SaveType /\ SaveInv /\ ConfirmedIsWhole
  <2> SUFFICES ASSUME Init PROVE SaveType /\ SaveInv /\ ConfirmedIsWhole
    OBVIOUS
  <2>1. /\ save = [s \in Savers |-> [pc |-> "asked", body |-> None, manifest |-> None]]
        /\ confirmation = NoFile
    BY DEF Init
  <2>2. \A s \in Savers : save[s] \in SaveRecord /\ save[s].pc = "asked"
    BY <2>1 DEF SaveRecord, Points
  <2>3. "asked" \notin Holding /\ "asked" \notin {"read", "checked"}
    BY DEF Holding
  <2>4. SaveType
    BY <2>1, <2>2, <2>3 DEF SaveType, Knows
  <2>5. SaveInv
    BY <2>1, <2>2, <2>3 DEF SaveInv, Holding
  <2>6. QED
    BY <2>1, <2>4, <2>5 DEF ConfirmedIsWhole
<1>2. TypeInv /\ TypeInv' /\ SaveType /\ SaveInv /\ ConfirmedIsWhole /\ [Next]_vars
        => SaveType' /\ SaveInv' /\ ConfirmedIsWhole'
  <2> SUFFICES ASSUME TypeInv, TypeInv', SaveType, SaveInv, ConfirmedIsWhole, [Next]_vars
               PROVE  SaveType' /\ SaveInv' /\ ConfirmedIsWhole'
    OBVIOUS
  <2>1. CASE UNCHANGED <<save, directory>> /\ session'.saves = session.saves
    BY <2>1 DEF SaveType, Knows, SaveInv, ConfirmedIsWhole, directory
  <2>2. ASSUME NEW s \in Savers, SaveStep(s) PROVE SaveType' /\ SaveInv' /\ ConfirmedIsWhole'
    BY <2>2, SaveTypeStep, SaveInvStep
  <2>3. CASE RunNext \/ Edit
    <3>1. session'.saves = session.saves
      BY <2>3 DEF RunNext, Edit, TypeInv, Session
    <3>2. QED
      BY <2>1, <2>3, <3>1 DEF RunNext, Edit
  <2>4. QED
    BY <2>1, <2>2, <2>3 DEF Next, vars
<1>3. QED
  BY <1>1, <1>2, CommandInv, PTL DEF Spec

\* A confirmation stands beside the very text it confirms, whichever saves raced
\* for the directory, failed or were killed (saveRegression).
THEOREM ConfirmationIsWhole == Spec => []ConfirmedIsWhole
BY SavesInv, PTL
-----------------------------------------------------------------------------
(* From a run to the confirmation that names it. *)

\* What a result says of a case, a run of that case found.
Faithful(id, r) ==
  \E x \in ran : x.case = id /\ x.findings = r.findings /\ (r.digest # None => x.body = r.digest)

Whole(p) == p \in Payloads /\ \A id \in DOMAIN p : Faithful(id, p[id])

\* What BoundIsWhatRan says of a confirmation.
BoundTo(m) ==
  \E r \in ran :
    /\ r.case = m.case
    /\ m.binding = "exact_input_digest" => r.body = m.spec
    /\ r.findings \cap Findable(m.spec) # {}

FaithInv ==
  /\ \A id \in Ids : results[id] # None => Faithful(id, results[id])
  /\ out \notin {NoFile, Torn} => Whole(out)
  /\ temp \notin {NoFile, Torn} => Whole(temp)
  /\ \A s \in Savers : save[s].pc \in {"checked"} \cup Holding => BoundTo(save[s].manifest)
  /\ confirmation \notin {NoFile, Torn} => BoundTo(confirmation)

LEMMA FaithGrows ==
  ASSUME ran \subseteq ran', NEW id, NEW r, Faithful(id, r)
  PROVE  \E x \in ran' : x.case = id /\ x.findings = r.findings /\ (r.digest # None => x.body = r.digest)
BY DEF Faithful

LEMMA PayloadWhole ==
  ASSUME TypeInv, FaithInv, Have(Batch)
  PROVE  Whole(Payload)
<1>1. Batch \in SUBSET Ids /\ DOMAIN Payload = Batch /\ Payload \in [Batch -> Result]
  BY BatchType DEF TypeInv, Have, Payload
<1>2. \A id \in Batch : Faithful(id, Payload[id])
  BY <1>1 DEF FaithInv, Have, Payload
<1>3. QED
  BY <1>1, <1>2 DEF Whole, Payloads

\* Files that do not change, or lose what they hold, stay faithful, and more may run.
LEMMA FilesGrow ==
  ASSUME FaithInv, ran \subseteq ran', UNCHANGED <<save, confirmation>>,
         out' \in {out, NoFile, Torn} \/ Whole(out'), temp' \in {temp, NoFile, Torn} \/ Whole(temp'),
         \A id \in Ids : (results[id] # None => Faithful(id, results[id]))'
  PROVE  FaithInv'
<1>1. ASSUME NEW p, Whole(p) PROVE p \in Payloads /\ \A id \in DOMAIN p : \E x \in ran' :
         x.case = id /\ x.findings = p[id].findings /\ (p[id].digest # None => x.body = p[id].digest)
  BY <1>1, FaithGrows DEF Whole
<1>2. (out' \notin {NoFile, Torn} => Whole(out)') /\ (temp' \notin {NoFile, Torn} => Whole(temp)')
  BY <1>1 DEF FaithInv, Whole, Faithful
<1>3. \A s \in Savers : save'[s].pc \in {"checked"} \cup Holding => BoundTo(save[s].manifest)'
  BY DEF FaithInv, BoundTo
<1>4. confirmation' \notin {NoFile, Torn} => BoundTo(confirmation)'
  BY DEF FaithInv, BoundTo
<1>5. QED
  BY <1>2, <1>3, <1>4 DEF FaithInv, BoundTo, Whole, Faithful

LEMMA RunCaseFaith ==
  ASSUME TypeInv, FaithInv, RunCase
  PROVE  ran \subseteq ran' /\ \A id \in Ids : (results[id] # None => Faithful(id, results[id]))'
<1> DEFINE turn == Order[at]
<1>1. turn \in Ids /\ loaded[turn] \in Bodies
  BY TurnType DEF TypeInv
<1>2. CASE UNCHANGED <<results, ran>>
  BY <1>2 DEF FaithInv, Faithful
<1>3. ASSUME NEW r \in Outcomes(loaded[turn]),
             results' = [results EXCEPT ![turn] = [r EXCEPT !.digest = DigestOf(turn)]],
             ran' = ran \cup { [case |-> turn, body |-> loaded[turn], findings |-> r.findings] }
      PROVE  ran \subseteq ran' /\ \A id \in Ids : (results[id] # None => Faithful(id, results[id]))'
  <2> DEFINE kept == [r EXCEPT !.digest = DigestOf(turn)]
             x == [case |-> turn, body |-> loaded[turn], findings |-> r.findings]
  <2>1. r \in Result
    BY <1>1, OutcomeType, DigestType
  <2>2. kept.findings = r.findings /\ kept.digest = DigestOf(turn)
    BY <2>1 DEF Result
  <2>3. kept.digest # None => loaded[turn] = kept.digest
    BY <2>2 DEF DigestOf
  <2>4. x \in ran' /\ x.case = turn /\ x.body = loaded[turn] /\ x.findings = kept.findings /\ ran \subseteq ran'
    BY <1>3, <2>2
  <2>5. results' = [results EXCEPT ![turn] = kept]
    BY <1>3
  <2> HIDE DEF kept, x
  <2>6. results'[turn] = kept /\ \A id \in Ids : id # turn => results'[id] = results[id]
    BY <2>5, <1>1 DEF TypeInv
  <2>7. ASSUME NEW id \in Ids, results'[id] # None
        PROVE  \E y \in ran' : /\ y.case = id /\ y.findings = results'[id].findings
                               /\ results'[id].digest # None => y.body = results'[id].digest
    <3>1. CASE id = turn
      BY <3>1, <2>3, <2>4, <2>6
    <3>2. CASE id # turn
      BY <3>2, <2>4, <2>6, <2>7, FaithGrows DEF FaithInv
    <3>3. QED
      BY <3>1, <3>2
  <2>8. QED
    BY <2>4, <2>7 DEF Faithful
<1>4. QED
  BY <1>2, <1>3 DEF RunCase

LEMMA SettleFaith ==
  ASSUME TypeInv, StageInv, FaithInv, Settle
  PROVE  \A id \in Ids : (results[id] # None => Faithful(id, results[id]))'
<1> DEFINE turn == Order[at]
<1>1. turn \in Ids /\ results[turn] \in Result /\ results[turn] # None /\ ran' = ran
  BY TurnType, OrderType, ResultAssumption DEF TypeInv, StageInv, Settle
<1>2. CASE UNCHANGED results
  BY <1>1, <1>2 DEF FaithInv, Faithful
<1>3. ASSUME NEW e, results' = [results EXCEPT ![turn].error = e]
      PROVE  \A id \in Ids : (results[id] # None => Faithful(id, results[id]))'
  <2> DEFINE kept == [results[turn] EXCEPT !.error = e]
  <2>1. kept.findings = results[turn].findings /\ kept.digest = results[turn].digest
    BY <1>1 DEF Result
  <2>2. results' = [results EXCEPT ![turn] = kept]
    BY <1>3
  <2> HIDE DEF kept
  <2>3. results'[turn] = kept /\ \A id \in Ids : id # turn => results'[id] = results[id]
    BY <2>2, <1>1 DEF TypeInv
  <2>4. QED
    BY <1>1, <2>1, <2>3 DEF FaithInv, Faithful
<1>4. QED
  BY <1>2, <1>3 DEF Settle

\* Of the steps of emit, only those that fill a file give it something to say.
LEMMA EmitFiles ==
  ASSUME TypeInv, StageInv, FaithInv, EmitStep
  PROVE  /\ out' \in {out, NoFile, Torn} \/ Whole(out')
         /\ temp' \in {temp, NoFile, Torn} \/ Whole(temp')
<1>1. CASE FillOut
  BY <1>1, PayloadWhole DEF FillOut, StageInv, Emits
<1>2. CASE FillTemp
  BY <1>2, PayloadWhole DEF FillTemp, StageInv, Emits
<1>3. CASE Rename
  BY <1>3 DEF Rename, FaithInv
<1>4. CASE SkipOut \/ OpenOut \/ OpenTemp \/ OpenSarif \/ FillSarif \/ Show \/ Gate \/ Kill
  BY <1>4 DEF SkipOut, OpenOut, OpenTemp, OpenSarif, FillSarif, Show, Gate, Kill, files
<1>5. QED
  BY <1>1, <1>2, <1>3, <1>4 DEF EmitStep

\* A save that accepts a result holds what a run found of the text it has read.
LEMMA AcceptedIsBound ==
  ASSUME SaveType, FaithInv, NEW s \in Savers, ReadResult(s)
  PROVE  BoundTo(save'[s].manifest)
<1> DEFINE wanted == session.saves[s]
           r == out[wanted.case]
           body == save[s].body
           binding == Binding(r, body, wanted.allowUnbound)
           m == [case |-> wanted.case, spec |-> body, binding |-> binding]
<1>1. save[s].pc = "read" /\ body \in Bodies
  BY DEF ReadResult, SaveType, Knows
<1>2. Whole(out) /\ wanted.case \in DOMAIN out
  BY DEF ReadResult, FaithInv
<1>3. r \in Result /\ Faithful(wanted.case, r)
  BY <1>2 DEF Whole, Payloads
<1>4. PICK f \in r.findings : Relevant(body, r, f)
  BY DEF ReadResult
<1>5. f \in Findable(body)
  <2>1. f \in Finding /\ f[2] \in Categories
    BY <1>3, <1>4 DEF Result, Finding
  <2>2. QED
    BY <1>4, <2>1 DEF Relevant, Findable, Categories
<1>6. PICK x \in ran : x.case = wanted.case /\ x.findings = r.findings /\ (r.digest # None => x.body = r.digest)
  BY <1>3 DEF Faithful
<1>7. binding = "exact_input_digest" => x.body = body
  BY <1>1, <1>6, SessionAssumption DEF Binding
<1>8. save'[s].manifest = m
  BY DEF ReadResult, SaveType, SaveRecord
<1>9. m.case = wanted.case /\ m.binding = binding /\ m.spec = body
  OBVIOUS
<1> HIDE DEF m, binding, r, body
<1>10. QED
  BY <1>4, <1>5, <1>6, <1>7, <1>8, <1>9 DEF BoundTo

LEMMA SaveFaith ==
  ASSUME SaveType, FaithInv, NEW s \in Savers, SaveStep(s)
  PROVE  FaithInv'
<1>1. UNCHANGED <<ran, results, out, temp>>
  BY SaveStepFrame DEF command, files
<1>2. (out \notin {NoFile, Torn} => Whole(out))' /\ (temp \notin {NoFile, Torn} => Whole(temp))'
      /\ \A id \in Ids : (results[id] # None => Faithful(id, results[id]))'
  BY <1>1 DEF FaithInv, Whole, Faithful
<1>3. \A t \in Savers : t # s => save'[t] = save[t]
  BY DEF SaveStep, ReadCases, ReadResult, MakeDirectory, WriteSpec, WriteConfirmation, FailSave,
         Advance, SaveType
<1>4. save'[s].pc \in {"checked"} \cup Holding => BoundTo(save'[s].manifest)
  <2>1. CASE ReadResult(s)
    BY <2>1, AcceptedIsBound
  <2>2. CASE ReadCases(s) \/ FailSave(s)
    <3>1. ReadCases(s) => save'[s].pc = "read"
      BY SMTT(30) DEF ReadCases, SaveType, SaveRecord
    <3>2. FailSave(s) => save'[s].pc = "failed"
      BY AdvanceMoves DEF FailSave
    <3>3. QED
      BY <2>2, <3>1, <3>2 DEF Holding
  <2>3. CASE MakeDirectory(s) \/ WriteSpec(s) \/ WriteConfirmation(s)
    <3>1. PICK step : Advance(s, step)
      BY <2>3 DEF MakeDirectory, WriteSpec, WriteConfirmation
    <3>2. save[s].pc \in {"checked"} \cup Holding
      BY <2>3 DEF MakeDirectory, WriteSpec, WriteConfirmation, Holding
    <3>3. save'[s].manifest = save[s].manifest
      BY <3>1 DEF Advance, SaveType, SaveRecord
    <3>4. BoundTo(save[s].manifest)
      BY <3>2 DEF FaithInv
    <3>5. QED
      BY <3>3, <3>4
  <2>4. QED
    BY <2>1, <2>2, <2>3 DEF SaveStep
<1>5. confirmation' \notin {NoFile, Torn} => BoundTo(confirmation')
  <2>1. CASE ReadCases(s) \/ ReadResult(s) \/ MakeDirectory(s) \/ WriteSpec(s) \/ FailSave(s)
    BY <2>1 DEF ReadCases, ReadResult, MakeDirectory, WriteSpec, FailSave, directory, FaithInv
  <2>2. CASE WriteConfirmation(s)
    BY <2>2 DEF WriteConfirmation, FaithInv, Holding
  <2>3. QED
    BY <2>1, <2>2 DEF SaveStep
<1>6. \A t \in Savers : save'[t].pc \in {"checked"} \cup Holding => BoundTo(save'[t].manifest)
  BY <1>3, <1>4 DEF FaithInv
<1>7. QED
  BY <1>1, <1>2, <1>5, <1>6 DEF FaithInv, BoundTo

LEMMA FaithStep ==
  ASSUME TypeInv, StageInv, SaveType, FaithInv, [Next]_vars
  PROVE  FaithInv'
<1>1. CASE RunNext
  <2>1. \A id \in Ids : results'[id] = None
    BY <1>1 DEF RunNext, Start, NoResults
  <2>2. UNCHANGED <<ran, out, temp, save, confirmation>>
    BY <1>1 DEF RunNext, Start, directory
  <2>3. QED
    BY <2>1, <2>2, FilesGrow
<1>2. CASE UNCHANGED <<ran, results, out, temp, save, confirmation>>
  BY <1>2 DEF FaithInv, BoundTo, Whole, Faithful
<1>3. CASE RunCase /\ UNCHANGED <<session, save, directory>>
  <2>1. UNCHANGED <<out, temp, save, confirmation>>
    BY <1>3 DEF RunCase, files, directory
  <2>2. QED
    BY <1>3, <2>1, RunCaseFaith, FilesGrow
<1>4. CASE Settle /\ UNCHANGED <<session, save, directory>>
  <2>1. UNCHANGED <<ran, out, temp, save, confirmation>>
    BY <1>4 DEF Settle, files, directory
  <2>2. QED
    BY <1>4, <2>1, SettleFaith, FilesGrow
<1>5. CASE EmitStep /\ UNCHANGED <<session, save, directory>>
  <2>1. UNCHANGED <<ran, results, save, confirmation>>
    BY <1>5, EmitStepEmits DEF Emitting, directory
  <2>2. \A id \in Ids : (results[id] # None => Faithful(id, results[id]))'
    BY <2>1 DEF FaithInv, Faithful
  <2>3. QED
    BY <1>5, <2>1, <2>2, EmitFiles, FilesGrow
<1>6. ASSUME NEW s \in Savers, SaveStep(s) PROVE FaithInv'
  BY <1>6, SaveFaith
<1>7. CASE (Load \/ Check \/ Signal) /\ UNCHANGED <<session, save, directory>>
  BY <1>7, <1>2 DEF Load, Check, Signal, files, directory
<1>8. CASE Edit \/ UNCHANGED vars
  BY <1>8, <1>2 DEF Edit, vars, command, files, directory
<1>9. QED
  BY <1>1, <1>3, <1>4, <1>5, <1>6, <1>7, <1>8 DEF Next, Step, EmitStep

\* A bound confirmation names a text that was run and contradicted, however the
\* case file was edited and however old the result file is (saveRegression,
\* inputDigest).
THEOREM BoundIsTrue == Spec => []BoundIsWhatRan
<1>1. Init => FaithInv
  <2> SUFFICES ASSUME Init PROVE FaithInv
    OBVIOUS
  <2>1. /\ \A id \in Ids : results[id] = None
        /\ out = NoFile /\ temp = NoFile /\ confirmation = NoFile
        /\ \A s \in Savers : save[s].pc = "asked"
    BY DEF Init, NoResults
  <2>2. "asked" \notin {"checked"} \cup Holding
    BY DEF Holding
  <2>3. QED
    BY <2>1, <2>2 DEF FaithInv
<1>2. TypeInv /\ StageInv /\ SaveType /\ FaithInv /\ [Next]_vars => FaithInv'
  BY FaithStep
<1>3. FaithInv => BoundIsWhatRan
  BY DEF FaithInv, BoundTo, BoundIsWhatRan
<1>4. QED
  BY <1>1, <1>2, <1>3, CommandInv, SavesInv, PTL DEF Spec
=============================================================================
