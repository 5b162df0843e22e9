------------------------- MODULE RequestGuard_proofs -------------------------
(***************************************************************************)
(* What RequestGuard promises for every plan and every set of requests.    *)
(*                                                                         *)
(* TypeOK carries the limit of each dispatch and is inductive.  The order  *)
(* of the stages is not: a step only compares the new request with         *)
(* `stage`.  It becomes inductive with StageIsLatest, which says that      *)
(* `stage` is at or beyond the stage of everything allowed so far.         *)
(*                                                                         *)
(* Two things are counted, requests and reservations, and limited by two   *)
(* sums.  Tallied and Traced say that the counters count the units they    *)
(* reserve; CountingLemmas turns the sums into counts of units.            *)
(***************************************************************************)
EXTENDS RequestGuard, CountingLemmas

StageIsLatest == \A n \in DOMAIN granted : StageOf(granted[n].phase) <= stage

StageInv == InStageOrder /\ StageIsLatest

\* Every phase has an integer stage, never beyond the last.
LEMMA StageOfType == \A phase \in Phases : StageOf(phase) \in -1..2
BY DEF StageOf, Phases

\* The accepted plan has a natural number of reservations in each dispatch.
LEMMA PlanType ==
  ASSUME plan \in Plans
  PROVE  /\ plan.max \in Nat
         /\ DOMAIN plan.dispatches \subseteq Nat
         /\ \A i \in DOMAIN plan.dispatches : plan.dispatches[i].max \in Nat
<1>1. plan.dispatches \in Seq(Dispatch) /\ plan.max \in Nat
  BY PlansAssumption
<1>2. \A i \in DOMAIN plan.dispatches : plan.dispatches[i] \in Dispatch
  BY <1>1
<1>3. QED
  BY <1>1, <1>2 DEF Dispatch

-----------------------------------------------------------------------------
LEMMA TypeStep == TypeOK /\ [Next]_vars => TypeOK'
<1> SUFFICES ASSUME TypeOK, [Next]_vars PROVE TypeOK'
  OBVIOUS
<1> USE DEF TypeOK
<1>1. ASSUME NEW q \in Request, Reserve(q) PROVE TypeOK'
  <2>1. PICK i \in DOMAIN plan.dispatches :
           Fits(i, q) /\ counts' = [counts EXCEPT ![i] = @ + 1]
    BY <1>1 DEF Reserve
  <2>2. plan' = plan /\ cancelled' = cancelled
    BY <1>1 DEF Reserve
  <2>3. DOMAIN counts' = DOMAIN plan'.dispatches
    BY <2>1, <2>2
  <2>4. \A k \in DOMAIN counts' : counts'[k] \in 0..plan'.dispatches[k].max
    BY <2>1, <2>2, PlanType DEF Fits
  <2>5. total' \in Nat
    BY <1>1 DEF Reserve
  <2>6. stage' \in -1..2
    BY <1>1, StageOfType DEF Reserve, Request
  <2>7. answer'.ok \in BOOLEAN
    BY <1>1 DEF Reserve
  <2>8. granted' \in Seq(Request)
    BY <1>1 DEF Reserve
  <2>9. QED
    BY <2>2, <2>3, <2>4, <2>5, <2>6, <2>7, <2>8
<1>2. ASSUME NEW q \in Request, Refuse(q) PROVE TypeOK'
  BY <1>2 DEF Refuse, guard
<1>3. CASE Cancel
  BY <1>3 DEF Cancel, guard
<1>4. CASE UNCHANGED vars
  BY <1>4 DEF vars, guard
<1>5. QED
  BY <1>1, <1>2, <1>3, <1>4 DEF Next, Allow

\* Every dispatch stays within its own limit, for every plan that New accepts.
THEOREM TypeCorrect == Spec => []TypeOK
<1>1. Init => TypeOK
  <2> SUFFICES ASSUME Init PROVE TypeOK
    OBVIOUS
  <2>1. plan \in Plans
    BY DEF Init
  <2>2. DOMAIN counts = DOMAIN plan.dispatches /\ \A i \in DOMAIN counts : counts[i] = 0
    BY DEF Init
  <2>3. \A i \in DOMAIN counts : counts[i] \in 0..plan.dispatches[i].max
    BY <2>1, <2>2, PlanType
  <2>4. granted \in Seq(Request)
    BY DEF Init
  <2>5. total \in Nat /\ stage \in -1..2
    BY DEF Init
  <2>6. cancelled \in BOOLEAN /\ answer.ok \in BOOLEAN
    BY DEF Init
  <2>7. QED
    BY <2>1, <2>2, <2>3, <2>4, <2>5, <2>6 DEF TypeOK
<1>2. QED
  BY <1>1, TypeStep, PTL DEF Spec

-----------------------------------------------------------------------------
\* The total counts the allowed requests and stays within the plan's total.
THEOREM TotalIsHonest == Spec => []TotalHonest
<1>1. Init => TotalHonest
  <2> SUFFICES ASSUME Init PROVE TotalHonest
    OBVIOUS
  <2>1. plan \in Plans
    BY DEF Init
  <2>2. QED
    BY <2>1, PlanType DEF Init, TotalHonest
<1>2. TypeOK /\ TotalHonest /\ [Next]_vars => TotalHonest'
  <2> SUFFICES ASSUME TypeOK, TotalHonest, [Next]_vars PROVE TotalHonest'
    OBVIOUS
  <2>1. ASSUME NEW q \in Request, Reserve(q) PROVE TotalHonest'
    <3>1. plan.max \in Nat /\ total \in Nat /\ granted \in Seq(Request)
      BY PlanType DEF TypeOK
    <3>2. Len(granted') = Len(granted) + 1
      BY <2>1, <3>1 DEF Reserve
    <3>3. total < plan.max /\ total' = total + 1 /\ plan' = plan
      BY <2>1 DEF Reserve, InTime
    <3>4. QED
      BY <3>1, <3>2, <3>3 DEF TotalHonest
  <2>2. ASSUME NEW q \in Request, Refuse(q) PROVE TotalHonest'
    BY <2>2 DEF Refuse, guard, TotalHonest
  <2>3. CASE Cancel
    BY <2>3 DEF Cancel, guard, TotalHonest
  <2>4. CASE UNCHANGED vars
    BY <2>4 DEF vars, guard, TotalHonest
  <2>5. QED
    BY <2>1, <2>2, <2>3, <2>4 DEF Next, Allow
<1>3. QED
  BY <1>1, <1>2, TypeCorrect, PTL DEF Spec

-----------------------------------------------------------------------------
LEMMA StageStep == TypeOK /\ StageInv /\ [Next]_vars => StageInv'
<1> SUFFICES ASSUME TypeOK, StageInv, [Next]_vars PROVE StageInv'
  OBVIOUS
<1> USE DEF StageInv, InStageOrder, StageIsLatest
<1>1. ASSUME NEW q \in Request, Reserve(q) PROVE StageInv'
  <2> DEFINE last == Len(granted) + 1
  <2>1. granted \in Seq(Request) /\ stage \in Int
    BY DEF TypeOK
  <2>2. /\ granted' = Append(granted, q) /\ stage' = StageOf(q.phase)
        /\ StageOf(q.phase) >= stage
    BY <1>1 DEF Reserve, InTime
  <2>3. StageOf(q.phase) \in Int
    BY StageOfType DEF Request
  <2>4. /\ DOMAIN granted = 1..Len(granted) /\ Len(granted) \in Nat
        /\ DOMAIN granted' = 1..last
        /\ granted'[last] = q
        /\ \A n \in DOMAIN granted : granted'[n] = granted[n]
    BY <2>1, <2>2
  <2>5. \A n \in DOMAIN granted : StageOf(granted[n].phase) \in Int
    <3>1. \A n \in DOMAIN granted : granted[n] \in Request
      BY <2>1
    <3>2. \A n \in DOMAIN granted : granted[n].phase \in Phases
      BY <3>1 DEF Request
    <3>3. QED
      BY <3>2, StageOfType
  <2>6. \A n \in DOMAIN granted' : n \in DOMAIN granted \/ n = last
    BY <2>4
  <2>7. \A n \in DOMAIN granted' : StageOf(granted'[n].phase) <= stage'
    BY <2>1, <2>2, <2>3, <2>4, <2>5, <2>6
  <2>8. ASSUME NEW m \in DOMAIN granted', NEW n \in DOMAIN granted', m < n
        PROVE  StageOf(granted'[m].phase) <= StageOf(granted'[n].phase)
    <3>1. CASE n = last
      BY <3>1, <2>2, <2>4, <2>7
    <3>2. CASE n # last
      <4>1. m \in DOMAIN granted /\ n \in DOMAIN granted
        BY <3>2, <2>4, <2>6, <2>8
      <4>2. QED
        BY <4>1, <2>4, <2>8
    <3>3. QED
      BY <3>1, <3>2
  <2>9. QED
    BY <2>7, <2>8
<1>2. ASSUME NEW q \in Request, Refuse(q) PROVE StageInv'
  BY <1>2 DEF Refuse, guard
<1>3. CASE Cancel
  BY <1>3 DEF Cancel, guard
<1>4. CASE UNCHANGED vars
  BY <1>4 DEF vars, guard
<1>5. QED
  BY <1>1, <1>2, <1>3, <1>4 DEF Next, Allow

\* Requests leave in the order setup, preflight, everything else.
THEOREM StagesInOrder == Spec => []InStageOrder
<1>1. Init => StageInv
  BY DEF Init, StageInv, InStageOrder, StageIsLatest
<1>2. StageInv => InStageOrder
  BY DEF StageInv
<1>3. QED
  BY <1>1, <1>2, StageStep, TypeCorrect, PTL DEF Spec

-----------------------------------------------------------------------------
(* Counts and sums. *)

Accepted == Acceptable(plan)

\* The total is the number of units reserved.
Tallied == total = Cardinality(Units(counts, DOMAIN plan.dispatches))

\* The units reserved for a request are the times it was allowed.
Traced ==
  \A phase \in Phases, key \in Keys :
    Cardinality(Granted(phase, key)) = Cardinality(Units(counts, Matching(phase, key)))

CountInv == Accepted /\ Tallied /\ Traced

\* What the counting lemmas need to know of the dispatches and their counts.
LEMMA CountsType ==
  ASSUME TypeOK
  PROVE  /\ IsFiniteSet(DOMAIN plan.dispatches)
         /\ \A i \in DOMAIN plan.dispatches :
              /\ counts[i] \in Nat /\ plan.dispatches[i].max \in Nat
              /\ counts[i] <= plan.dispatches[i].max
              /\ MaxOf(plan.dispatches)[i] = plan.dispatches[i].max
<1>1. plan.dispatches \in Seq(Dispatch)
  BY PlansAssumption DEF TypeOK
<1>2. IsFiniteSet(1..Len(plan.dispatches)) /\ DOMAIN plan.dispatches = 1..Len(plan.dispatches)
  BY <1>1, FS_Interval
<1>3. QED
  BY <1>2, PlanType DEF TypeOK, MaxOf

\* One reservation of one dispatch is one unit more wherever it is listed.
LEMMA OneMore ==
  ASSUME TypeOK, NEW i \in DOMAIN plan.dispatches, counts' = [counts EXCEPT ![i] = @ + 1],
         NEW S \in SUBSET DOMAIN plan.dispatches
  PROVE  Cardinality(Units(counts', S))
           = IF i \in S THEN Cardinality(Units(counts, S)) + 1 ELSE Cardinality(Units(counts, S))
<1>1. IsFiniteSet(S) /\ \A y \in S : counts[y] \in Nat
  BY CountsType, FS_Subset
<1>2. \A y \in S : counts'[y] = IF y = i THEN counts[y] + 1 ELSE counts[y]
  BY DEF TypeOK
<1>3. CASE i \in S
  BY <1>1, <1>2, <1>3, UnitsBump
<1>4. CASE i \notin S
  <2>1. Units(counts', S) = Units(counts, S)
    BY <1>2, <1>4 DEF Units
  <2>2. QED
    BY <1>4, <2>1
<1>5. QED
  BY <1>3, <1>4

LEMMA CountStep == TypeOK /\ CountInv /\ [Next]_vars => CountInv'
<1> SUFFICES ASSUME TypeOK, CountInv, [Next]_vars PROVE CountInv'
  OBVIOUS
<1>1. ASSUME NEW q \in Request, Reserve(q) PROVE CountInv'
  <2>1. PICK i \in DOMAIN plan.dispatches :
           Fits(i, q) /\ counts' = [counts EXCEPT ![i] = @ + 1]
    BY <1>1 DEF Reserve
  <2>2. plan' = plan /\ total' = total + 1 /\ granted' = Append(granted, q)
    BY <1>1 DEF Reserve
  <2>3. Accepted'
    BY <2>2 DEF CountInv, Accepted, Acceptable, SumOfMax, MaxOf
  <2>4. Tallied'
    BY <2>1, <2>2, OneMore DEF CountInv, Tallied
  <2>5. ASSUME NEW phase \in Phases, NEW key \in Keys
        PROVE  Cardinality(Granted(phase, key)') = Cardinality(Units(counts, Matching(phase, key))')
    <3> DEFINE last == Len(granted) + 1
    <3>1. granted \in Seq(Request)
      BY DEF TypeOK
    <3>2. /\ DOMAIN granted = 1..Len(granted) /\ Len(granted) \in Nat
          /\ DOMAIN granted' = DOMAIN granted \cup {last} /\ last \notin DOMAIN granted
          /\ granted'[last] = q
          /\ \A n \in DOMAIN granted : granted'[n] = granted[n]
      BY <2>2, <3>1
    <3> HIDE DEF last
    <3>3. IsFiniteSet(Granted(phase, key)) /\ Granted(phase, key) \subseteq DOMAIN granted
      <4>1. IsFiniteSet(DOMAIN granted)
        BY <3>2, FS_Interval
      <4>2. QED
        BY <4>1, FS_Subset DEF Granted
    <3>4. Matching(phase, key)' = Matching(phase, key)
      BY <2>2 DEF Matching
    <3>5. Matching(phase, key) \in SUBSET DOMAIN plan.dispatches
      BY DEF Matching
    <3>6. Cardinality(Granted(phase, key)) = Cardinality(Units(counts, Matching(phase, key)))
      BY DEF CountInv, Traced
    <3>7. i \in Matching(phase, key) <=> q.phase = phase /\ q.key = key
      BY <2>1 DEF Matching, Fits
    <3>8. CASE q.phase = phase /\ q.key = key
      <4>1. Granted(phase, key)' = Granted(phase, key) \cup {last}
        BY <3>2, <3>8 DEF Granted
      <4>2. Cardinality(Granted(phase, key)') = Cardinality(Granted(phase, key)) + 1
        BY <3>2, <3>3, <4>1, FS_AddElement
      <4>3. Cardinality(Units(counts', Matching(phase, key)))
              = Cardinality(Units(counts, Matching(phase, key))) + 1
        BY <2>1, <3>5, <3>7, <3>8, OneMore
      <4>4. QED
        BY <3>4, <3>6, <4>2, <4>3
    <3>9. CASE ~(q.phase = phase /\ q.key = key)
      <4>1. Granted(phase, key)' = Granted(phase, key)
        BY <3>2, <3>9 DEF Granted
      <4>2. Cardinality(Units(counts', Matching(phase, key)))
              = Cardinality(Units(counts, Matching(phase, key)))
        BY <2>1, <3>5, <3>7, <3>9, OneMore
      <4>3. QED
        BY <3>4, <3>6, <4>1, <4>2
    <3>10. QED
      BY <3>8, <3>9
  <2>6. QED
    BY <2>3, <2>4, <2>5 DEF CountInv, Traced
<1>2. CASE UNCHANGED guard /\ UNCHANGED granted
  BY <1>2 DEF guard, CountInv, Accepted, Tallied, Traced, Acceptable, SumOfMax, MaxOf, Granted, Matching
<1>3. QED
  BY <1>1, <1>2 DEF Next, Allow, Refuse, Cancel, vars, guard

LEMMA InitCount == Init => CountInv
<1> SUFFICES ASSUME Init PROVE CountInv
  OBVIOUS
<1>1. Accepted
  BY DEF Init, Accepted
<1>2. \A S \in SUBSET DOMAIN plan.dispatches : Units(counts, S) = {}
  BY DEF Init, Units
<1>3. \A phase, key : Granted(phase, key) = {} /\ Matching(phase, key) \in SUBSET DOMAIN plan.dispatches
  BY DEF Init, Granted, Matching
<1>4. total = 0 /\ Cardinality({}) = 0
  BY FS_EmptySet DEF Init
<1>5. QED
  BY <1>1, <1>2, <1>3, <1>4 DEF CountInv, Tallied, Traced

LEMMA AlwaysCounted == Spec => [](TypeOK /\ CountInv)
BY InitCount, CountStep, TypeCorrect, PTL DEF Spec

\* A plan that adds up has room for a request one of its dispatches still allows.
LEMMA RoomInTotal ==
  ASSUME TypeOK, Accepted, Tallied, NEW i \in DOMAIN plan.dispatches,
         counts[i] < plan.dispatches[i].max
  PROVE  total < plan.max
<1> DEFINE max == MaxOf(plan.dispatches)
           D == DOMAIN plan.dispatches
<1>1. \A y \in D : counts[y] \in Nat /\ max[y] \in Nat /\ counts[y] <= max[y]
  BY CountsType
<1>2. counts[i] < max[i] /\ IsFiniteSet(D)
  BY CountsType
<1>3. plan.max = SumFunctionOnSet(max, D)
  BY DEF Accepted, Acceptable, SumOfMax, SumFunction, MaxOf
<1> HIDE DEF max, D
<1>4. plan.max = Cardinality(Units(max, D))
  BY <1>1, <1>2, <1>3, SumIsCount
<1>5. Cardinality(Units(counts, D)) < Cardinality(Units(max, D))
  BY <1>1, <1>2, UnitsUnder DEF D
<1>6. QED
  BY <1>4, <1>5 DEF Tallied, D

\* No request is allowed more often than the dispatches listed for it say.
THEOREM NothingBeyondApproval == Spec => []WithinApproval
<1>1. TypeOK /\ CountInv => WithinApproval
  <2> SUFFICES ASSUME TypeOK, CountInv, NEW phase \in Phases, NEW key \in Keys
               PROVE  Cardinality(Granted(phase, key))
                        <= SumFunctionOnSet(MaxOf(plan.dispatches), Matching(phase, key))
    BY DEF WithinApproval
  <2> DEFINE max == MaxOf(plan.dispatches)
             S == Matching(phase, key)
  <2>1. S \subseteq DOMAIN plan.dispatches
    BY DEF Matching
  <2>2. IsFiniteSet(S) /\ \A y \in S : counts[y] \in Nat /\ max[y] \in Nat /\ counts[y] <= max[y]
    BY <2>1, CountsType, FS_Subset
  <2>3. Cardinality(Granted(phase, key)) = Cardinality(Units(counts, S))
    BY DEF CountInv, Traced
  <2> HIDE DEF max, S
  <2>4. SumFunctionOnSet(max, S) = Cardinality(Units(max, S))
    BY <2>2, SumIsCount
  <2>5. Cardinality(Units(counts, S)) <= Cardinality(Units(max, S))
    BY <2>2, UnitsUnder
  <2>6. QED
    BY <2>3, <2>4, <2>5 DEF max, S
<1>2. QED
  BY <1>1, AlwaysCounted, PTL

\* A well-formed request in time is refused only when every dispatch listed for it
\* is used up: the plan's own total never stands in the way.
THEOREM RefusalsAreJustified == Spec => RefusalJustified
<1> DEFINE justified == LET q == answer'.request
                        IN  /\ answer' # answer /\ ~answer'.ok /\ ~cancelled
                            /\ q.canonical /\ StageOf(q.phase) >= stage
                            => \A i \in Matching(q.phase, q.key) :
                                 counts[i] = plan.dispatches[i].max
<1>1. TypeOK /\ CountInv /\ [Next]_vars => [justified]_vars
  <2> SUFFICES ASSUME TypeOK, CountInv, NEW q \in Request, Refuse(q), ~cancelled,
                      q.canonical, StageOf(q.phase) >= stage,
                      NEW i \in Matching(q.phase, q.key)
               PROVE  counts[i] = plan.dispatches[i].max
    BY DEF Next, Allow, Reserve, Refuse, Cancel
  <2>1. /\ i \in DOMAIN plan.dispatches
        /\ plan.dispatches[i].phase = q.phase /\ plan.dispatches[i].key = q.key
    BY DEF Matching
  <2>2. counts[i] \in Nat /\ plan.dispatches[i].max \in Nat /\ counts[i] <= plan.dispatches[i].max
    BY <2>1, CountsType
  <2>3. StageOf(q.phase) >= 0
    BY <2>1 DEF CountInv, Accepted, Acceptable
  <2>4. SUFFICES ASSUME counts[i] < plan.dispatches[i].max PROVE FALSE
    BY <2>2
  <2>5. total < plan.max
    BY <2>1, <2>4, RoomInTotal DEF CountInv
  <2>6. InTime(q) /\ Fits(i, q)
    BY <2>1, <2>3, <2>4, <2>5 DEF InTime, Fits
  <2>7. QED
    BY <2>1, <2>6 DEF Refuse
<1>2. QED
  BY <1>1, AlwaysCounted, PTL DEF Spec, RefusalJustified
=============================================================================
