---------------------------- MODULE RequestGuard ----------------------------
(***************************************************************************)
(* internal/requestguard: a run under `--request-guard` may send only the  *)
(* requests its plan lists, each at most as often as the plan says, and in *)
(* the order setup, preflight, everything else.  Allow holds a mutex from  *)
(* beginning to end, so it is one step, whoever calls it.                  *)
(***************************************************************************)
EXTENDS Integers, Sequences, FiniteSets, Functions

CONSTANTS
  Keys,    \* what a dispatch is matched by: actor, method, URL, headers, query, body
  Plans    \* plans a caller may present: [dispatches |-> <<[phase, key, max]...>>, max]

Phases == {"setup", "preflight", "resource", "verification", "reset", "unlabelled"}

\* Where a phase comes in a run; -1 is no phase of a plan.
StageOf(phase) ==
  CASE phase = "setup" -> 0
    [] phase = "preflight" -> 1
    [] phase \in {"resource", "verification", "reset"} -> 2
    [] OTHER -> -1

Dispatch == [phase : Phases, key : Keys, max : Nat]

\* A call of Allow: `canonical` is FALSE when two headers differ only in case or
\* the body is not one JSON document without duplicate names.
Request == [phase : Phases, key : Keys, canonical : BOOLEAN]

MaxOf(ds) == [i \in DOMAIN ds |-> ds[i].max]

SumOfMax(ds) == SumFunction(MaxOf(ds))

\* Mutant: the plan's total is not compared with its dispatches.
Acceptable_AnyTotal(p) ==
  /\ p.max >= 1 /\ p.dispatches # <<>>
  /\ \A i \in DOMAIN p.dispatches :
       StageOf(p.dispatches[i].phase) >= 0 /\ p.dispatches[i].max >= 1

\* New refuses a plan that does not add up; it copies the one it accepts.
Acceptable(p) ==
  /\ p.max >= 1 /\ p.dispatches # <<>>
  /\ \A i \in DOMAIN p.dispatches :
       StageOf(p.dispatches[i].phase) >= 0 /\ p.dispatches[i].max >= 1
  /\ SumOfMax(p.dispatches) = p.max

ASSUME PlansAssumption ==
  \A p \in Plans : p.dispatches \in Seq(Dispatch) /\ p.max \in Nat

VARIABLES
  plan,       \* the accepted plan
  counts,     \* counts[i]: reservations of dispatch i
  total,      \* reservations of all dispatches
  stage,      \* the stage of the latest reservation, -1 before the first
  cancelled,  \* whether the context of the run is cancelled
  answer,     \* what Allow was asked and said last
  granted     \* history: the requests allowed, oldest first

guard == <<plan, counts, total, stage>>
vars == <<guard, cancelled, answer, granted>>

-----------------------------------------------------------------------------
\* Mutant: reservations are checked after the limit is passed.
Fits_OffByOne(i, q) ==
  /\ plan.dispatches[i].phase = q.phase
  /\ plan.dispatches[i].key = q.key
  /\ counts[i] <= plan.dispatches[i].max

\* Dispatch i is for this request and has reservations left.
Fits(i, q) ==
  /\ plan.dispatches[i].phase = q.phase
  /\ plan.dispatches[i].key = q.key
  /\ counts[i] < plan.dispatches[i].max

\* Mutant: the stage of the run is not looked at.
InTime_AnyStage(q) == StageOf(q.phase) >= 0 /\ total < plan.max /\ ~cancelled

InTime(q) ==
  /\ StageOf(q.phase) >= stage
  /\ StageOf(q.phase) >= 0
  /\ total < plan.max
  /\ ~cancelled

\* Mutant: the total is not advanced when a listed request is repeated.
Reserve_Retried(q) ==
  /\ InTime(q) /\ q.canonical
  /\ \E i \in DOMAIN plan.dispatches :
       /\ Fits(i, q)
       /\ \A k \in DOMAIN plan.dispatches : k < i => ~Fits(k, q)
       /\ counts' = [counts EXCEPT ![i] = @ + 1]
       /\ total' = IF counts[i] = 0 THEN total + 1 ELSE total
  /\ stage' = StageOf(q.phase)
  /\ granted' = Append(granted, q)
  /\ answer' = [request |-> q, ok |-> TRUE]
  /\ UNCHANGED <<plan, cancelled>>

\* The first dispatch that fits is reserved.
Reserve(q) ==
  /\ InTime(q) /\ q.canonical
  /\ \E i \in DOMAIN plan.dispatches :
       /\ Fits(i, q)
       /\ \A k \in DOMAIN plan.dispatches : k < i => ~Fits(k, q)
       /\ counts' = [counts EXCEPT ![i] = @ + 1]
  /\ total' = total + 1
  /\ stage' = StageOf(q.phase)
  /\ granted' = Append(granted, q)
  /\ answer' = [request |-> q, ok |-> TRUE]
  /\ UNCHANGED <<plan, cancelled>>

Refuse(q) ==
  /\ ~(InTime(q) /\ q.canonical /\ \E i \in DOMAIN plan.dispatches : Fits(i, q))
  /\ answer' = [request |-> q, ok |-> FALSE]
  /\ UNCHANGED <<guard, cancelled, granted>>

Allow(q) == Reserve(q) \/ Refuse(q)

\* A signal cancels the context of a guarded run.
Cancel ==
  /\ ~cancelled
  /\ cancelled' = TRUE
  /\ UNCHANGED <<guard, answer, granted>>

Init ==
  /\ plan \in { p \in Plans : Acceptable(p) }
  /\ counts = [i \in DOMAIN plan.dispatches |-> 0]
  /\ total = 0
  /\ stage = -1
  /\ cancelled = FALSE
  /\ answer = [request |-> [phase |-> "unlabelled"], ok |-> FALSE]
  /\ granted = <<>>

Next == (\E q \in Request : Allow(q)) \/ Cancel

Spec == Init /\ [][Next]_vars

-----------------------------------------------------------------------------
TypeOK ==
  /\ plan \in Plans
  /\ DOMAIN counts = DOMAIN plan.dispatches
  /\ \A i \in DOMAIN counts : counts[i] \in 0..plan.dispatches[i].max
  /\ total \in Nat
  /\ stage \in -1..2
  /\ cancelled \in BOOLEAN
  /\ answer.ok \in BOOLEAN
  /\ granted \in Seq(Request)

Matching(phase, key) ==
  { i \in DOMAIN plan.dispatches :
      plan.dispatches[i].phase = phase /\ plan.dispatches[i].key = key }

Granted(phase, key) ==
  { n \in DOMAIN granted : granted[n].phase = phase /\ granted[n].key = key }

\* No request is allowed more often than the dispatches listed for it say taken
\* together -- a plan may list one twice -- nor anything the plan does not list.
WithinApproval ==
  \A phase \in Phases, key \in Keys :
    Cardinality(Granted(phase, key))
      <= SumFunctionOnSet(MaxOf(plan.dispatches), Matching(phase, key))

\* The total counts the allowed requests and stays within the plan's own total.
TotalHonest == total = Len(granted) /\ total <= plan.max

\* Requests are allowed in the order of the stages: nothing is set up again and
\* no identity is probed again once a later stage has begun.
InStageOrder ==
  \A m, n \in DOMAIN granted :
    m < n => StageOf(granted[m].phase) <= StageOf(granted[n].phase)

\* The plan's total never refuses what one of its dispatches still allows: a
\* well-formed request in time is refused only when all its dispatches are used
\* up (New checks that the totals add up).
RefusalJustified ==
  [][ LET q == answer'.request
      IN  /\ answer' # answer /\ ~answer'.ok /\ ~cancelled
          /\ q.canonical /\ StageOf(q.phase) >= stage
          => \A i \in Matching(q.phase, q.key) : counts[i] = plan.dispatches[i].max ]_vars
=============================================================================
