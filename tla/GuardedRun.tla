----------------------------- MODULE GuardedRun -----------------------------
(***************************************************************************)
(* A run of a test case whose client asks a request guard before it sends  *)
(* anything (run --request-guard): EngineRun composed with RequestGuard.   *)
(* The engine labels every exchange with a phase, the guard compares it    *)
(* with the plan it was given, and an exchange it refuses reaches nobody   *)
(* and comes back to the engine as an error like any other.                *)
(*                                                                         *)
(* A run of a case that is not watched is one of EngineRun.                *)
(***************************************************************************)
EXTENDS EngineRun

F == INSTANCE FiniteSetsExt

CONSTANTS
  Watched,   \* cases that are run behind a guard
  Restorer   \* whom the reset of a case is sent as

\* What a case says of its identities are maps, and maps of a file are finite.
ASSUME WatchedAssumption ==
  /\ Watched \subseteq Cases
  /\ \A c \in Watched : IsFiniteSet(c.preflight) /\ IsFiniteSet({ id \in Ids : Judged(c, id) })

VARIABLES
  plan, counts, total, stage, answer, granted,  \* of RequestGuard
  refused    \* history: in whose turn an exchange was refused before cancellation

guarding == <<plan, counts, total, stage, answer, granted, refused>>
allVars == <<vars, guarding>>

-----------------------------------------------------------------------------
(* Plans.  Whoever permits a run makes its plan from the case. *)

\* Every exchange a case may need: each step, probe and identity once, skipped
\* ones too, and for each identity judged by verification three reads and a reset.
Needed(c) ==
  LET judged == Cardinality({ id \in Ids : Judged(c, id) })
      D(phase, key, max) == [phase |-> phase, key |-> key, max |-> max]
  IN  { D("setup", n, 1) : n \in 1..c.setup }
      \cup { D("preflight", id, 1) : id \in c.preflight }
      \cup { D("resource", c.order[i], 1) : i \in DOMAIN c.order }
      \cup { d \in {D("verification", Reader, 3 * judged)} : c.verify }
      \cup { d \in {D("reset", Restorer, judged)} : c.verify /\ c.reset }

PlanFor(dispatches) ==
  [ dispatches |-> F!FoldSet(LAMBDA d, listed : Append(listed, d), <<>>, dispatches),
    max |-> F!SumFunction([d \in dispatches |-> d.max]) ]

Whole(c) == PlanFor(Needed(c))

\* Plans for another case: one exchange less than this one needs.
Short(c) ==
  { PlanFor({ e \in (Needed(c) \ {d}) \cup {[d EXCEPT !.max = @ - 1]} : e.max > 0 }) :
      d \in Needed(c) }

\* What the guard compares is reduced to who sends a request of a phase; a step
\* of setup is an actor of its own.
Senders == Ids \cup {Reader, Restorer} \cup UNION { 1..c.setup : c \in Watched }

AllPlans == UNION { {Whole(c)} \cup Short(c) : c \in Watched }

G == INSTANCE RequestGuard WITH Keys <- Senders, Plans <- AllPlans

Watching == tc \in Watched

GuardedInit ==
  /\ Init
  /\ refused = {}
  /\ IF Watching THEN plan \in {Whole(tc)} \cup Short(tc) /\ G!Init
     ELSE /\ plan = PlanFor({}) /\ counts = <<>> /\ total = 0 /\ stage = -1
          /\ answer = [ok |-> FALSE] /\ granted = <<>>

-----------------------------------------------------------------------------
(* Every exchange, with the guard in front of it. *)

\* Client.Execute: an exchange in id's turn; `failed` is how the engine's step
\* looks when it got an error.
Through(phase, key, id, failed) ==
  LET q == [phase |-> phase, key |-> key, canonical |-> TRUE]
  IN  \/ ~Watching /\ UNCHANGED guarding
      \/ Watching /\ G!Reserve(q) /\ UNCHANGED refused
      \/ /\ Watching /\ G!Refuse(q) /\ failed /\ server' = server
         /\ refused' = IF cancelled THEN refused ELSE refused \cup {id}

\* The labels the engine gives its exchanges.
GuardedSetup == SetupStep /\ Through("setup", at, at, pc' = "aborted")

GuardedProbe ==
  /\ Probe
  /\ \E id \in ToProbe :
       probes'[id] # probes[id] /\ Through("preflight", id, id, probes'[id] = "failed")

GuardedSend ==
  /\ SendPlain
  /\ \E id \in Ids :
       /\ exec'[id].sent /\ ~exec[id].sent
       /\ Through("resource", id, id, exec'[id].status = NoStatus)

GuardedReset == Reset /\ Through("reset", Restorer, Current, pc' = "turn")

GuardedRead ==
  \/ (ReadBefore \/ ReadAgain) /\ Through("verification", Reader, Current, pc' = "turn")
  \/ ReadAfter /\ Through("verification", Reader, Current, verdict'[Current] = "inconclusive")

\* Mutant: the write goes out as a part of its verification.
GuardedWrite_Unlabelled ==
  SendWrite /\ Through("verification", Current, Current, exec'[Current].status = NoStatus)

GuardedWrite ==
  SendWrite /\ Through("resource", Current, Current, exec'[Current].status = NoStatus)

GuardedStep ==
  \/ GuardedSetup \/ GuardedProbe \/ GuardedSend \/ GuardedReset \/ GuardedRead \/ GuardedWrite
  \/ (ApplySetup \/ EndPreflight \/ StartVerified \/ Conclude) /\ UNCHANGED guarding

GuardedNext ==
  \/ GuardedStep
  \/ (Cancel \/ TakeEffect \/ ForeignChange) /\ UNCHANGED guarding

GuardedSpec == GuardedInit /\ [][GuardedNext]_allVars

GuardedFairSpec == GuardedSpec /\ WF_allVars(GuardedStep)

-----------------------------------------------------------------------------
(* Properties. *)

\* A plan that counts what the case needs is enough, whatever the target answers:
\* no path through setup, probes, resets, repeated reads and writes asks for one
\* exchange more or for one out of its stage (Execute, Allow).
PlanSuffices ==
  Watching /\ { plan.dispatches[i] : i \in DOMAIN plan.dispatches } = Needed(tc) => refused = {}

\* An exchange the guard refuses never reads as protection or as access: whoever's
\* turn it was is not judged, except that a change which is not the refused write's -- by
\* a late write, by others, of a reader's value by itself -- is still seen as one
\* (verifiedExecute, assess).
RefusedJudgesNothing ==
  pc = "done" =>
    \A id \in refused \cap Ids :
      /\ assessment[id] # "denied"
      /\ Verified(id) =>
           ~Steady \/ late # "never" \/ foreign > 0 \/ assessment[id] # "allowed"
      /\ ~Verified(id) => assessment[id] # "allowed"
=============================================================================
